---------------------------- MODULE GrowingCopy ----------------------------
(***************************************************************************)
(* The copy itself: GrowingFileCopyStrategy (copy_strategies.py) with the  *)
(* preparation of the destination (job_file_preparation_service.py,        *)
(* utils/file_operations.py).  A worker follows a source that may still be *)
(* written, a safety margin behind its end, until it has been quiet for    *)
(* the growth timeout; then it copies the rest, compares the sizes and     *)
(* removes the source.                                                     *)
(*                                                                         *)
(* Between any two I/O calls of a worker the writer of the source, the     *)
(* other workers and a crash of the agent may come in.  Sizes are counted  *)
(* in blocks.  The destination is opened in place: there is no temporary   *)
(* file, and a path is free until somebody has opened it.                  *)
(***************************************************************************)
EXTENDS Integers

CONSTANTS
    Sources, Workers,
    Healthy,       \* the workers whose calls return
    Paths,         \* of the destination
    Candidates,    \* [s][n]: the n-th path tried for a source
    MaxSize,       \* bound: blocks of a source
    MaxTries,      \* bound: name, name_1, name_2, ... (9998 in the code)
    ChunkSize,     \* growing_file_chunk_size_kb
    Margin,        \* growing_file_safety_margin_mb
    MinSize,       \* growing_file_min_size_mb
    MaxQuiet,      \* growth timeout // poll interval: polls without growth
    None

ASSUME SizesAssumption ==
    /\ MaxSize \in Nat \ {0} /\ MaxTries \in Nat
    /\ ChunkSize \in Nat \ {0} /\ Margin \in Nat \ {0}
    /\ MinSize \in Nat \ {0} /\ MaxQuiet \in Nat \ {0}
\* Two sources may have one name, or one the other's numbered name.
ASSUME CandidatesAssumption == Candidates \in [Sources -> [1..MaxTries -> Paths]]
ASSUME NoneAssumption == None \notin Sources
ASSUME HealthyAssumption == Healthy \subseteq Workers

Blocks == 1..MaxSize
PathsOf(s) == {Candidates[s][n] : n \in 1..MaxTries}

VARIABLES
    written,      \* blocks the source has got so far
    here,         \* the source is in its folder
    disposed,     \* sources the agent has deleted or marked COMPLETED
    created,      \* destination paths that exist
    size,         \* their size
    content,      \* the source each of their blocks came from
    pc,           \* where a worker is
    job, dst,     \* its source and its destination
    copied,       \* bytes_copied
    seen,         \* source_size, of the verification
    upTo,         \* safe_copy_to
    last, quiet,  \* last_file_size, no_growth_cycles
    full,         \* file_finished_growing
\* What has happened that the code does not guard against:
    sure,         \* the worker has taken its source for finished
    resumed,      \* sources written on when a worker was sure, or was done
    contested     \* paths that two workers were to open at a time

source == <<written, here>>
destination == <<created, size, content>>
progress == <<copied, seen, upTo, last, quiet, full>>
history == <<sure, resumed, contested>>
vars == <<source, disposed, destination, pc, job, dst, progress, history>>

\* What is at the destination already is somebody else's.
Init ==
    /\ written \in [Sources -> 0..MaxSize]
    /\ here = [s \in Sources |-> TRUE]
    /\ disposed = {}
    /\ created \in SUBSET Paths
    /\ size = [d \in Paths |-> IF d \in created THEN 1 ELSE 0]
    /\ content = [d \in Paths |-> [b \in Blocks |-> None]]
    /\ pc = [w \in Workers |-> "idle"]
    /\ job = [w \in Workers |-> None]
    /\ dst = [w \in Workers |-> None]
    /\ copied = [w \in Workers |-> 0]
    /\ seen = [w \in Workers |-> 0]
    /\ upTo = [w \in Workers |-> 0]
    /\ last = [w \in Workers |-> 0]
    /\ quiet = [w \in Workers |-> 0]
    /\ full = [w \in Workers |-> FALSE]
    /\ sure = [w \in Workers |-> FALSE]
    /\ resumed = {}
    /\ contested = {}

Go(w, there) == pc' = [pc EXCEPT ![w] = there]
Busy(w) == pc[w] # "idle"

\* Their jobs done or given up, what these workers knew of them is forgotten.
Blank(f, W, zero) == [w \in Workers |-> IF w \in W THEN zero ELSE f[w]]

Leave(W) ==
    /\ pc' = Blank(pc, W, "idle")
    /\ job' = Blank(job, W, None)
    /\ dst' = Blank(dst, W, None)
    /\ copied' = Blank(copied, W, 0)
    /\ seen' = Blank(seen, W, 0)
    /\ upTo' = Blank(upTo, W, 0)
    /\ last' = Blank(last, W, 0)
    /\ quiet' = Blank(quiet, W, 0)
    /\ full' = Blank(full, W, FALSE)
    /\ sure' = Blank(sure, W, FALSE)
    /\ UNCHANGED <<resumed, contested>>

-----------------------------------------------------------------------------
(* Preparation.                                                            *)

\* Another worker is on its way to the same path.
Contended(w) == {dst'[w]} \cap {dst[v] : v \in {v \in Workers \ {w} : Busy(v)}}

\* Mutant: the destination is not made conflict-free.
PrepareOverwriting(w, s) ==
    /\ ~Busy(w)
    /\ dst' = [dst EXCEPT ![w] = Candidates[s][1]]
    /\ job' = [job EXCEPT ![w] = s]
    /\ contested' = contested \cup Contended(w)
    /\ Go(w, "begin")
    /\ UNCHANGED <<source, disposed, destination, progress, sure, resumed>>

\* prepare_file_for_copy: the first path that does not exist.  Nobody holds
\* the path until copy_file opens it.  A source may have two jobs.
Prepare(w, s) ==
    /\ ~Busy(w)
    /\ \E n \in 1..MaxTries :
          /\ Candidates[s][n] \notin created
          /\ \A m \in 1..MaxTries : m < n => Candidates[s][m] \in created
          /\ dst' = [dst EXCEPT ![w] = Candidates[s][n]]
    /\ job' = [job EXCEPT ![w] = s]
    /\ contested' = contested \cup Contended(w)
    /\ Go(w, "begin")
    /\ UNCHANGED <<source, disposed, destination, progress, sure, resumed>>

\* copy_file asks _is_file_currently_growing, which goes by the status and the
\* growth of the file so far, and for the size.
Begin(w) ==
    LET s == job[w]
    IN  /\ pc[w] = "begin"
        /\ here[s]
        /\ \E growing \in BOOLEAN :
              /\ Go(w, IF growing /\ written[s] < MinSize THEN "wait" ELSE "open")
              /\ sure' = [sure EXCEPT ![w] = ~growing]
        /\ UNCHANGED <<source, disposed, destination, job, dst, progress, resumed, contested>>

\* A growing file below the minimum size is asked again and again.
Wait(w) ==
    /\ pc[w] = "wait"
    /\ here[job[w]]
    /\ written[job[w]] >= MinSize
    /\ Go(w, "open")
    /\ UNCHANGED <<source, disposed, destination, job, dst, progress, history>>

\* _copy_growing_file asks again whether the file grows, and opens the
\* destination with "wb".
Open(w) ==
    /\ pc[w] = "open"
    /\ created' = created \cup {dst[w]}
    /\ size' = [size EXCEPT ![dst[w]] = 0]
    /\ content' = [content EXCEPT ![dst[w]] = [b \in Blocks |-> None]]
    /\ copied' = [copied EXCEPT ![w] = 0]
    /\ last' = [last EXCEPT ![w] = 0]
    /\ quiet' = [quiet EXCEPT ![w] = 0]
    /\ \E growing \in BOOLEAN :
          /\ full' = [full EXCEPT ![w] = ~growing]
          /\ sure' = [sure EXCEPT ![w] = @ \/ ~growing]
    /\ Go(w, "poll")
    /\ UNCHANGED <<source, disposed, job, dst, seen, upTo, resumed, contested>>

-----------------------------------------------------------------------------
(* _growing_copy_loop.                                                     *)

\* Mutants: last_file_size is never updated; the margin is added; there is none.
CalmForgets(w, now) == IF full[w] THEN quiet[w] ELSE IF now > 0 THEN 0 ELSE quiet[w] + 1
GoalAhead(now, done) == IF done THEN now ELSE now + Margin
GoalAtOnce(now, done) == now

\* Polls without growth, counted until the file has grown out.
Calm(w, now) ==
    IF full[w] THEN quiet[w] ELSE IF now > last[w] THEN 0 ELSE quiet[w] + 1

\* safe_copy_to.
Goal(now, done) == IF done THEN now ELSE IF now > Margin THEN now - Margin ELSE 0

\* One turn up to the decision what to copy.
Poll(w) ==
    LET s == job[w]
        now == written[s]
        calm == Calm(w, now)
        done == full[w] \/ calm >= MaxQuiet
        goal == Goal(now, done)
    IN  /\ pc[w] = "poll"
        /\ here[s]
        /\ last' = [last EXCEPT ![w] = IF ~full[w] /\ now > @ THEN now ELSE @]
        /\ quiet' = [quiet EXCEPT ![w] = calm]
        /\ full' = [full EXCEPT ![w] = done]
        /\ sure' = [sure EXCEPT ![w] = @ \/ done]
        /\ \/ /\ goal > copied[w]
              /\ upTo' = [upTo EXCEPT ![w] = goal]
              /\ Go(w, "range")
           \/ /\ goal <= copied[w]
              /\ Go(w, IF done THEN "verify" ELSE "poll")
              /\ UNCHANGED upTo
        /\ UNCHANGED <<source, disposed, destination, job, dst, copied, seen, resumed, contested>>

\* The size cannot be had in time: the loop ends with what is copied.
PollFails(w) ==
    /\ pc[w] = "poll"
    /\ Go(w, "verify")
    /\ UNCHANGED <<source, disposed, destination, job, dst, progress, history>>

\* _copy_chunk_range: one chunk is written at the worker's own position in the
\* destination.  The source is opened again for each range.
Chunk(w) ==
    LET s == job[w]
        d == dst[w]
        end == IF upTo[w] - copied[w] < ChunkSize THEN upTo[w] ELSE copied[w] + ChunkSize
    IN  /\ pc[w] \in {"range", "chunk"}
        /\ pc[w] = "range" => here[s]
        /\ content' = [content EXCEPT ![d] =
              [b \in Blocks |-> IF copied[w] < b /\ b <= end THEN s ELSE content[d][b]]]
        /\ size' = [size EXCEPT ![d] = IF @ < end THEN end ELSE @]
        /\ copied' = [copied EXCEPT ![w] = end]
        /\ Go(w, IF end < upTo[w] THEN "chunk" ELSE IF full[w] THEN "verify" ELSE "poll")
        /\ UNCHANGED <<source, disposed, created, job, dst, seen, upTo, last, quiet, full, history>>

-----------------------------------------------------------------------------
(* _verify_file_integrity and the end of copy_file.                        *)

AskSourceSize(w) ==
    /\ pc[w] = "verify"
    /\ here[job[w]]
    /\ seen' = [seen EXCEPT ![w] = written[job[w]]]
    /\ Go(w, "compare")
    /\ UNCHANGED <<source, disposed, destination, job, dst, copied, upTo, last, quiet, full, history>>

Agreed(w) == Go(w, "remove") /\ UNCHANGED <<job, dst, progress, history>>

\* Mutant: the destination is compared with what was copied.
CompareCopied(w) ==
    /\ pc[w] = "compare"
    /\ \/ size[dst[w]] = copied[w] /\ Agreed(w)
       \/ size[dst[w]] # copied[w] /\ Leave({w})
    /\ UNCHANGED <<source, disposed, destination>>

\* The sizes must agree.
Compare(w) ==
    /\ pc[w] = "compare"
    /\ \/ size[dst[w]] = seen[w] /\ Agreed(w)
       \/ size[dst[w]] # seen[w] /\ Leave({w})
    /\ UNCHANGED <<source, disposed, destination>>

\* The source is removed, if the file system lets it be, and marked COMPLETED
\* in either case.  A restart between the two leaves what this step leaves, or
\* what there was before it.
Remove(w) ==
    LET s == job[w]
    IN  /\ pc[w] = "remove"
        /\ here' \in {here, [here EXCEPT ![s] = FALSE]}
        /\ disposed' = disposed \cup {s}
        /\ Leave({w})
        /\ UNCHANGED <<written, destination>>

\* Where a file operation may fail, or the network detector's look at the
\* destination, which follows a chunk.
MayFail == {"begin", "wait", "open", "poll", "range", "chunk", "verify", "compare"}

\* A call fails on the way: the copy is given up, the destination stays.
GiveUp(w) ==
    /\ pc[w] \in MayFail
    /\ Leave({w})
    /\ UNCHANGED <<source, disposed, destination>>

\* The calls that must fail because the source is not there.
Miss(w) ==
    /\ Busy(w) /\ ~here[job[w]]
    /\ \/ pc[w] \in {"begin", "wait", "range", "verify"} /\ Leave({w})
       \/ /\ pc[w] = "poll"
          /\ Go(w, "verify")
          /\ UNCHANGED <<job, dst, progress, history>>
    /\ UNCHANGED <<source, disposed, destination>>

-----------------------------------------------------------------------------
(* The world.                                                              *)

\* The owner of a source may write on at any time, or never again.
Grow(s) ==
    /\ here[s]
    /\ written[s] < MaxSize
    /\ written' = [written EXCEPT ![s] = @ + 1]
    /\ resumed' = IF s \in disposed \/ \E w \in Workers : Busy(w) /\ job[w] = s /\ sure[w]
                  THEN resumed \cup {s} ELSE resumed
    /\ UNCHANGED <<here, disposed, destination, pc, job, dst, progress, sure, contested>>

Vanish(s) ==
    /\ here[s]
    /\ here' = [here EXCEPT ![s] = FALSE]
    /\ UNCHANGED <<written, disposed, destination, pc, job, dst, progress, history>>

\* The agent is stopped or dies, and is started again (stop_workers cancels
\* the workers wherever they are).
Restart ==
    /\ \E w \in Workers : Busy(w)
    /\ Leave(Workers)
    /\ UNCHANGED <<source, disposed, destination>>

Step(w) ==
    \/ Begin(w) \/ Wait(w) \/ Open(w) \/ Poll(w) \/ Chunk(w)
    \/ AskSourceSize(w) \/ Compare(w) \/ Remove(w) \/ Miss(w)

Next ==
    \/ \E w \in Workers : Step(w) \/ PollFails(w) \/ GiveUp(w)
    \/ \E w \in Workers, s \in Sources : Prepare(w, s)
    \/ \E s \in Sources : Grow(s) \/ Vanish(s)
    \/ Restart

Spec == Init /\ [][Next]_vars

\* The calls of the healthy workers return; the others may hang for ever.
\* (No source grows for ever: MaxSize.)
FairSpec == Spec /\ \A w \in Healthy : WF_vars(Step(w))

-----------------------------------------------------------------------------
(* Properties.                                                             *)

Phases == { "idle", "begin", "wait", "open", "poll", "range", "chunk",
            "verify", "compare", "remove" }

TypeOK ==
    /\ written \in [Sources -> 0..MaxSize]
    /\ here \in [Sources -> BOOLEAN]
    /\ disposed \subseteq Sources
    /\ created \subseteq Paths
    /\ size \in [Paths -> 0..MaxSize]
    /\ content \in [Paths -> [Blocks -> Sources \cup {None}]]
    /\ pc \in [Workers -> Phases]
    /\ job \in [Workers -> Sources \cup {None}]
    /\ dst \in [Workers -> Paths \cup {None}]
    /\ \A w \in Workers : Busy(w) => job[w] \in Sources /\ dst[w] \in Paths
    /\ copied \in [Workers -> 0..MaxSize]
    /\ seen \in [Workers -> 0..MaxSize]
    /\ upTo \in [Workers -> 0..MaxSize]
    /\ last \in [Workers -> 0..MaxSize]
    /\ quiet \in [Workers -> 0..MaxQuiet]
    /\ full \in [Workers -> BOOLEAN]
    /\ sure \in [Workers -> BOOLEAN]
    /\ resumed \subseteq Sources
    /\ contested \subseteq Paths

\* Destination file d, one of those tried for s, holds all of it.
Holds(d, s) ==
    /\ d \in PathsOf(s)
    /\ size[d] = written[s]
    /\ \A b \in Blocks : b <= written[s] => content[d][b] = s

Arrived == {s \in Sources : \E d \in created : Holds(d, s)}

(***************************************************************************)
(* A source the agent has removed or marked COMPLETED is at the            *)
(* destination with every byte its owner ever wrote, and stays there       *)
(* (README.md:12, "size verification before finalizing the transfer").     *)
(***************************************************************************)
NothingLost == disposed \subseteq Arrived

(***************************************************************************)
(* What the code does not guard against: the owner writes on although a    *)
(* worker took the source for finished, or two workers were to open one of *)
(* the destinations of the source at a time.                               *)
(***************************************************************************)
Doubtful == resumed \cup {s \in Sources : PathsOf(s) \cap contested # {}}

(***************************************************************************)
(* Nothing else loses a byte: growth behind the margin, failures and       *)
(* restarts at any call, two jobs of one source one after the other, files *)
(* of others at the destination.                                           *)
(***************************************************************************)
LossHasCause == disposed \ Arrived \subseteq Doubtful

(***************************************************************************)
(* Why: an invariant every step preserves.                                 *)
(***************************************************************************)

\* A path that exists before it is opened, or is two workers', is contested.
ContestIsSeen ==
    /\ \A w \in Workers : Busy(w) => dst[w] \in PathsOf(job[w])
    /\ \A v, w \in Workers :
          Busy(v) /\ Busy(w) /\ v # w /\ dst[v] = dst[w] => dst[w] \in contested
    /\ \A w \in Workers :
          pc[w] \in {"begin", "wait", "open"} /\ dst[w] \in created => dst[w] \in contested

\* The destination of a running copy is the beginning of its source.
IsPrefix(w) ==
    /\ dst[w] \in created
    /\ copied[w] <= written[job[w]]
    /\ dst[w] \notin contested =>
          /\ size[dst[w]] = copied[w]
          /\ \A b \in Blocks : b <= copied[w] => content[dst[w]][b] = job[w]

\* The source may still grow, as far as its worker knows.
Live(w) == job[w] \notin resumed /\ ~sure[w]

\* The copy stays behind such a source.
StaysBehind(w) ==
    /\ full[w] \/ quiet[w] < MaxQuiet
    /\ full[w] => sure[w]
    /\ Live(w) => copied[w] < written[job[w]]

IsWhole(w) ==
    \/ job[w] \in resumed
    \/ sure[w] /\ copied[w] = written[job[w]]

Opened == {"poll", "range", "chunk", "verify", "compare", "remove"}

CopyRuns ==
    \A w \in Workers :
        /\ pc[w] = "open" /\ Live(w) => 0 < written[job[w]]
        /\ pc[w] \in Opened => IsPrefix(w) /\ StaysBehind(w)
        /\ pc[w] \in {"range", "chunk"} =>
              /\ copied[w] < upTo[w]
              /\ upTo[w] <= written[job[w]]
              /\ Live(w) => upTo[w] < written[job[w]]
        /\ pc[w] = "compare" /\ copied[w] = seen[w] => IsWhole(w)
        /\ pc[w] = "remove" /\ dst[w] \notin contested => IsWhole(w)

\* What is disposed of is at rest at the destination, but for the doubtful.
DisposedRests ==
    \A s \in disposed \ Doubtful :
        \E d \in created : Holds(d, s) /\ \A w \in Workers : Busy(w) => dst[w] # d

\* No destination is ahead of its source.
NoFutureBlock ==
    \A d \in Paths, b \in Blocks :
        content[d][b] # None => b <= written[content[d][b]]

IInv == ContestIsSeen /\ CopyRuns /\ DisposedRests /\ NoFutureBlock

(***************************************************************************)
(* The copy implements the promise.                                        *)
(***************************************************************************)
Promise == INSTANCE SafeMove WITH
    arrived <- Arrived, doubtful <- Doubtful
PromiseKept == Promise!Spec

(***************************************************************************)
(* A healthy worker's copy that got past the wait for the minimum size     *)
(* comes to an end, whatever the others do: the loop stops following the   *)
(* source once that is quiet, and finds its end.                           *)
(***************************************************************************)
CopyEnds == \A w \in Healthy : pc[w] \notin {"idle", "wait"} ~> pc[w] \in {"idle", "wait"}
=============================================================================
