------------------------------ MODULE SafeMove ------------------------------
(***************************************************************************)
(* What the file transfer agent promises of the files it moves: a source   *)
(* is disposed of, that is removed or marked COMPLETED, only when all of   *)
(* it has arrived at the destination, where it stays from then on.  The    *)
(* promise does not hold for the doubtful: sources whose owner wrote on    *)
(* when they were taken for finished, or whose destination was contested.  *)
(***************************************************************************)
EXTENDS Naturals

CONSTANT Sources

VARIABLES
    written,      \* the bytes a source has
    here,         \* is it in the source folder?
    arrived,      \* sources of which a destination file holds every byte
    disposed,     \* sources removed or marked COMPLETED
    doubtful      \* sources the promise does not hold for

moveVars == <<written, here, arrived, disposed, doubtful>>

Init ==
    /\ written \in [Sources -> Nat]
    /\ here = [s \in Sources |-> TRUE]
    /\ arrived \in SUBSET Sources
    /\ disposed = {}
    /\ doubtful = {}

\* Its owner writes on: what has arrived is no longer all of it.
Grow(s) ==
    /\ written' = [written EXCEPT ![s] = @ + 1]
    /\ doubtful' \in {doubtful, doubtful \cup {s}}
    /\ s \in disposed => s \in doubtful'
    /\ arrived' = arrived \ {s}
    /\ UNCHANGED <<here, disposed>>

\* Its owner takes it away.
Vanish(s) ==
    /\ here' = [here EXCEPT ![s] = FALSE]
    /\ UNCHANGED <<written, arrived, disposed, doubtful>>

\* Some destination file has got its last missing byte, or is none any more.
Transfer ==
    /\ UNCHANGED <<written, here, disposed, doubtful>>
    /\ arrived' \in SUBSET Sources
    /\ disposed \ arrived' \subseteq (disposed \ arrived) \cup doubtful

\* Their destination is contested.
Doubt ==
    /\ doubtful' # doubtful /\ doubtful \subseteq doubtful'
    /\ doubtful' \in SUBSET Sources
    /\ UNCHANGED <<written, here, arrived, disposed>>

\* The source is removed, or marked.
Dispose(s) ==
    /\ disposed' = disposed \cup {s}
    /\ s \in arrived \cup doubtful
    /\ here' \in {here, [here EXCEPT ![s] = FALSE]}
    /\ UNCHANGED <<written, arrived, doubtful>>

Next ==
    \/ \E s \in Sources : Grow(s) \/ Vanish(s) \/ Dispose(s)
    \/ Transfer \/ Doubt

Spec == Init /\ [][Next]_moveVars
=============================================================================
