-------------------------- MODULE WebSocketManager --------------------------
(***************************************************************************)
(* What the users see (services/websocket_manager.py, api/websockets.py).  *)
(*                                                                         *)
(* Events become broadcasts: a walk over the list of connections, by       *)
(* index, which suspends at each client until its socket has room.  What   *)
(* is sent is written at once, so that a client gets everything in the     *)
(* order of the calls, and of two broadcasts that wait at one client the   *)
(* older goes on first.  Only at a client that has failed may the newer    *)
(* pass: its send raises at once.  Meanwhile clients come and go, and a    *)
(* connection taken out of the list shifts the others under every walk.    *)
(*                                                                         *)
(* Connections are numbered in the order in which they come; a client that *)
(* returns is another.  So the list of connections is known from the set   *)
(* of them, in the order of their numbers, and an index into it is a count *)
(* of clients (Place).  Of the messages two kinds are kept.  One of a file *)
(* holds the file as it is when the event is handled; one of the scanner   *)
(* holds what the event says.  Both are versions, counted from 0.  Mount   *)
(* news does not get as far as a broadcast (line 305 asks the event for a  *)
(* field it has not).                                                      *)
(***************************************************************************)
EXTENDS Naturals, Sequences, SequencesExt, FiniteSets, FiniteSetsExt

CONSTANTS
    MaxClients,   \* bound: connections, one after the other or together
    MaxChanges,   \* bound: changes of all topics
    MaxCasts,     \* bound: broadcasts under way
    None

Clients == 1..MaxClients

ASSUME NoneAssumption == None \notin Clients
ASSUME BoundsAssumption == MaxClients \in Nat /\ MaxChanges \in Nat

Topics == {"file", "scanner"}
Versions == 0..MaxChanges
Blank == [t \in Topics |-> 0]

VARIABLES
    truth,          \* the version of a topic
    pending,        \* how many of its events are published and not handled
    phase,          \* where a connection is
    open,           \* is it up, whether or not anybody has noticed?
    conns,          \* WebSocketManager._connections
    scannerStatus,  \* WebSocketManager._scanner_status
    view,           \* the version a client was sent last
    casts,          \* broadcasts under way, the oldest first
    shaken,         \* history: a broadcast of the topic lost its place or was passed
    unheard         \* history: scanner news came when nobody was connected

world == <<truth, pending>>
sockets == <<phase, open>>
vars == <<world, sockets, conns, scannerStatus, view, casts, shaken, unheard>>

\* Mutant: the status of the scanner is unknown before its first event.
InitUnknown ==
    /\ truth = [t \in Topics |-> 0]
    /\ pending = [t \in Topics |-> 0]
    /\ phase = [c \in Clients |-> "away"]
    /\ open = [c \in Clients |-> FALSE]
    /\ conns = {}
    /\ scannerStatus = None
    /\ view = [c \in Clients |-> Blank]
    /\ casts = <<>>
    /\ shaken = [t \in Topics |-> FALSE]
    /\ unheard = FALSE

Init ==
    /\ truth = [t \in Topics |-> 0]
    /\ pending = [t \in Topics |-> 0]
    /\ phase = [c \in Clients |-> "away"]
    /\ open = [c \in Clients |-> FALSE]
    /\ conns = {}
    /\ scannerStatus = 0
    /\ view = [c \in Clients |-> Blank]
    /\ casts = <<>>
    /\ shaken = [t \in Topics |-> FALSE]
    /\ unheard = FALSE

\* The index of client c in the list.
Place(c) == Cardinality({d \in conns : d <= c})
End == Cardinality(conns) + 1

\* The clients broadcast b has passed, by the list as it is now.
Passed(b) == {c \in conns : Place(c) <= casts[b].pos}

\* disconnect, for each client of gone: the list closes up behind them.
Drop(gone) == conns' = conns \ gone

\* The topics of those broadcasts of others that lose their place by it.
Displaced(gone, others) == {casts[b].topic : b \in {b \in others : gone \cap Passed(b) # {}}}

\* Broadcast b goes to place stop of the list: does it pass an older one?
Overtaken(b, stop) ==
    {casts[a].topic : a \in {a \in 1..(b - 1) : casts[a].topic = casts[b].topic
                                               /\ casts[a].pos < stop}}

Shake(topics) == shaken' = [t \in Topics |-> shaken[t] \/ t \in topics]

-----------------------------------------------------------------------------
(* Connections.                                                            *)

\* websocket_endpoint and connect: the client is in the list from now on.
Connect(c) ==
    /\ phase[c] = "away" /\ \A d \in 1..(c - 1) : phase[d] # "away"
    /\ phase' = [phase EXCEPT ![c] = "joining"]
    /\ open' = [open EXCEPT ![c] = TRUE]
    /\ conns' = conns \cup {c}
    /\ UNCHANGED <<world, scannerStatus, view, casts, shaken, unheard>>

\* Mutant: what the client was sent in the meantime is taken for the state.
SendInitialFilesOnly(c) ==
    /\ phase[c] = "joining"
    /\ IF open[c]
       THEN /\ phase' = [phase EXCEPT ![c] = "live"]
            /\ view' = [view EXCEPT ![c].file = truth["file"]]
       ELSE phase' = [phase EXCEPT ![c] = "gone"] /\ UNCHANGED view
    /\ UNCHANGED <<world, open, conns, scannerStatus, casts, shaken, unheard>>

\* _send_initial_state: the registry as it is, once its lock is free.  If the
\* client has left, the error is logged, and the endpoint's receive_text, on a
\* socket that was marked as closed, raises what nobody catches: the entry
\* stays in the list until a broadcast fails on it.
SendInitialState(c) ==
    /\ phase[c] = "joining"
    /\ IF open[c]
       THEN /\ phase' = [phase EXCEPT ![c] = "live"]
            /\ view' = [view EXCEPT ![c] = [t \in Topics |-> IF t = "file" THEN truth[t] ELSE scannerStatus]]
       ELSE phase' = [phase EXCEPT ![c] = "gone"] /\ UNCHANGED view
    /\ UNCHANGED <<world, open, conns, scannerStatus, casts, shaken, unheard>>

\* The client closes the page, or its connection breaks: nobody looks at it.
Close(c) ==
    /\ open[c]
    /\ open' = [open EXCEPT ![c] = FALSE]
    /\ view' = [view EXCEPT ![c] = Blank]
    /\ UNCHANGED <<world, phase, conns, scannerStatus, casts, shaken, unheard>>

\* receive_text raises WebSocketDisconnect.
Disconnect(c) ==
    /\ phase[c] = "live" /\ ~open[c]
    /\ phase' = [phase EXCEPT ![c] = "gone"]
    /\ Drop({c})
    /\ Shake(Displaced({c}, DOMAIN casts))
    /\ UNCHANGED <<world, open, scannerStatus, view, casts, unheard>>

-----------------------------------------------------------------------------
(* Events and broadcasts.                                                  *)

\* A file or the scanner changes, and publishes it.
Change(t) ==
    /\ truth["file"] + truth["scanner"] < MaxChanges
    /\ truth' = [truth EXCEPT ![t] = @ + 1]
    /\ pending' = [pending EXCEPT ![t] = @ + 1]
    /\ UNCHANGED <<sockets, conns, scannerStatus, view, casts, shaken, unheard>>

\* Where walk k goes next: the first client whose socket takes the message.
Reachable(k) == {c \in conns : Place(c) > k.pos /\ open[c]}
NextStop(k) == Min(Reachable(k))

\* Mutant: a client where the walk had to wait counts as failed.
FailedWaiting(k, stop) ==
    k.failed
        \cup {c \in {k.at} : c # None}
        \cup {c \in conns : k.pos < Place(c) /\ Place(c) < stop}

\* The clients that have failed before place stop: the one where the walk
\* waited may have left, and a send on a closed socket raises at once.
Failed(k, stop) ==
    k.failed
        \cup {c \in {k.at} : c # None /\ ~open[c]}
        \cup {c \in conns : k.pos < Place(c) /\ Place(c) < stop}

\* The walk after its next send, which brings client c the message.
Sent(k, c) == [k EXCEPT !.pos = Place(c), !.at = c, !.failed = Failed(k, Place(c))]
Seen(k, c) == view' = [view EXCEPT ![c][k.topic] = k.val]

\* handle_file_status_changed_event and handle_scanner_status_event: what the
\* message holds.  Events of the scanner are handled in their order.
Content(t) == IF t = "file" THEN truth[t] ELSE truth[t] + 1 - pending[t]

Beginning(t) == [topic |-> t, val |-> Content(t), pos |-> 0, at |-> None, failed |-> {}]
Running(t) == {b \in DOMAIN casts : casts[b].topic = t}

\* The broadcast begins, up to the first client that takes the message.  A
\* new broadcast of a topic that has no other makes up for what was shaken.
Begin(t) ==
    LET k == Beginning(t)
        calm == {u \in {t} : Running(u) = {}}
    IN  IF Reachable(k) = {}
        THEN LET gone == Failed(k, End)
             IN  /\ Drop(gone)
                 /\ Shake(Displaced(gone, DOMAIN casts) \cup {casts[a].topic : a \in Running(t)})
                 /\ UNCHANGED <<view, casts>>
        ELSE LET c == NextStop(k)
             IN  /\ Len(casts) < MaxCasts
                 /\ Seen(k, c)
                 /\ casts' = Append(casts, Sent(k, c))
                 /\ shaken' = [u \in Topics |->
                                 /\ shaken[u] /\ u \notin calm
                                 \/ \E a \in Running(t) : u = t /\ casts[a].pos < Place(c)]
                 /\ UNCHANGED conns

\* Mutant: the status is broadcast, and not kept for those who come later.
HandleEventUnkept(t) ==
    /\ pending[t] > 0
    /\ pending' = [pending EXCEPT ![t] = @ - 1]
    /\ IF conns = {}
       THEN /\ unheard' = (unheard \/ t = "scanner")
            /\ UNCHANGED <<conns, view, casts, shaken>>
       ELSE /\ Begin(t)
            /\ unheard' = (unheard /\ t # "scanner")
    /\ UNCHANGED <<truth, sockets, scannerStatus>>

\* With nobody connected the event is dropped, that of the scanner too.
\* Otherwise a broadcast begins.
HandleEvent(t) ==
    /\ pending[t] > 0
    /\ pending' = [pending EXCEPT ![t] = @ - 1]
    /\ IF conns = {}
       THEN /\ unheard' = (unheard \/ t = "scanner")
            /\ UNCHANGED <<conns, scannerStatus, view, casts, shaken>>
       ELSE /\ Begin(t)
            /\ unheard' = (unheard /\ t # "scanner")
            /\ scannerStatus' = IF t = "scanner" THEN Content(t) ELSE scannerStatus
    /\ UNCHANGED <<truth, sockets>>

\* Broadcast b may go on: nobody waits before it at the same client.
MayGoOn(b) == \A a \in 1..(b - 1) : casts[a].at # casts[b].at

\* _broadcast_message: the next send.
Send(b) ==
    /\ MayGoOn(b)
    /\ Reachable(casts[b]) # {}
    /\ LET c == NextStop(casts[b])
       IN  /\ Seen(casts[b], c)
           /\ casts' = [casts EXCEPT ![b] = Sent(@, c)]
           /\ Shake(Overtaken(b, Place(c)))
    /\ UNCHANGED <<world, sockets, conns, scannerStatus, unheard>>

\* The end of the list: who failed is disconnected.
Finish(b) ==
    /\ MayGoOn(b)
    /\ Reachable(casts[b]) = {}
    /\ LET gone == Failed(casts[b], End)
       IN  /\ Drop(gone)
           /\ Shake(Displaced(gone, DOMAIN casts \ {b}) \cup Overtaken(b, End))
    /\ casts' = RemoveAt(casts, b)
    /\ UNCHANGED <<world, sockets, scannerStatus, view, unheard>>

Broadcast == \E b \in DOMAIN casts : Send(b) \/ Finish(b)

Next ==
    \/ \E c \in Clients : Connect(c) \/ SendInitialState(c) \/ Close(c) \/ Disconnect(c)
    \/ \E t \in Topics : Change(t) \/ HandleEvent(t)
    \/ Broadcast

Spec == Init /\ [][Next]_vars

\* Coroutines run, and a socket takes what it is given or fails.  Nobody has
\* to connect, to leave or to change.
FairSpec ==
    /\ Spec
    /\ \A c \in Clients : WF_vars(SendInitialState(c)) /\ WF_vars(Disconnect(c))
    /\ \A t \in Topics : WF_vars(HandleEvent(t))
    /\ WF_vars(Broadcast)

-----------------------------------------------------------------------------
(* Properties.                                                             *)

\* A broadcast under way: where its walk is, and whom it found failed.
Casts ==
    [topic : Topics, val : Versions, pos : Nat, at : Clients \cup {None}, failed : SUBSET Clients]

TypeOK ==
    /\ truth \in [Topics -> Versions]
    /\ pending \in [Topics -> Versions]
    /\ phase \in [Clients -> {"away", "joining", "live", "gone"}]
    /\ open \in [Clients -> BOOLEAN]
    /\ conns \subseteq Clients
    /\ scannerStatus \in Versions
    /\ view \in [Clients -> [Topics -> Versions]]
    /\ casts \in Seq(Casts)
    /\ shaken \in [Topics -> BOOLEAN]
    /\ unheard \in BOOLEAN

Watching == {c \in Clients : phase[c] = "live" /\ open[c]}

(***************************************************************************)
(* No client is left with old news: whoever watches sees the truth, or an  *)
(* event is still to be handled, or a broadcast of the truth is still to   *)
(* reach it, whenever it joined and whatever overtakes its initial state.  *)
(* The exceptions are a broadcast that lost its place in the list when a   *)
(* client was removed, or was passed by a newer one at a client that       *)
(* failed (websocket_manager.py, line 221), until the next broadcast of    *)
(* the topic, and news of the scanner that nobody heard (line 241).        *)
(***************************************************************************)
NoStaleView ==
    \A c \in Watching, t \in Topics :
        \/ view[c][t] = truth[t]
        \/ pending[t] > 0
        \/ \E b \in Running(t) : casts[b].val = truth[t] /\ c \in conns \ Passed(b)
        \/ shaken[t]
        \/ t = "scanner" /\ unheard

(***************************************************************************)
(* The inductive form of NoStaleView.  Who is connected is in the list, so *)
(* that no walk passes it unserved; what the broadcasts of a topic bring   *)
(* is in the order in which they began; and while the topic is not shaken  *)
(* they are within the list, with the last news behind all older news.     *)
(***************************************************************************)
Counted ==
    /\ \A t \in Topics : pending[t] <= truth[t]
    /\ truth["file"] + truth["scanner"] <= MaxChanges

Connected ==
    /\ \A c \in Clients : open[c] => c \in conns
    /\ \A c \in conns : phase[c] # "away"
    /\ \A c, d \in Clients : d < c /\ phase[c] # "away" => phase[d] # "away"

\* The version that the last event of t to be handled may have brought.
Latest(t) == IF t = "file" THEN truth[t] ELSE truth[t] - pending[t]

Walks ==
    \A b \in DOMAIN casts :
        /\ casts[b].val <= Latest(casts[b].topic)
        /\ casts[b].pos > 0
        /\ casts[b].at # None /\ phase[casts[b].at] # "away"
        /\ \A c \in casts[b].failed : ~open[c] /\ phase[c] # "away"

NewsInOrder ==
    \A a, b \in DOMAIN casts :
        a < b /\ casts[a].topic = casts[b].topic => casts[a].val <= casts[b].val

WithinList == \A t \in Topics : ~shaken[t] => \A b \in Running(t) : casts[b].pos < End

OldNewsFirst ==
    \A t \in Topics : ~shaken[t] /\ pending[t] = 0 =>
        \A a \in Running(t) :
            \E b \in Running(t) : casts[b].val = truth[t] /\ casts[b].pos <= casts[a].pos

ScannerHeard ==
    ~unheard /\ pending["scanner"] = 0 => scannerStatus = truth["scanner"]

IInv ==
    /\ TypeOK
    /\ Counted
    /\ Connected
    /\ Walks
    /\ NewsInOrder
    /\ WithinList
    /\ OldNewsFirst
    /\ ScannerHeard
    /\ NoStaleView

(***************************************************************************)
(* Once the changes are over everybody sees the truth and stays with it,   *)
(* if no later removal shakes a broadcast and the scanner was heard.       *)
(***************************************************************************)
Undisturbed == ~unheard /\ \A t \in Topics : ~shaken[t]

NewsArrives == <>[]Undisturbed => <>[](\A c \in Watching : view[c] = truth)
=============================================================================
