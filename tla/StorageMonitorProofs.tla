------------------------ MODULE StorageMonitorProofs ------------------------
(***************************************************************************)
(* Proofs about StorageMonitor, for any set of files and any bound of the  *)
(* events under way.                                                       *)
(*                                                                         *)
(* NoneLeftBehind speaks of the time in which the destination is OK after  *)
(* an outage (direct).  It is inductive together with two facts: direct is *)
(* said of a destination known to be OK, so that nobody begins to wait but *)
(* by a handler; and the last event under way tells the status (LastTells) *)
(* as long as no sweep came between.  A handler that writes the older      *)
(* status of two therefore leaves two different events under way           *)
(* (EchoLeaves), which also proves that such events never come to rest.    *)
(* The update that makes direct true is itself a recovery that is still to *)
(* list the waiting files, the list holds them all, and a file leaves the  *)
(* list when it stops waiting.                                             *)
(***************************************************************************)
EXTENDS StorageMonitor, SequenceTheorems, TLAPS

\* The events of a file.
Event == [to : Status, by : Checkers \cup {None}]
EventSeq == Seq(Event)

LEMMA StatusFacts ==
    {"DISCOVERED", "READY", "IN_QUEUE", "WAITING_FOR_NETWORK", "COPYING", "REMOVED"}
        \subseteq Status
BY DEF Status

-----------------------------------------------------------------------------
(* The events of a file.                                                   *)

\* A write of the registry touches one file, and tells what it changes.
LEMMA WriteFacts ==
    ASSUME TypeOK, NEW f \in Files, NEW s \in Status, NEW by \in Checkers \cup {None},
           Write(f, s, by)
    PROVE  /\ status' \in [Files -> Status]
           /\ events' \in [Files -> EventSeq]
           /\ gone' = gone
           /\ status'[f] = s
           /\ \A g \in Files \ {f} : status'[g] = status[g] /\ events'[g] = events[g]
           /\ LastTells(f) => LastTells(f)'
           /\ Echoing(f) => Echoing(f)'
<1> DEFINE e == [to |-> s, by |-> by]
<1>1. status \in [Files -> Status] /\ events \in [Files -> EventSeq]
  BY DEF TypeOK, EventSeq, Event
<1>2. e \in Event /\ e.to = s
  BY DEF Event
<1>3. status' = [status EXCEPT ![f] = s] /\ gone' = gone
  BY DEF Write
<1>4. CASE s = status[f]
  <2>1. events' = events /\ status' = status
    BY <1>1, <1>3, <1>4 DEF Write
  <2> QED BY <1>1, <1>3, <1>4, <2>1 DEF LastTells, Echoing
<1>5. CASE s # status[f]
  <2>1. events' = [events EXCEPT ![f] = Append(@, e)]
    BY <1>5 DEF Write
  <2>2. events[f] \in EventSeq
    BY <1>1
  <2>3. events'[f] = Append(events[f], e)
    BY <1>1, <2>1
  <2> HIDE DEF e
  <2>4. /\ events'[f] \in EventSeq
        /\ Len(events'[f]) = Len(events[f]) + 1
        /\ events'[f][Len(events[f]) + 1] = e
        /\ \A n \in DOMAIN events[f] : n \in DOMAIN events'[f] /\ events'[f][n] = events[f][n]
    BY <1>2, <2>2, <2>3, AppendProperties, LenProperties DEF EventSeq
  <2>5. events' \in [Files -> EventSeq]
    BY <1>1, <2>1, <2>3, <2>4
  <2>6. LastTells(f)'
    BY <1>1, <1>2, <1>3, <2>4 DEF LastTells
  <2>7. Echoing(f) => Echoing(f)'
    BY <2>4 DEF Echoing
  <2> QED BY <1>1, <1>3, <2>1, <2>5, <2>6, <2>7
<1> QED BY <1>4, <1>5

\* A handler touches one file.
LEMMA EchoFacts ==
    ASSUME TypeOK, NEW f \in Files, Echo(f)
    PROVE  /\ status' \in [Files -> Status]
           /\ events' \in [Files -> EventSeq]
           /\ gone' = gone
           /\ status'[f] = Head(events[f]).to
           /\ \A g \in Files \ {f} : status'[g] = status[g] /\ events'[g] = events[g]
           /\ IF Head(events[f]).to = status[f]
              THEN events'[f] = Tail(events[f])
              ELSE events'[f] = Append(Tail(events[f]), Head(events[f]))
<1>1. status \in [Files -> Status] /\ events \in [Files -> EventSeq]
  BY DEF TypeOK, EventSeq, Event
<1>2. events[f] \in EventSeq /\ events[f] # <<>>
  BY <1>1 DEF Echo
<1>3. /\ Head(events[f]) \in Event
      /\ Tail(events[f]) \in EventSeq
  BY <1>2, HeadTailProperties DEF EventSeq
<1>4. Head(events[f]).to \in Status
  BY <1>3 DEF Event
<1>8. Append(Tail(events[f]), Head(events[f])) \in EventSeq
  BY <1>3, AppendProperties DEF EventSeq
<1>5. status' = [status EXCEPT ![f] = Head(events[f]).to]
  BY DEF Echo
<1>6. events' = [events EXCEPT ![f] = IF Head(events[f]).to = status[f] THEN Tail(events[f])
                                      ELSE Append(Tail(events[f]), Head(events[f]))]
  BY <1>1 DEF Echo
<1>7. gone' = gone
  BY DEF Echo
<1> QED BY <1>1, <1>3, <1>4, <1>5, <1>6, <1>7, <1>8

\* A handler leaves two different events under way when there were two, and
\* when it sets back a status that its event does not tell.
LEMMA EchoLeaves ==
    ASSUME TypeOK, NEW f \in Files, LastTells(f), Echo(f)
    PROVE  /\ LastTells(f)'
           /\ Echoing(f) => Echoing(f)'
           /\ status'[f] # status[f] => Echoing(f)'
<1> DEFINE q == events[f]
           h == Head(events[f])
<1>1. q \in EventSeq /\ q # <<>>
  BY DEF TypeOK, EventSeq, Event, Echo
<1>2. PICK n \in Nat : n = Len(q) /\ n # 0
  BY <1>1, EmptySeq DEF EventSeq
<1>3. DOMAIN q = 1..n /\ h = q[1]
  BY <1>1, <1>2, LenProperties DEF EventSeq
<1>4. /\ Tail(q) \in EventSeq
      /\ Len(Tail(q)) = n - 1
      /\ DOMAIN Tail(q) = 1..(n - 1)
      /\ h \in Event
  <2>1. Tail(q) \in EventSeq /\ Len(Tail(q)) = n - 1 /\ h \in Event
    BY <1>1, <1>2, HeadTailProperties DEF EventSeq
  <2>2. DOMAIN Tail(q) = 1..(n - 1)
    BY <2>1, LenProperties DEF EventSeq
  <2> QED BY <2>1, <2>2
<1>5. \A m \in 1..(n - 1) : Tail(q)[m] = q[m + 1]
  BY <1>1, <1>4, HeadTailProperties DEF EventSeq
<1>6. q[n].to = status[f]
  BY <1>1, <1>2 DEF LastTells
<1>7. CASE h.to = status[f]
  <2>1. events'[f] = Tail(q) /\ status'[f] = status[f]
    BY <1>7, EchoFacts
  <2>2. LastTells(f)'
    <3> SUFFICES ASSUME Tail(q) # <<>>
                 PROVE  Tail(q)[n - 1].to = status[f]
      BY <1>4, <2>1 DEF LastTells
    <3>1. n - 1 # 0
      BY <1>4, EmptySeq DEF EventSeq
    <3>2. n - 1 \in 1..(n - 1) /\ (n - 1) + 1 = n
      BY <1>2, <3>1
    <3>3. Tail(q)[n - 1] = q[n]
      BY <1>5, <3>2
    <3> QED BY <1>6, <3>3
  <2>3. Echoing(f) => Echoing(f)'
    <3> SUFFICES ASSUME Echoing(f)
                 PROVE  Echoing(f)'
      OBVIOUS
    <3>1. PICK m \in 1..n : q[m].to # status[f]
      BY <1>3 DEF Echoing
    <3>2. m # 1 /\ m # n
      BY <1>3, <1>6, <1>7, <3>1
    <3>3. /\ m - 1 \in 1..(n - 1) /\ (m - 1) + 1 = m
          /\ n - 1 \in 1..(n - 1) /\ (n - 1) + 1 = n
      BY <1>2, <3>1, <3>2
    <3>4. Tail(q)[m - 1] = q[m] /\ Tail(q)[n - 1] = q[n]
      BY <1>5, <3>3
    <3>5. events'[f][m - 1].to # events'[f][n - 1].to
      BY <1>6, <2>1, <3>1, <3>4
    <3>6. DOMAIN events'[f] = 1..(n - 1)
      BY <1>4, <2>1
    <3> QED BY <3>3, <3>5, <3>6 DEF Echoing
  <2> QED BY <2>1, <2>2, <2>3
<1>8. CASE h.to # status[f]
  <2>1. events'[f] = Append(Tail(q), h) /\ status'[f] = h.to
    BY <1>8, EchoFacts
  <2>2. n # 1
    BY <1>3, <1>6, <1>8
  <2>3. n - 1 \in 1..(n - 1) /\ (n - 1) + 1 = n
    <3>1. n \in Nat /\ n # 0
      BY <1>2
    <3> QED BY <2>2, <3>1
  <2>4. Tail(q)[n - 1] = q[n]
    BY <1>5, <2>3
  <2> HIDE DEF h, q
  <2>5. /\ Append(Tail(q), h) \in EventSeq
        /\ Len(Append(Tail(q), h)) = n
        /\ Append(Tail(q), h)[n] = h
        /\ Append(Tail(q), h)[n - 1] = q[n]
    <3> DEFINE t == Tail(q)
    <3>1. t \in EventSeq /\ Len(t) = n - 1 /\ h \in Event /\ t[n - 1] = q[n]
      BY <1>4, <2>4
    <3> HIDE DEF t
    <3> QED BY <2>3, <3>1, AppendProperties DEF EventSeq, t
  <2>6. DOMAIN Append(Tail(q), h) = 1..n
    BY <2>5, LenProperties DEF EventSeq
  <2>7. n \in 1..n /\ n - 1 \in 1..n
    BY <1>2, <2>3
  <2>8. Echoing(f)'
    BY <1>6, <1>8, <2>1, <2>5, <2>6, <2>7 DEF Echoing
  <2>9. LastTells(f)'
    BY <2>1, <2>5 DEF LastTells
  <2> QED BY <2>8, <2>9
<1> QED BY <1>7, <1>8

-----------------------------------------------------------------------------
(* Types.                                                                  *)

LEMMA InitType == Init => TypeOK
<1> SUFFICES ASSUME Init
             PROVE  TypeOK
  OBVIOUS
<1>1. status \in [Files -> Status]
  BY StatusFacts DEF Init
<1>2. todo \in [Checkers -> SUBSET Files]
  BY DEF Init
<1>3. events \in [Files -> EventSeq]
  <2>1. <<>> \in EventSeq
    BY DEF EventSeq
  <2> QED BY <2>1 DEF Init
<1> QED BY <1>1, <1>2, <1>3 DEF Init, TypeOK, StorageStatus, EventSeq, Event

\* A change that a file makes: it begins to wait only when the destination is
\* not OK.
LEMMA FileSteps ==
    ASSUME NEW f \in Files, FileReady(f) \/ HandleFileReady(f) \/ StartCopy(f)
    PROVE  \E s \in Status : /\ Write(f, s, None)
                             /\ s = "WAITING_FOR_NETWORK" => known # "OK"
                             /\ UNCHANGED <<level, known, checks, direct>>
<1>1. CASE FileReady(f)
  BY <1>1, StatusFacts DEF FileReady, Becomes
<1>2. CASE HandleFileReady(f)
  BY <1>2, StatusFacts DEF HandleFileReady, Becomes, Available
<1>3. CASE StartCopy(f)
  BY <1>3, StatusFacts DEF StartCopy, Becomes
<1> QED BY <1>1, <1>2, <1>3

\* The questions of a check change neither files nor lists nor what is known.
LEMMA QuestionSteps ==
    ASSUME NEW k \in Checkers,
           CheckSource(k) \/ AskAccessible(k) \/ Measure(k) \/ Restore(k)
    PROVE  /\ UNCHANGED <<files, known, recovered, todo, direct>>
           /\ pc[k] \in {"source", "ask", "measure", "restore"}
           /\ \E there \in {"ask", "measure", "restore", "update"} : Go(k, there)
BY DEF CheckSource, AskAccessible, Measure, Restore

LEMMA NextType == TypeOK /\ [Next]_vars => TypeOK'
<1> SUFFICES ASSUME TypeOK, [Next]_vars
             PROVE  TypeOK'
  OBVIOUS
<1> USE DEF TypeOK, Go
<1>1. ASSUME NEW k \in Checkers, CheckSource(k) \/ AskAccessible(k) \/ Measure(k) \/ Restore(k)
      PROVE  TypeOK'
  <2>1. CASE CheckSource(k)
    BY <2>1 DEF CheckSource, files
  <2>2. CASE AskAccessible(k)
    BY <2>2 DEF AskAccessible, files
  <2>3. CASE Measure(k)
    <3>1. Evaluate(accessible[k], level) \in StorageStatus
      BY DEF Evaluate, StorageStatus
    <3> QED BY <2>3, <3>1 DEF Measure, files
  <2>4. CASE Restore(k)
    BY <2>4 DEF Restore, files, StorageStatus
  <2> QED BY <1>1, <2>1, <2>2, <2>3, <2>4
<1>2. ASSUME NEW k \in Checkers, Update(k)
      PROVE  TypeOK'
  BY <1>2 DEF Update, files, StillDirect, IsRecovery, Problematic, StorageStatus
<1>3. ASSUME NEW k \in Checkers, Published(k)
      PROVE  TypeOK'
  BY <1>3 DEF Published, files, Waiting
<1>4. ASSUME NEW k \in Checkers, Rest(k)
      PROVE  TypeOK'
  BY <1>4 DEF Rest, files
<1>5. ASSUME NEW k \in Checkers, NEW f \in Files, Reactivate(k, f)
      PROVE  TypeOK'
  <2>1. status' \in [Files -> Status] /\ events' \in [Files -> EventSeq] /\ gone' = gone
    BY <1>5, StatusFacts, WriteFacts DEF Reactivate
  <2> QED BY <1>5, <2>1 DEF Reactivate, EventSeq, Event
<1>6. ASSUME NEW f \in Files, FileReady(f) \/ HandleFileReady(f) \/ StartCopy(f)
      PROVE  TypeOK'
  <2>1. PICK s \in Status : Write(f, s, None) /\ UNCHANGED <<level, known, checks, direct>>
    BY <1>6, FileSteps
  <2>2. status' \in [Files -> Status] /\ events' \in [Files -> EventSeq] /\ gone' = gone
    BY <2>1, WriteFacts
  <2> QED BY <2>1, <2>2 DEF checks, EventSeq, Event
<1>7. ASSUME NEW f \in Files, SweepMissing(f)
      PROVE  TypeOK'
  BY <1>7, StatusFacts DEF SweepMissing, checks
<1>8. ASSUME NEW f \in Files, Echo(f)
      PROVE  TypeOK'
  <2>1. status' \in [Files -> Status] /\ events' \in [Files -> EventSeq] /\ gone' = gone
    BY <1>8, EchoFacts
  <2> QED BY <1>8, <2>1 DEF Echo, checks, EventSeq, Event
<1>9. CASE Change \/ UNCHANGED vars
  BY <1>9 DEF Change, vars, files, checks
<1> QED BY <1>1, <1>2, <1>3, <1>4, <1>5, <1>6, <1>7, <1>8, <1>9 DEF Next, Check

-----------------------------------------------------------------------------
(* The last event tells the status, and two different events stay.         *)

LEMMA EventsKeep ==
    ASSUME TypeOK, [Next]_vars, NEW f \in Files \ gone, LastTells(f)
    PROVE  /\ f \notin gone' => LastTells(f)'
           /\ Echoing(f) => Echoing(f)'
<1>1. ASSUME UNCHANGED files
      PROVE  LastTells(f)' /\ (Echoing(f) => Echoing(f)')
  BY <1>1 DEF files, LastTells, Echoing
<1>2. ASSUME NEW k \in Checkers, Check(k)
      PROVE  LastTells(f)' /\ (Echoing(f) => Echoing(f)')
  <2>1. CASE UNCHANGED files
    BY <1>1, <2>1
  <2>2. CASE \E g \in Files : Reactivate(k, g)
    <3>1. PICK g \in Files : Write(g, "DISCOVERED", k)
      BY <2>2 DEF Reactivate
    <3>2. CASE g = f
      BY <3>1, <3>2, StatusFacts, WriteFacts
    <3>3. CASE g # f
      <4>1. status'[f] = status[f] /\ events'[f] = events[f]
        BY <3>1, <3>3, StatusFacts, WriteFacts
      <4> QED BY <4>1 DEF LastTells, Echoing
    <3> QED BY <3>2, <3>3
  <2>3. UNCHANGED files \/ \E g \in Files : Reactivate(k, g)
    BY <1>2 DEF Check, CheckSource, AskAccessible, Measure, Restore, Update, Published, Rest
  <2> QED BY <2>1, <2>2, <2>3
<1>3. ASSUME NEW g \in Files, FileReady(g) \/ HandleFileReady(g) \/ StartCopy(g)
      PROVE  LastTells(f)' /\ (Echoing(f) => Echoing(f)')
  <2>1. PICK s \in Status : Write(g, s, None)
    BY <1>3, FileSteps
  <2>2. CASE g = f
    BY <2>1, <2>2, WriteFacts
  <2>3. CASE g # f
    <3>1. status'[f] = status[f] /\ events'[f] = events[f]
      BY <2>1, <2>3, WriteFacts
    <3> QED BY <3>1 DEF LastTells, Echoing
  <2> QED BY <2>2, <2>3
<1>4. ASSUME NEW g \in Files, Echo(g)
      PROVE  LastTells(f)' /\ (Echoing(f) => Echoing(f)')
  <2>1. CASE g = f
    BY <1>4, <2>1, EchoLeaves
  <2>2. CASE g # f
    <3>1. status'[f] = status[f] /\ events'[f] = events[f]
      BY <1>4, <2>2, EchoFacts
    <3> QED BY <3>1 DEF LastTells, Echoing
  <2> QED BY <2>1, <2>2
<1>5. ASSUME NEW g \in Files, SweepMissing(g)
      PROVE  /\ f \notin gone' => LastTells(f)'
             /\ Echoing(f) => Echoing(f)'
  <2>1. CASE g = f
    BY <1>5, <2>1 DEF SweepMissing, Echoing
  <2>2. CASE g # f
    BY <1>5, <2>2 DEF SweepMissing, LastTells, Echoing, TypeOK
  <2> QED BY <2>1, <2>2
<1>6. CASE Change \/ UNCHANGED vars
  BY <1>1, <1>6 DEF Change, vars
<1> QED BY <1>2, <1>3, <1>4, <1>5, <1>6 DEF Next

-----------------------------------------------------------------------------
(* No file is left behind.                                                 *)

\* What the invariant asks of one file.
Excused(f) == status[f] = "WAITING_FOR_NETWORK" => Recovering(f) \/ Echoing(f) \/ f \in gone

LEMMA InitIInv == Init => IInv
<1> SUFFICES ASSUME Init
             PROVE  IInv
  OBVIOUS
<1>1. \A f \in Files \ gone : LastTells(f)
  BY DEF Init, LastTells
<1> QED BY <1>1 DEF Init, IInv, NoneLeftBehind

\* A recovery of f goes on while neither its check nor its list moves.
LEMMA RecoveringKeeps ==
    ASSUME TypeOK, NEW f \in Files, Recovering(f), NEW k \in Checkers,
           \A j \in Checkers \ {k} : /\ pc'[j] = pc[j]
                                     /\ recovered'[j] = recovered[j]
                                     /\ todo'[j] = todo[j],
           ~(pc[k] = "publish" /\ recovered[k]),
           ~(pc[k] = "recover" /\ f \in todo[k])
    PROVE  Recovering(f)'
BY DEF Recovering

\* In a step that leaves the files alone only the recoveries count.
LEMMA ChecksKeep ==
    ASSUME TypeOK, IInv, direct', NEW f \in Files, NEW k \in Checkers, Check(k),
           \A g \in Files : ~Reactivate(k, g)
    PROVE  Excused(f)'
<1>1. UNCHANGED files
  BY DEF Check, CheckSource, AskAccessible, Measure, Restore, Update, Published, Rest
<1> SUFFICES ASSUME status[f] = "WAITING_FOR_NETWORK", ~Echoing(f), f \notin gone
             PROVE  Recovering(f)'
  BY <1>1 DEF Excused, files, Echoing
<1>2. CASE CheckSource(k) \/ AskAccessible(k) \/ Measure(k) \/ Restore(k)
  <2>1. /\ UNCHANGED <<files, known, recovered, todo, direct>>
        /\ pc[k] \in {"source", "ask", "measure", "restore"}
        /\ \E there \in {"ask", "measure", "restore", "update"} : Go(k, there)
    BY <1>2, QuestionSteps
  <2>2. Recovering(f)
    BY <2>1 DEF IInv, NoneLeftBehind
  <2>3. \A j \in Checkers \ {k} : pc'[j] = pc[j]
    BY <2>1 DEF Go, TypeOK
  <2> QED BY <2>1, <2>2, <2>3, RecoveringKeeps
<1>3. CASE Update(k)
  <2>1. CASE known \in Problematic /\ found[k] = "OK"
    BY <1>3, <2>1 DEF Update, IsRecovery, Recovering, Go, TypeOK
  <2>2. CASE direct /\ known = "OK"
    <3>1. Recovering(f)
      BY <2>2 DEF IInv, NoneLeftBehind
    <3> QED BY <1>3, <3>1, RecoveringKeeps DEF Update, Go, TypeOK
  <2> QED BY <1>3, <2>1, <2>2 DEF Update, StillDirect
<1>4. CASE Published(k)
  <2>1. Recovering(f)
    BY <1>4 DEF IInv, NoneLeftBehind, Published
  <2>2. CASE recovered[k]
    BY <1>4, <2>2 DEF Published, Recovering, Waiting, Go, TypeOK
  <2>3. CASE ~recovered[k]
    BY <1>4, <2>1, <2>3, RecoveringKeeps DEF Published, Go, TypeOK
  <2> QED BY <2>2, <2>3
<1>5. CASE Rest(k)
  <2>1. Recovering(f)
    BY <1>5 DEF IInv, NoneLeftBehind, Rest
  <2> QED BY <1>5, <2>1, RecoveringKeeps DEF Rest, Go, TypeOK
<1> QED BY <1>2, <1>3, <1>4, <1>5 DEF Check

\* A file that did not begin to wait in this step is excused as before when
\* the checks stand still.
LEMMA StandingKeeps ==
    ASSUME TypeOK, [Next]_vars, IInv, direct, NEW f \in Files, UNCHANGED checks,
           gone \subseteq gone',
           status'[f] = "WAITING_FOR_NETWORK" => status[f] = "WAITING_FOR_NETWORK"
    PROVE  Excused(f)'
<1> SUFFICES ASSUME status'[f] = "WAITING_FOR_NETWORK", f \notin gone'
             PROVE  (Recovering(f) \/ Echoing(f))'
  BY DEF Excused
<1>1. Recovering(f) \/ Echoing(f)
  BY DEF IInv, NoneLeftBehind
<1>2. CASE Recovering(f)
  BY <1>2 DEF Recovering, checks
<1>3. CASE Echoing(f)
  BY <1>3, EventsKeep DEF IInv
<1> QED BY <1>1, <1>2, <1>3

LEMMA NextIInv == TypeOK /\ IInv /\ [Next]_vars => IInv'
<1> SUFFICES ASSUME TypeOK, IInv, [Next]_vars
             PROVE  IInv'
  OBVIOUS
<1>1. gone \subseteq gone'
  <2>1. ASSUME NEW k \in Checkers, Check(k)
        PROVE  gone' = gone
    BY <2>1 DEF Check, CheckSource, AskAccessible, Measure, Restore, Update, Published, Rest,
       Reactivate, Write, files
  <2>2. ASSUME NEW f \in Files, FileReady(f) \/ HandleFileReady(f) \/ StartCopy(f)
        PROVE  gone' = gone
    BY <2>2, FileSteps DEF Write
  <2> QED BY <2>1, <2>2 DEF Next, SweepMissing, Echo, Change, vars, files
<1>2. \A f \in Files \ gone' : LastTells(f)'
  BY <1>1, EventsKeep DEF IInv
<1>3. (direct => known = "OK")'
  <2>1. ASSUME NEW k \in Checkers, Update(k)
        PROVE  (direct => known = "OK")'
    BY <2>1 DEF Update, StillDirect
  <2>2. ASSUME NEW f \in Files, FileReady(f) \/ HandleFileReady(f) \/ StartCopy(f)
        PROVE  UNCHANGED <<known, direct>>
    BY <2>2, FileSteps
  <2>3. ASSUME NEW k \in Checkers, Check(k), ~Update(k)
        PROVE  UNCHANGED <<known, direct>>
    BY <2>3 DEF Check, CheckSource, AskAccessible, Measure, Restore, Published, Rest, Reactivate
  <2> QED BY <2>1, <2>2, <2>3 DEF Next, SweepMissing, Echo, Change, vars, IInv
<1>4. ASSUME direct', NEW f \in Files
      PROVE  Excused(f)'
  <2>1. ASSUME NEW k \in Checkers, Check(k)
        PROVE  Excused(f)'
    <3>1. CASE \A g \in Files : ~Reactivate(k, g)
      BY <1>4, <2>1, <3>1, ChecksKeep
    <3>2. CASE \E g \in Files : Reactivate(k, g)
      <4>1. PICK g \in Files : Reactivate(k, g)
        BY <3>2
      <4>2. /\ Write(g, "DISCOVERED", k)
            /\ UNCHANGED <<known, pc, recovered, direct>>
            /\ todo' = [todo EXCEPT ![k] = @ \ {g}]
        BY <4>1 DEF Reactivate
      <4>3. CASE g = f
        <5>1. status'[f] = "DISCOVERED"
          BY <4>2, <4>3, StatusFacts, WriteFacts
        <5> QED BY <5>1 DEF Excused
      <4>4. CASE g # f
        <5>1. status'[f] = status[f] /\ events'[f] = events[f] /\ gone' = gone
          BY <4>2, <4>4, StatusFacts, WriteFacts
        <5>2. Excused(f)
          BY <1>4, <4>2 DEF IInv, NoneLeftBehind, Excused
        <5>3. Recovering(f) => Recovering(f)'
          BY <4>2, <4>4 DEF Recovering, TypeOK
        <5> QED BY <5>1, <5>2, <5>3 DEF Excused, Echoing
      <4> QED BY <4>3, <4>4
    <3> QED BY <3>1, <3>2
  <2>2. ASSUME NEW g \in Files, FileReady(g) \/ HandleFileReady(g) \/ StartCopy(g)
        PROVE  Excused(f)'
    <3>1. PICK s \in Status : /\ Write(g, s, None)
                              /\ s = "WAITING_FOR_NETWORK" => known # "OK"
                              /\ UNCHANGED <<level, known, checks, direct>>
      BY <2>2, FileSteps
    <3>2. direct /\ known = "OK"
      BY <1>4, <3>1 DEF IInv
    <3>3. status'[f] = "WAITING_FOR_NETWORK" => status[f] = "WAITING_FOR_NETWORK"
      BY <3>1, <3>2, WriteFacts
    <3> QED BY <1>1, <3>1, <3>2, <3>3, StandingKeeps
  <2>3. ASSUME NEW g \in Files, SweepMissing(g)
        PROVE  Excused(f)'
    <3>1. direct /\ UNCHANGED checks
      BY <1>4, <2>3 DEF SweepMissing
    <3>2. status'[f] = "WAITING_FOR_NETWORK" => status[f] = "WAITING_FOR_NETWORK"
      BY <2>3 DEF SweepMissing, TypeOK
    <3> QED BY <1>1, <3>1, <3>2, StandingKeeps
  <2>4. ASSUME NEW g \in Files, Echo(g)
        PROVE  Excused(f)'
    <3>1. direct /\ UNCHANGED checks /\ gone' = gone
      BY <1>4, <2>4 DEF Echo
    <3>2. CASE status'[f] = status[f]
      BY <1>1, <3>1, <3>2, StandingKeeps
    <3>3. CASE status'[f] # status[f]
      <4>1. g = f
        BY <2>4, <3>3, EchoFacts
      <4>2. f \in gone \/ Echoing(f)'
        BY <2>4, <3>3, <4>1, EchoLeaves DEF IInv
      <4> QED BY <3>1, <4>2 DEF Excused
    <3> QED BY <3>2, <3>3
  <2>5. CASE Change \/ UNCHANGED vars
    <3>1. direct /\ UNCHANGED <<checks, files>>
      BY <1>4, <2>5 DEF Change, vars
    <3> QED BY <1>1, <3>1, StandingKeeps DEF files
  <2> QED BY <2>1, <2>2, <2>3, <2>4, <2>5 DEF Next
<1> QED BY <1>2, <1>3, <1>4 DEF IInv, NoneLeftBehind, Excused

-----------------------------------------------------------------------------
\* Types and invariant hold of every behaviour of the monitor.
THEOREM Inductive == Spec => [](TypeOK /\ IInv)
<1>1. Init => TypeOK /\ IInv
  BY InitType, InitIInv
<1>2. TypeOK /\ IInv /\ [Next]_vars => (TypeOK /\ IInv)'
  BY NextType, NextIInv
<1> QED BY <1>1, <1>2, PTL DEF Spec

\* Every variable keeps its type: what is known is always a level, whatever
\* the file system answered between two questions.
THEOREM TypeCorrect == Spec => []TypeOK
BY Inductive, PTL

\* No file is left behind by a recovery from ERROR or CRITICAL to OK, however
\* many files wait and however the two checks overlap, but one that an older
\* event sets back.
THEOREM NobodyLeftBehind == Spec => []NoneLeftBehind
<1>1. IInv => NoneLeftBehind
  BY DEF IInv
<1> QED BY <1>1, Inductive, PTL

\* Two different events of a file under way together never come to rest.
THEOREM NoRest == Spec => EchoesGoOn
<1>1. TypeOK /\ IInv /\ [Next]_vars =>
        [\A f \in Files : Echoing(f) /\ f \notin gone => Echoing(f)']_vars
  BY EventsKeep DEF IInv
<1> QED BY <1>1, Inductive, PTL DEF Spec, EchoesGoOn

\* While the destination has been OK since an outage, no recovery is under way
\* and no event either, only files that a sweep marked as removed may wait.
THEOREM RecoveryIsComplete ==
    Spec => [](/\ direct
               /\ \A k \in Checkers : pc[k] \notin {"publish", "recover"}
               /\ \A f \in Files : events[f] = <<>>
               => Waiting \subseteq gone)
<1>1. IInv => (/\ direct
               /\ \A k \in Checkers : pc[k] \notin {"publish", "recover"}
               /\ \A f \in Files : events[f] = <<>>
               => Waiting \subseteq gone)
  BY DEF IInv, NoneLeftBehind, Recovering, Echoing, Waiting
<1> QED BY <1>1, Inductive, PTL
=============================================================================
