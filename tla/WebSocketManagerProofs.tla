----------------------- MODULE WebSocketManagerProofs -----------------------
(***************************************************************************)
(* Proofs about what the users see, for any numbers of clients, changes    *)
(* and broadcasts: the types, and that no client is left with old news.    *)
(*                                                                         *)
(* An index into the list of connections counts the clients up to one, so  *)
(* the first part is about counting.  The second is about one step of a    *)
(* broadcast, the third about the steps of the program.                    *)
(***************************************************************************)
EXTENDS WebSocketManager, SequenceTheorems, FiniteSetTheorems, WellFoundedInduction, TLAPS

(* Counting clients.                                                       *)

Less == {ss \in Nat \X Nat : ss[1] < ss[2]}

\* A set of numbers has a least one.
LEMMA MinExists ==
  ASSUME NEW S \in SUBSET Nat, S # {}
  PROVE  Min(S) \in S /\ \A y \in S : Min(S) <= y
  <1>1. IsWellFoundedOn(Less, Nat)
    BY NatLessThanWellFounded DEF Less, OpToRel
  <1>2. PICK x \in S : \A y \in S : <<y, x>> \notin Less
    BY <1>1, WFMin
  <1>3. ASSUME NEW y \in S
        PROVE  x <= y
    <2>1. ~(y < x)
      BY <1>2 DEF Less
    <2>2. x \in Nat /\ y \in Nat
      OBVIOUS
    <2> QED
      BY <2>1, <2>2
  <1> QED
    BY <1>3 DEF Min

\* The clients are numbers, and finitely many.
LEMMA ClientsFinite ==
  /\ Clients \subseteq Nat
  /\ \A S \in SUBSET Clients : IsFiniteSet(S) /\ Cardinality(S) \in Nat
  <1>1. IsFiniteSet(Clients)
    BY BoundsAssumption, FS_Interval DEF Clients
  <1>2. ASSUME NEW S \in SUBSET Clients
        PROVE  IsFiniteSet(S) /\ Cardinality(S) \in Nat
    BY <1>1, FS_Subset, FS_CardinalityType
  <1>3. Clients \subseteq Nat
    BY DEF Clients
  <1> QED
    BY <1>2, <1>3

\* How many of S come up to c.
UpTo(S, c) == {d \in S : d <= c}
Index(S, c) == Cardinality(UpTo(S, c))

\* An index is a number within the list.
LEMMA IndexType ==
  ASSUME NEW S \in SUBSET Clients, NEW c
  PROVE  /\ Index(S, c) \in Nat /\ Cardinality(S) \in Nat /\ Index(S, c) <= Cardinality(S)
         /\ c \in S => Index(S, c) > 0
  <1>1. UpTo(S, c) \in SUBSET S /\ UpTo(S, c) \in SUBSET Clients
    BY DEF UpTo
  <1>2. /\ Index(S, c) \in Nat /\ Cardinality(S) \in Nat /\ Index(S, c) <= Cardinality(S)
        /\ IsFiniteSet(UpTo(S, c))
    BY <1>1, ClientsFinite, FS_Subset DEF Index
  <1>3. ASSUME c \in S
        PROVE  Index(S, c) > 0
    <2>1. c \in UpTo(S, c)
      BY <1>3, ClientsFinite DEF UpTo
    <2> QED
      BY <1>2, <2>1, FS_EmptySet DEF Index
  <1> QED
    BY <1>2, <1>3

\* Later clients have larger indices.
LEMMA IndexGrows ==
  ASSUME NEW S \in SUBSET Clients, NEW c \in Clients, NEW d \in S, c < d
  PROVE  Index(S, c) < Index(S, d)
  <1>1. UpTo(S, c) \in SUBSET UpTo(S, d) /\ d \in UpTo(S, d) /\ d \notin UpTo(S, c)
    <2>1. c \in Nat /\ d \in Nat /\ S \subseteq Nat
      BY ClientsFinite
    <2>2. \A e \in S : e <= c => e <= d
      BY <2>1
    <2>3. d <= d /\ ~(d <= c)
      BY <2>1
    <2> QED
      BY <2>2, <2>3 DEF UpTo
  <1>2. IsFiniteSet(UpTo(S, d))
    BY ClientsFinite DEF UpTo
  <1>3. Index(S, c) <= Index(S, d) /\ Index(S, c) # Index(S, d)
    BY <1>1, <1>2, FS_Subset DEF Index
  <1> QED
    BY <1>3, IndexType

\* The clients before d are one fewer.
LEMMA Before ==
  ASSUME NEW S \in SUBSET Clients, NEW d \in S
  PROVE  LET B == {e \in S : e < d}
         IN  IsFiniteSet(B) /\ Cardinality(B) = Index(S, d) - 1
  <1> DEFINE B == {e \in S : e < d}
  <1>1. UpTo(S, d) = B \cup {d} /\ d \notin B
    <2>1. d \in Nat /\ S \subseteq Nat
      BY ClientsFinite
    <2>2. ~(d < d) /\ \A e \in S : e <= d <=> e < d \/ e = d
      BY <2>1
    <2> QED
      BY <2>2 DEF UpTo
  <1>2. IsFiniteSet(B) /\ Cardinality(B) \in Nat
    BY ClientsFinite
  <1>3. Cardinality(B \cup {d}) = Cardinality(B) + 1
    BY <1>1, <1>2, FS_AddElement
  <1> QED
    BY <1>1, <1>2, <1>3 DEF Index

\* A client that comes last changes no index.
LEMMA IndexAdd ==
  ASSUME NEW S \in SUBSET Clients, NEW c \in Clients, \A d \in S : d < c
  PROVE  /\ \A d \in S : Index(S \cup {c}, d) = Index(S, d)
         /\ Cardinality(S \cup {c}) = Cardinality(S) + 1
  <1>1. ASSUME NEW d \in S
        PROVE  Index(S \cup {c}, d) = Index(S, d)
    <2>1. UpTo(S \cup {c}, d) = UpTo(S, d)
      BY ClientsFinite DEF UpTo
    <2> QED
      BY <2>1 DEF Index
  <1>2. c \notin S
    BY ClientsFinite
  <1> QED
    BY <1>1, <1>2, ClientsFinite, FS_AddElement

\* Where nobody up to index p is taken out, the others stay beyond p.
LEMMA IndexDrop ==
  ASSUME NEW S \in SUBSET Clients, NEW G, NEW p \in Nat,
         \A d \in S : Index(S, d) <= p => d \notin G
  PROVE  /\ \A c \in S \ G : Index(S, c) > p => Index(S \ G, c) > p
         /\ p <= Cardinality(S) => p <= Cardinality(S \ G)
  <1> DEFINE Beyond == {d \in S : Index(S, d) > p}
  <1>1. CASE Beyond = {}
    <2>1. \A d \in S : Index(S, d) <= p
      BY <1>1, IndexType
    <2>2. S \ G = S
      BY <2>1
    <2> QED
      BY <1>1, <2>2
  <1>2. CASE Beyond # {}
    <2> DEFINE f == Min(Beyond)
               B == {e \in S : e < f}
    <2>1. f \in Beyond /\ \A d \in Beyond : f <= d
      BY <1>2, ClientsFinite, MinExists
    <2> HIDE DEF f
    <2>2. f \in S /\ Index(S, f) > p /\ f \in Nat
      BY <2>1, ClientsFinite
    <2>3. IsFiniteSet(B) /\ Cardinality(B) = Index(S, f) - 1 /\ Cardinality(B) \in Nat
      BY <2>2, Before, ClientsFinite
    <2>4. Cardinality(B) >= p
      BY <2>2, <2>3, IndexType
    <2>5. B \subseteq S \ G
      <3>1. ASSUME NEW e \in B
            PROVE  Index(S, e) <= p
        <4>1. e \notin Beyond
          BY <2>1, <2>2, ClientsFinite
        <4> QED
          BY <4>1, IndexType
      <3> QED
        BY <3>1
    <2>6. p <= Cardinality(S \ G)
      <3>1. S \ G \in SUBSET Clients /\ B \in SUBSET (S \ G)
        BY <2>5
      <3>2. Cardinality(B) <= Cardinality(S \ G)
        BY <3>1, ClientsFinite, FS_Subset
      <3> QED
        BY <2>3, <2>4, <3>1, <3>2, ClientsFinite
    <2>7. ASSUME NEW c \in S \ G, Index(S, c) > p
          PROVE  Index(S \ G, c) > p
      <3>1. c \in Beyond /\ f <= c /\ c \notin B /\ c \in Nat
        BY <2>1, <2>2, <2>7, ClientsFinite
      <3>2. B \cup {c} \in SUBSET UpTo(S \ G, c)
        <4>1. \A e \in B : e <= c
          BY <2>2, <3>1, ClientsFinite
        <4>2. c <= c
          BY <3>1
        <4> QED
          BY <2>5, <2>7, <4>1, <4>2 DEF UpTo
      <3>3. UpTo(S \ G, c) \in SUBSET Clients
        BY DEF UpTo
      <3>4. Cardinality(B \cup {c}) = Cardinality(B) + 1
        BY <2>3, <3>1, FS_AddElement
      <3>5. Cardinality(B \cup {c}) <= Index(S \ G, c)
        BY <3>2, <3>3, ClientsFinite, FS_Subset DEF Index
      <3>6. Index(S \ G, c) \in Nat
        BY <3>3, ClientsFinite DEF Index
      <3> HIDE DEF B
      <3> QED
        BY <2>3, <2>4, <3>4, <3>5, <3>6
    <2> QED
      BY <2>6, <2>7
  <1> QED
    BY <1>1, <1>2
-----------------------------------------------------------------------------
(* Places and walks.                                                       *)

\* A place is an index into the set of connections.
LEMMA PlaceIsIndex ==
  /\ \A c : Place(c) = Index(conns, c)
  /\ \A c : (Place(c) = Index(conns, c))'
  BY DEF Place, Index, UpTo

\* The fields of a broadcast.
LEMMA CastType ==
  ASSUME TypeOK, NEW b \in DOMAIN casts
  PROVE  /\ casts[b] \in Casts
         /\ casts[b].topic \in Topics /\ casts[b].val \in Versions
         /\ casts[b].pos \in Nat /\ casts[b].at \in Clients \cup {None}
         /\ casts[b].failed \subseteq Clients
  <1>1. casts[b] \in Casts
    BY ElementOfSeq, LenProperties DEF TypeOK
  <1> QED
    BY <1>1 DEF Casts

\* A place in the list is a number, within the list for who is in it.
LEMMA PlaceType ==
  ASSUME TypeOK, NEW c \in conns
  PROVE  Place(c) \in Nat /\ Place(c) > 0 /\ Place(c) < End /\ End \in Nat /\ c \in Clients
  <1>1. conns \in SUBSET Clients
    BY DEF TypeOK
  <1>2. /\ Index(conns, c) \in Nat /\ Cardinality(conns) \in Nat
        /\ Index(conns, c) <= Cardinality(conns) /\ Index(conns, c) > 0
    BY <1>1, IndexType
  <1> QED
    BY <1>1, <1>2, PlaceIsIndex DEF End

\* Whom broadcast b has not passed is in a place beyond its own.
LEMMA NotPassed ==
  ASSUME TypeOK, NEW b \in DOMAIN casts, NEW c
  PROVE  c \in conns \ Passed(b) <=> c \in conns /\ Place(c) > casts[b].pos
  <1>1. ASSUME c \in conns
        PROVE  c \notin Passed(b) <=> Place(c) > casts[b].pos
    BY <1>1, CastType, PlaceType DEF Passed
  <1> QED
    BY <1>1

\* The next stop of walk k is the first client, in place as in number, whose
\* socket takes the message; nobody who can be reached is before it.
LEMMA StopIsFirst ==
  ASSUME TypeOK, NEW k, Reachable(k) # {}
  PROVE  LET c == NextStop(k)
         IN  /\ c \in conns /\ open[c] /\ Place(c) > k.pos
             /\ \A d \in Reachable(k) : d = c \/ Place(d) > Place(c)
  <1> DEFINE c == NextStop(k)
  <1>1. Reachable(k) \in SUBSET Nat /\ conns \in SUBSET Clients
    BY ClientsFinite DEF Reachable, TypeOK
  <1>2. c \in Reachable(k) /\ \A d \in Reachable(k) : c <= d
    BY <1>1, MinExists DEF NextStop
  <1> HIDE DEF c
  <1>3. ASSUME NEW d \in Reachable(k), d # c
        PROVE  Place(d) > Place(c)
    <2>1. c < d /\ c \in Clients /\ d \in conns
      BY <1>1, <1>2, <1>3, ClientsFinite DEF Reachable
    <2>2. Index(conns, c) < Index(conns, d)
      BY <1>1, <2>1, IndexGrows
    <2>3. Place(c) < Place(d) /\ Place(c) \in Nat /\ Place(d) \in Nat
      BY <1>2, <2>1, <2>2, PlaceIsIndex, PlaceType DEF Reachable
    <2> QED
      BY <2>3
  <1> QED
    BY <1>2, <1>3 DEF Reachable, c

\* Whom a walk finds failed on its way to a stop is neither open nor away, if
\* that was so of those it found before.
LEMMA FailedAreClosed ==
  ASSUME TypeOK, Connected, NEW k, NEW stop \in Nat,
         k.pos \in Nat, k.at \in Clients \cup {None}, k.failed \subseteq Clients,
         k.at # None => phase[k.at] # "away",
         \A c \in k.failed : ~open[c] /\ phase[c] # "away",
         \A c \in Reachable(k) : Place(c) >= stop
  PROVE  /\ Failed(k, stop) \subseteq Clients
         /\ \A c \in Failed(k, stop) : ~open[c] /\ phase[c] # "away"
  <1>1. ASSUME NEW c \in conns, k.pos < Place(c), Place(c) < stop
        PROVE  ~open[c] /\ phase[c] # "away" /\ c \in Clients
    <2>1. Place(c) \in Nat /\ c \in Clients /\ phase[c] # "away"
      BY PlaceType DEF Connected
    <2>2. c \notin Reachable(k)
      BY <1>1, <2>1
    <2> QED
      BY <1>1, <2>1, <2>2 DEF Reachable
  <1>2. ASSUME NEW c \in Failed(k, stop)
        PROVE  c \in Clients /\ ~open[c] /\ phase[c] # "away"
    BY <1>1, <1>2 DEF Failed
  <1> QED
    BY <1>2

\* When clients are taken out of the list of whom no one was passed by a walk
\* at place p, the others stay beyond it.
LEMMA DropKeepsPlaces ==
  ASSUME TypeOK, NEW gone, Drop(gone), NEW p \in Nat,
         \A d \in conns : Place(d) <= p => d \notin gone
  PROVE  /\ \A c \in conns' : Place(c) > p => Place(c)' > p
         /\ p < End => p < End'
  <1>1. conns \in SUBSET Clients /\ conns' = conns \ gone
    BY DEF TypeOK, Drop
  <1>2. \A d \in conns : Index(conns, d) <= p => d \notin gone
    BY PlaceIsIndex
  <1>3. /\ \A c \in conns \ gone : Index(conns, c) > p => Index(conns \ gone, c) > p
        /\ p <= Cardinality(conns) => p <= Cardinality(conns \ gone)
    BY <1>1, <1>2, IndexDrop
  <1>4. Cardinality(conns) \in Nat /\ Cardinality(conns \ gone) \in Nat
    BY <1>1, ClientsFinite
  <1>5. p < End => p < End'
    BY <1>1, <1>3, <1>4 DEF End
  <1>6. \A c \in conns' : Place(c) > p => Place(c)' > p
    BY <1>1, <1>3, PlaceIsIndex
  <1> QED
    BY <1>5, <1>6

\* A broadcast that ends leaves the others in their order.
LEMMA CastsAfterEnd ==
  ASSUME TypeOK, NEW b \in DOMAIN casts, casts' = RemoveAt(casts, b)
  PROVE  /\ casts' \in Seq(Casts)
         /\ \A i \in DOMAIN casts' : \E a \in DOMAIN casts \ {b} : casts'[i] = casts[a]
         /\ \A a \in DOMAIN casts \ {b} : \E i \in DOMAIN casts' : casts'[i] = casts[a]
         /\ \A i, j \in DOMAIN casts' :
               i < j => \E a, d \in DOMAIN casts : a < d /\ casts'[i] = casts[a] /\ casts'[j] = casts[d]
  <1> DEFINE n == Len(casts)
             u == SubSeq(casts, 1, b - 1)
             v == SubSeq(casts, b + 1, n)
             w == u \o v
             from(i) == IF i < b THEN i ELSE i + 1
  <1>1. casts \in Seq(Casts) /\ n \in Nat /\ DOMAIN casts = 1..n /\ b \in 1..n
    BY LenProperties DEF TypeOK
  <1>2. \A a \in 1..n : casts[a] \in Casts
    BY <1>1, ElementOfSeq
  <1>3. u \in Seq(Casts) /\ Len(u) = b - 1 /\ \A a \in 1..(b - 1) : u[a] = casts[a]
    <2>1. \A a \in 1..(b - 1) : casts[a] \in Casts
      BY <1>1, <1>2
    <2> QED
      BY <1>1, <2>1, SubSeqProperties
  <1>4. v \in Seq(Casts) /\ Len(v) = n - b /\ \A a \in 1..(n - b) : v[a] = casts[b + a]
    <2>1. \A a \in (b + 1)..n : casts[a] \in Casts
      BY <1>1, <1>2
    <2>2. /\ v \in Seq(Casts)
          /\ Len(v) = IF b + 1 <= n THEN n - (b + 1) + 1 ELSE 0
          /\ \A a \in 1..(n - (b + 1) + 1) : v[a] = casts[(b + 1) + a - 1]
      BY <1>1, <2>1, SubSeqProperties
    <2> QED
      BY <1>1, <2>2
  <1>5. /\ w \in Seq(Casts) /\ Len(w) = Len(u) + Len(v)
        /\ \A a \in 1..(Len(u) + Len(v)) : w[a] = IF a <= Len(u) THEN u[a] ELSE v[a - Len(u)]
    <2>1. u \in Seq(Casts) /\ v \in Seq(Casts)
      BY <1>3, <1>4
    <2> HIDE DEF u, v
    <2>2. /\ u \o v \in Seq(Casts)
          /\ Len(u \o v) = Len(u) + Len(v)
          /\ \A a \in 1..(Len(u) + Len(v)) : (u \o v)[a] = IF a <= Len(u) THEN u[a] ELSE v[a - Len(u)]
      BY <2>1, ConcatProperties, Zenon
    <2> QED
      BY <2>2
  <1>6. casts' = w
    BY DEF RemoveAt
  <1> HIDE DEF u, v, w
  <1>7. DOMAIN casts' = 1..(n - 1) /\ casts' \in Seq(Casts)
    BY <1>1, <1>3, <1>4, <1>5, <1>6, LenProperties
  <1>8. ASSUME NEW i \in 1..(n - 1)
        PROVE  casts'[i] = casts[from(i)] /\ from(i) \in 1..n /\ from(i) # b
    <2>1. CASE i < b
      BY <1>1, <1>3, <1>4, <1>5, <1>6, <2>1
    <2>2. CASE ~(i < b)
      <3>1. ~(i <= b - 1) /\ i - (b - 1) \in 1..(n - b) /\ b + (i - (b - 1)) = i + 1
        BY <1>1, <2>2
      <3>2. casts'[i] = v[i - (b - 1)]
        <4>1. i \in 1..(Len(u) + Len(v)) /\ Len(u) = b - 1
          BY <1>1, <1>3, <1>4
        <4>2. w[i] = IF i <= Len(u) THEN u[i] ELSE v[i - Len(u)]
          BY <1>5, <4>1
        <4> QED
          BY <1>6, <3>1, <4>1, <4>2
      <3>3. v[i - (b - 1)] = casts[b + (i - (b - 1))]
        BY <1>4, <3>1
      <3>4. i + 1 \in 1..n /\ i + 1 # b
        BY <1>1, <2>2
      <3> QED
        BY <2>2, <3>1, <3>2, <3>3, <3>4
    <2> QED
      BY <2>1, <2>2
  <1>9. ASSUME NEW a \in 1..n, a # b
        PROVE  \E i \in 1..(n - 1) : from(i) = a
    <2>1. CASE a < b
      BY <1>1, <2>1
    <2>2. CASE ~(a < b)
      <3>1. a - 1 \in 1..(n - 1) /\ ~(a - 1 < b) /\ (a - 1) + 1 = a
        BY <1>1, <1>9, <2>2
      <3> QED
        BY <3>1
    <2> QED
      BY <2>1, <2>2
  <1>10. ASSUME NEW i \in 1..(n - 1), NEW j \in 1..(n - 1), i < j
         PROVE  from(i) < from(j)
    BY <1>1, <1>10
  <1> HIDE DEF from
  <1>11. ASSUME NEW a \in DOMAIN casts \ {b}
         PROVE  \E i \in DOMAIN casts' : casts'[i] = casts[a]
    <2>1. PICK i \in 1..(n - 1) : from(i) = a
      BY <1>1, <1>9
    <2> QED
      BY <1>7, <1>8, <2>1
  <1>12. ASSUME NEW i \in DOMAIN casts', NEW j \in DOMAIN casts', i < j
         PROVE  \E a, d \in DOMAIN casts : a < d /\ casts'[i] = casts[a] /\ casts'[j] = casts[d]
    <2>1. /\ from(i) \in DOMAIN casts /\ casts'[i] = casts[from(i)]
          /\ from(j) \in DOMAIN casts /\ casts'[j] = casts[from(j)]
      BY <1>1, <1>7, <1>8
    <2>2. from(i) < from(j)
      BY <1>7, <1>10, <1>12
    <2> QED
      BY <2>1, <2>2
  <1>13. ASSUME NEW i \in DOMAIN casts'
         PROVE  \E a \in DOMAIN casts \ {b} : casts'[i] = casts[a]
    BY <1>1, <1>7, <1>8
  <1> QED
    BY <1>7, <1>11, <1>12, <1>13
-----------------------------------------------------------------------------
(* The invariant by parts: what a step shows of itself, and for each topic *)
(* what keeps its news from getting lost.                                  *)

Local ==
  /\ TypeOK
  /\ Counted
  /\ Connected
  /\ Walks
  /\ NewsInOrder
  /\ ScannerHeard

Within(t) == \A b \in Running(t) : casts[b].pos < End

OldFirst(t) ==
  pending[t] = 0 =>
    \A a \in Running(t) : \E b \in Running(t) : casts[b].val = truth[t] /\ casts[b].pos <= casts[a].pos

Current(t) ==
  \A c \in Watching :
    \/ view[c][t] = truth[t]
    \/ pending[t] > 0
    \/ \E b \in Running(t) : casts[b].val = truth[t] /\ c \in conns \ Passed(b)
    \/ t = "scanner" /\ unheard

Orderly(t) == ~shaken[t] => Within(t) /\ OldFirst(t) /\ Current(t)

LEMMA Parts ==
  /\ IInv <=> Local /\ \A t \in Topics : Orderly(t)
  /\ IInv' <=> Local' /\ \A t \in Topics : Orderly(t)'
  <1>1. WithinList /\ OldNewsFirst /\ NoStaleView <=> \A t \in Topics : Orderly(t)
    BY DEF WithinList, OldNewsFirst, NoStaleView, Orderly, Within, OldFirst, Current
  <1>2. (WithinList /\ OldNewsFirst /\ NoStaleView)' <=> \A t \in Topics : Orderly(t)'
    BY DEF WithinList, OldNewsFirst, NoStaleView, Orderly, Within, OldFirst, Current
  <1> QED
    BY <1>1, <1>2 DEF IInv, Local

LEMMA InitOK == Init => IInv
  <1> SUFFICES ASSUME Init
               PROVE  IInv
    OBVIOUS
  <1>1. TypeOK
    <2>1. casts \in Seq(Casts) /\ 0 \in Versions
      BY BoundsAssumption DEF Init, Versions
    <2> QED
      BY <2>1 DEF Init, TypeOK, Topics, Blank
  <1>2. DOMAIN casts = {} /\ Watching = {}
    BY DEF Init, Watching
  <1>3. Counted /\ Connected /\ ScannerHeard
    BY BoundsAssumption DEF Init, Counted, Connected, ScannerHeard, Topics
  <1>4. Walks /\ NewsInOrder /\ WithinList /\ OldNewsFirst /\ NoStaleView
    BY <1>2 DEF Walks, NewsInOrder, WithinList, OldNewsFirst, NoStaleView, Running
  <1> QED
    BY <1>1, <1>3, <1>4 DEF IInv

\* The two facts about places, in the next state.
LEMMA PlaceTypeNext ==
  ASSUME TypeOK', NEW c \in conns'
  PROVE  Place(c)' \in Nat /\ Place(c)' > 0 /\ Place(c)' < End' /\ End' \in Nat
  <1>1. conns' \in SUBSET Clients
    BY DEF TypeOK
  <1>2. /\ Index(conns', c) \in Nat /\ Cardinality(conns') \in Nat
        /\ Index(conns', c) <= Cardinality(conns') /\ Index(conns', c) > 0
    BY <1>1, IndexType
  <1> QED
    BY <1>1, <1>2, PlaceIsIndex DEF End

LEMMA NotPassedNext ==
  ASSUME TypeOK', NEW b \in DOMAIN casts', NEW c \in conns', Place(c)' > casts'[b].pos
  PROVE  c \in (conns \ Passed(b))'
  <1>1. casts'[b] \in Casts
    BY ElementOfSeq, LenProperties DEF TypeOK
  <1>2. casts'[b].pos \in Nat /\ Place(c)' \in Nat
    BY <1>1, PlaceTypeNext DEF Casts
  <1>3. ~(Place(c)' <= casts'[b].pos)
    BY <1>2
  <1> QED
    BY <1>3 DEF Passed

\* A step that changes no news of t: each broadcast is an old one within the
\* list, each broadcast of the truth goes on to whom it has not reached, or
\* nobody needs it any more, and nobody's view gets worse.
LEMMA Steady ==
  ASSUME TypeOK, TypeOK', NEW t \in Topics, ~shaken[t], Orderly(t),
         truth'[t] = truth[t], pending'[t] = pending[t], t = "scanner" => unheard' = unheard,
         \A i \in Running(t)' :
            \E a \in Running(t) : casts'[i] = casts[a] /\ casts[a].pos < End',
         \A a \in Running(t) : casts[a].val = truth[t] =>
            \/ \E i \in Running(t)' :
                  /\ casts'[i] = casts[a]
                  /\ \A c \in Watching' : c \in conns /\ Place(c) > casts[a].pos =>
                        c \in conns' /\ Place(c)' > casts[a].pos
            \/ /\ \A i \in Running(t)' : casts'[i].val = truth[t]
               /\ \A c \in Watching' : ~(c \in conns /\ Place(c) > casts[a].pos),
         \A c \in Watching' :
            \/ c \in Watching /\ view'[c][t] = view[c][t]
            \/ view'[c][t] = truth[t]
            \/ pending[t] > 0
            \/ t = "scanner" /\ unheard
  PROVE  Orderly(t)'
  <1>1. Within(t) /\ OldFirst(t) /\ Current(t)
    BY DEF Orderly
  <1>2. Within(t)'
    BY DEF Within
  <1>3. OldFirst(t)'
    <2> SUFFICES ASSUME pending[t] = 0, NEW i \in Running(t)'
                 PROVE  \E j \in Running(t)' : casts'[j].val = truth[t] /\ casts'[j].pos <= casts'[i].pos
      BY DEF OldFirst
    <2>1. casts'[i] \in Casts /\ casts'[i].pos \in Nat
      <3>1. casts'[i] \in Casts
        BY ElementOfSeq, LenProperties DEF TypeOK, Running
      <3> QED
        BY <3>1 DEF Casts
    <2>2. PICK a \in Running(t) : casts'[i] = casts[a]
      OBVIOUS
    <2>3. PICK b \in Running(t) : casts[b].val = truth[t] /\ casts[b].pos <= casts[a].pos
      BY <1>1 DEF OldFirst
    <2>4. CASE \E j \in Running(t)' : casts'[j] = casts[b]
      BY <2>2, <2>3, <2>4
    <2>5. CASE \A j \in Running(t)' : casts'[j].val = truth[t]
      BY <2>1, <2>5
    <2> QED
      BY <2>3, <2>4, <2>5
  <1>4. Current(t)'
    <2> SUFFICES ASSUME NEW c \in Watching',
                        view'[c][t] # truth[t], ~(pending[t] > 0), ~(t = "scanner" /\ unheard)
                 PROVE  \E i \in Running(t)' : casts'[i].val = truth[t] /\ c \in (conns \ Passed(i))'
      BY DEF Current
    <2>1. c \in Watching /\ view'[c][t] = view[c][t]
      OBVIOUS
    <2>2. PICK a \in Running(t) : casts[a].val = truth[t] /\ c \in conns \ Passed(a)
      BY <1>1, <2>1 DEF Current
    <2>3. c \in conns /\ Place(c) > casts[a].pos
      BY <2>2, NotPassed DEF Running
    <2>4. PICK i \in Running(t)' : /\ casts'[i] = casts[a]
                                   /\ c \in conns' /\ Place(c)' > casts[a].pos
      BY <2>2, <2>3
    <2>5. c \in (conns \ Passed(i))'
      BY <2>4, NotPassedNext DEF Running
    <2> QED
      BY <2>2, <2>4, <2>5
  <1> QED
    BY <1>2, <1>3, <1>4 DEF Orderly

\* The same where no broadcast starts, moves or ends.
LEMMA SteadyCasts ==
  ASSUME TypeOK, TypeOK', NEW t \in Topics, ~shaken[t], Orderly(t), casts' = casts,
         truth'[t] = truth[t], pending'[t] = pending[t], t = "scanner" => unheard' = unheard,
         \A a \in Running(t) :
            /\ casts[a].pos < End'
            /\ \A c \in Watching' : c \in conns /\ Place(c) > casts[a].pos =>
                  c \in conns' /\ Place(c)' > casts[a].pos,
         \A c \in Watching' :
            \/ c \in Watching /\ view'[c][t] = view[c][t]
            \/ view'[c][t] = truth[t]
            \/ pending[t] > 0
            \/ t = "scanner" /\ unheard
  PROVE  Orderly(t)'
  <1>1. Running(t)' = Running(t)
    BY DEF Running
  <1>2. \A i \in Running(t)' :
            \E a \in Running(t) : casts'[i] = casts[a] /\ casts[a].pos < End'
    BY <1>1
  <1>3. \A a \in Running(t) :
            \E i \in Running(t)' :
                  /\ casts'[i] = casts[a]
                  /\ \A c \in Watching' : c \in conns /\ Place(c) > casts[a].pos =>
                        c \in conns' /\ Place(c)' > casts[a].pos
    BY <1>1
  <1> QED
    BY <1>2, <1>3, Steady

\* The same where the list of connections does not change either.
LEMMA SteadyList ==
  ASSUME TypeOK, TypeOK', NEW t \in Topics, ~shaken[t], Orderly(t), casts' = casts, conns' = conns,
         truth'[t] = truth[t], pending'[t] = pending[t], t = "scanner" => unheard' = unheard,
         \A c \in Watching' :
            \/ c \in Watching /\ view'[c][t] = view[c][t]
            \/ view'[c][t] = truth[t]
            \/ pending[t] > 0
            \/ t = "scanner" /\ unheard
  PROVE  Orderly(t)'
  <1>1. End' = End /\ \A c : Place(c)' = Place(c)
    BY DEF End, Place
  <1>2. \A a \in Running(t) :
            /\ casts[a].pos < End'
            /\ \A c \in Watching' : c \in conns /\ Place(c) > casts[a].pos =>
                  c \in conns' /\ Place(c)' > casts[a].pos
    BY <1>1 DEF Orderly, Within
  <1> QED
    BY <1>2, SteadyCasts
-----------------------------------------------------------------------------
(* Steps of connections.                                                   *)

\* A client comes: nobody's place changes.
LEMMA ConnectOK ==
  ASSUME IInv, NEW c \in Clients, Connect(c)
  PROVE  IInv'
  <1> USE DEF Local
  <1>1. Local /\ \A t \in Topics : Orderly(t)
    BY Parts
  <1>2. /\ \A d \in conns : d < c /\ d \in Clients
        /\ c \notin conns
    <2>1. ASSUME NEW d \in conns
          PROVE  d < c /\ d \in Clients /\ d # c
      <3>1. d \in Clients /\ phase[d] # "away" /\ c \in Nat /\ d \in Nat
        BY <1>1, ClientsFinite DEF TypeOK, Connected
      <3>2. ~(c < d) /\ c # d
        BY <1>1, <3>1 DEF Connect, Connected
      <3> QED
        BY <3>1, <3>2
    <2> QED
      BY <2>1
  <1>3. TypeOK'
    BY <1>1 DEF TypeOK, Connect, world
  <1>4. Counted' /\ NewsInOrder' /\ ScannerHeard'
    BY <1>1 DEF Counted, NewsInOrder, ScannerHeard, Connect, world
  <1>5. Connected'
    <2>1. \A e \in Clients : e # c => phase'[e] = phase[e] /\ open'[e] = open[e]
      BY <1>1 DEF Connect, TypeOK
    <2>2. phase'[c] # "away" /\ conns' = conns \cup {c}
      BY <1>1 DEF Connect, TypeOK
    <2>3. \A e \in Clients : open'[e] => e \in conns'
      BY <1>1, <2>1, <2>2 DEF Connected
    <2>4. \A e \in conns' : phase'[e] # "away"
      BY <1>1, <1>2, <2>1, <2>2 DEF Connected
    <2>5. ASSUME NEW e \in Clients, NEW d \in Clients, d < e, phase'[e] # "away"
          PROVE  phase'[d] # "away"
      <3>1. CASE e = c
        <4>1. d \in 1..(c - 1)
          BY <2>5, <3>1 DEF Clients
        <4>2. phase[d] # "away" /\ (d # c)
          BY <4>1 DEF Connect, Clients
        <4> QED
          BY <2>1, <4>2
      <3>2. CASE e # c
        BY <1>1, <2>1, <2>2, <2>5, <3>2 DEF Connected
      <3> QED
        BY <3>1, <3>2
    <2> QED
      BY <2>3, <2>4, <2>5 DEF Connected
  <1>6. Walks'
    <2> SUFFICES ASSUME NEW b \in DOMAIN casts
                 PROVE  /\ casts[b].val <= Latest(casts[b].topic)'
                        /\ casts[b].pos > 0
                        /\ casts[b].at # None /\ phase'[casts[b].at] # "away"
                        /\ \A d \in casts[b].failed : ~open'[d] /\ phase'[d] # "away"
      BY DEF Walks, Connect
    <2>1. /\ casts[b].val <= Latest(casts[b].topic)
          /\ casts[b].pos > 0
          /\ casts[b].at \in Clients /\ casts[b].at # None /\ phase[casts[b].at] # "away"
          /\ \A d \in casts[b].failed : ~open[d] /\ phase[d] # "away" /\ d \in Clients
      BY <1>1, CastType DEF Walks
    <2>2. \A d \in Clients : phase[d] # "away" => phase'[d] = phase[d] /\ open'[d] = open[d]
      BY <1>1 DEF Connect, TypeOK
    <2>3. Latest(casts[b].topic)' = Latest(casts[b].topic)
      BY DEF Latest, Connect, world
    <2> QED
      BY <2>1, <2>2, <2>3
  <1>7. ASSUME NEW t \in Topics
        PROVE  Orderly(t)'
    <2> SUFFICES ASSUME ~shaken[t]
                 PROVE  Orderly(t)'
      BY DEF Orderly, Connect
    <2>1. /\ casts' = casts /\ truth' = truth /\ pending' = pending /\ unheard' = unheard
          /\ view' = view /\ conns' = conns \cup {c} /\ conns \in SUBSET Clients
      BY <1>1 DEF Connect, world, TypeOK
    <2>2. /\ \A d \in conns : Index(conns', d) = Index(conns, d)
          /\ Cardinality(conns') = Cardinality(conns) + 1
      BY <1>2, <2>1, IndexAdd
    <2>3. /\ \A d \in conns : Place(d)' = Place(d)
          /\ End' = End + 1
      BY <2>2, PlaceIsIndex DEF End
    <2>4. ASSUME NEW d \in Watching'
          PROVE  d \in Watching
      BY <1>1 DEF Watching, Connect, TypeOK
    <2>5. ASSUME NEW a \in Running(t)
          PROVE  casts[a].pos < End'
      <3>1. casts[a].pos \in Nat /\ casts[a].pos < End
        BY <1>1, CastType DEF Running, Orderly, Within
      <3>2. End \in Nat
        BY <2>1, ClientsFinite DEF End
      <3> QED
        BY <2>3, <3>1, <3>2
    <2>6. \A a \in Running(t) :
            /\ casts[a].pos < End'
            /\ \A d \in Watching' : d \in conns /\ Place(d) > casts[a].pos =>
                  d \in conns' /\ Place(d)' > casts[a].pos
      BY <2>1, <2>3, <2>5
    <2> QED
      BY <1>1, <1>3, <2>1, <2>4, <2>6, SteadyCasts
  <1> QED
    BY <1>3, <1>4, <1>5, <1>6, <1>7, Parts

\* A step that changes only where a connection is and what a client sees.
LEMMA SocketStep ==
  ASSUME IInv, TypeOK', UNCHANGED <<truth, pending, scannerStatus, casts, unheard>>,
         conns' \subseteq conns,
         \A c \in Clients : phase[c] = "away" <=> phase'[c] = "away",
         \A c \in Clients : open'[c] => open[c] /\ (c \in conns => c \in conns')
  PROVE  Local'
  <1>1. Local
    BY Parts
  <1>2. Counted' /\ NewsInOrder' /\ ScannerHeard'
    BY <1>1 DEF Local, Counted, NewsInOrder, ScannerHeard
  <1>3. Connected'
    <2>1. conns \subseteq Clients
      BY <1>1 DEF Local, TypeOK
    <2> QED
      BY <1>1, <2>1 DEF Local, Connected
  <1>4. Walks'
    <2> SUFFICES ASSUME NEW b \in DOMAIN casts
                 PROVE  /\ casts[b].val <= Latest(casts[b].topic)'
                        /\ casts[b].pos > 0
                        /\ casts[b].at # None /\ phase'[casts[b].at] # "away"
                        /\ \A d \in casts[b].failed : ~open'[d] /\ phase'[d] # "away"
      BY DEF Walks
    <2>1. /\ casts[b].val <= Latest(casts[b].topic)
          /\ casts[b].pos > 0
          /\ casts[b].at \in Clients /\ casts[b].at # None /\ phase[casts[b].at] # "away"
          /\ \A d \in casts[b].failed : ~open[d] /\ phase[d] # "away" /\ d \in Clients
      BY <1>1, CastType DEF Local, Walks
    <2>2. Latest(casts[b].topic)' = Latest(casts[b].topic)
      BY DEF Latest
    <2> QED
      BY <2>1, <2>2
  <1> QED
    BY <1>2, <1>3, <1>4 DEF Local

\* The initial state: the registry is the truth, and so is the status of the
\* scanner, unless it was not heard or its news is still to be handled.
LEMMA SendInitialStateOK ==
  ASSUME IInv, NEW c \in Clients, SendInitialState(c)
  PROVE  IInv'
  <1>1. Local /\ \A t \in Topics : Orderly(t)
    BY Parts
  <1>2. UNCHANGED <<truth, pending, scannerStatus, casts, unheard, conns, open, shaken>>
    BY DEF SendInitialState, world
  <1>3. /\ phase[c] = "joining" /\ phase' = [phase EXCEPT ![c] = IF open[c] THEN "live" ELSE "gone"]
        /\ view' = IF open[c]
                   THEN [view EXCEPT ![c] = [t \in Topics |-> IF t = "file" THEN truth[t] ELSE scannerStatus]]
                   ELSE view
    BY DEF SendInitialState
  <1>4. TypeOK
    BY <1>1 DEF Local
  <1>5. TypeOK'
    <2>1. [t \in Topics |-> IF t = "file" THEN truth[t] ELSE scannerStatus] \in [Topics -> Versions]
      BY <1>4 DEF TypeOK
    <2>2. view' \in [Clients -> [Topics -> Versions]]
      BY <1>3, <1>4, <2>1 DEF TypeOK
    <2>3. phase' \in [Clients -> {"away", "joining", "live", "gone"}]
      BY <1>3, <1>4 DEF TypeOK
    <2> QED
      BY <1>2, <1>4, <2>2, <2>3 DEF TypeOK
  <1>6. Local'
    <2>1. \A d \in Clients : phase[d] = "away" <=> phase'[d] = "away"
      BY <1>3, <1>4 DEF TypeOK
    <2> QED
      BY <1>2, <1>5, <2>1, SocketStep
  <1>7. ASSUME NEW t \in Topics
        PROVE  Orderly(t)'
    <2> SUFFICES ASSUME ~shaken[t]
                 PROVE  Orderly(t)'
      BY <1>2 DEF Orderly
    <2>1. ASSUME NEW d \in Watching'
          PROVE  \/ d \in Watching /\ view'[d][t] = view[d][t]
                 \/ view'[d][t] = truth[t]
                 \/ pending[t] > 0
                 \/ t = "scanner" /\ unheard
      <3>1. d \in Clients /\ open[d] /\ phase'[d] = "live"
        BY <1>2 DEF Watching
      <3>2. CASE d # c
        BY <1>3, <1>4, <3>1, <3>2 DEF TypeOK, Watching
      <3>3. CASE d = c
        <4>1. view'[d] = [u \in Topics |-> IF u = "file" THEN truth[u] ELSE scannerStatus]
          BY <1>3, <1>4, <3>1, <3>3 DEF TypeOK
        <4>2. CASE t = "file"
          BY <4>1, <4>2
        <4>3. CASE t = "scanner"
          <5>1. view'[d][t] = scannerStatus
            BY <4>1, <4>3
          <5>2. pending[t] > 0 \/ pending[t] = 0
            BY <1>4 DEF TypeOK, Versions
          <5> QED
            BY <1>1, <4>3, <5>1, <5>2 DEF Local, ScannerHeard
        <4> QED
          BY <4>2, <4>3 DEF Topics
      <3> QED
        BY <3>2, <3>3
    <2> QED
      BY <1>1, <1>2, <1>4, <1>5, <2>1, SteadyList
  <1> QED
    BY <1>6, <1>7, Parts

\* A connection breaks.
LEMMA CloseOK ==
  ASSUME IInv, NEW c \in Clients, Close(c)
  PROVE  IInv'
  <1>1. Local /\ \A t \in Topics : Orderly(t)
    BY Parts
  <1>2. UNCHANGED <<truth, pending, scannerStatus, casts, unheard, conns, phase, shaken>>
    BY DEF Close, world
  <1>3. /\ open' = [open EXCEPT ![c] = FALSE]
        /\ view' = [view EXCEPT ![c] = Blank]
    BY DEF Close
  <1>4. TypeOK
    BY <1>1 DEF Local
  <1>5. TypeOK'
    <2>1. Blank \in [Topics -> Versions]
      BY BoundsAssumption DEF Blank, Versions
    <2>2. view' \in [Clients -> [Topics -> Versions]]
      BY <1>3, <1>4, <2>1 DEF TypeOK
    <2>3. open' \in [Clients -> BOOLEAN]
      BY <1>3, <1>4 DEF TypeOK
    <2> QED
      BY <1>2, <1>4, <2>2, <2>3 DEF TypeOK
  <1>6. Local'
    <2>1. \A d \in Clients : open'[d] => open[d]
      BY <1>3, <1>4 DEF TypeOK
    <2> QED
      BY <1>2, <1>5, <2>1, SocketStep
  <1>7. ASSUME NEW t \in Topics
        PROVE  Orderly(t)'
    <2> SUFFICES ASSUME ~shaken[t]
                 PROVE  Orderly(t)'
      BY <1>2 DEF Orderly
    <2>1. ASSUME NEW d \in Watching'
          PROVE  d \in Watching /\ view'[d][t] = view[d][t]
      <3>1. d # c
        BY <1>3, <1>4 DEF Watching, TypeOK
      <3> QED
        BY <1>2, <1>3, <1>4, <3>1 DEF Watching, TypeOK
    <2> QED
      BY <1>1, <1>2, <1>4, <1>5, <2>1, SteadyList
  <1> QED
    BY <1>6, <1>7, Parts

\* Clients that are not open are taken out of the list: a topic whose walks
\* have passed none of them keeps its order.
LEMMA DropOrderly ==
  ASSUME TypeOK, TypeOK', NEW t \in Topics, ~shaken[t], Orderly(t), casts' = casts,
         NEW gone, Drop(gone), \A c \in gone : c \notin Watching',
         \A a \in Running(t) : gone \cap Passed(a) = {},
         truth'[t] = truth[t], pending'[t] = pending[t], t = "scanner" => unheard' = unheard,
         \A c \in Watching' : c \in Watching /\ view'[c][t] = view[c][t]
  PROVE  Orderly(t)'
  <1>1. ASSUME NEW a \in Running(t)
        PROVE  /\ casts[a].pos < End'
               /\ \A c \in Watching' : c \in conns /\ Place(c) > casts[a].pos =>
                     c \in conns' /\ Place(c)' > casts[a].pos
    <2>1. casts[a].pos \in Nat /\ casts[a].pos < End
      BY CastType DEF Running, Orderly, Within
    <2>2. \A d \in conns : Place(d) <= casts[a].pos => d \notin gone
      BY DEF Passed
    <2>3. /\ \A c \in conns' : Place(c) > casts[a].pos => Place(c)' > casts[a].pos
          /\ casts[a].pos < End'
      BY <2>1, <2>2, DropKeepsPlaces
    <2>4. \A c \in Watching' : c \in conns => c \in conns'
      BY DEF Drop
    <2> QED
      BY <2>3, <2>4
  <1> QED
    BY <1>1, SteadyCasts

\* A client leaves, and is taken out of the list.
LEMMA DisconnectOK ==
  ASSUME IInv, NEW c \in Clients, Disconnect(c)
  PROVE  IInv'
  <1>1. Local /\ \A t \in Topics : Orderly(t)
    BY Parts
  <1>2. UNCHANGED <<truth, pending, scannerStatus, casts, unheard, open, view>>
    BY DEF Disconnect, world
  <1>3. /\ phase[c] = "live" /\ ~open[c] /\ phase' = [phase EXCEPT ![c] = "gone"]
        /\ Drop({c}) /\ conns' = conns \ {c}
        /\ shaken' = [t \in Topics |-> shaken[t] \/ t \in Displaced({c}, DOMAIN casts)]
    BY DEF Disconnect, Drop, Shake
  <1>4. TypeOK
    BY <1>1 DEF Local
  <1>5. TypeOK'
    <2>1. phase' \in [Clients -> {"away", "joining", "live", "gone"}]
      BY <1>3, <1>4 DEF TypeOK
    <2>2. conns' \subseteq Clients
      BY <1>3, <1>4 DEF TypeOK
    <2>3. shaken' \in [Topics -> BOOLEAN]
      BY <1>3
    <2> QED
      BY <1>2, <1>4, <2>1, <2>2, <2>3 DEF TypeOK
  <1>6. Local'
    <2>1. \A d \in Clients : phase[d] = "away" <=> phase'[d] = "away"
      BY <1>3, <1>4 DEF TypeOK
    <2>2. \A d \in Clients : open'[d] => open[d] /\ d # c
      BY <1>2, <1>3
    <2> QED
      BY <1>2, <1>3, <1>5, <2>1, <2>2, SocketStep
  <1>7. ASSUME NEW t \in Topics
        PROVE  Orderly(t)'
    <2> SUFFICES ASSUME ~shaken[t], t \notin Displaced({c}, DOMAIN casts)
                 PROVE  Orderly(t)'
      BY <1>3 DEF Orderly
    <2>1. \A a \in Running(t) : {c} \cap Passed(a) = {}
      BY DEF Displaced, Running
    <2>2. \A d \in Watching' : d \in Watching /\ view'[d][t] = view[d][t] /\ d # c
      <3> SUFFICES ASSUME NEW d \in Watching'
                   PROVE  d \in Watching /\ d # c
        BY <1>2
      <3>1. d \in Clients /\ open[d]
        BY <1>2 DEF Watching
      <3> QED
        BY <1>3, <1>4, <3>1 DEF Watching, TypeOK
    <2> QED
      BY <1>1, <1>2, <1>3, <1>4, <1>5, <2>1, <2>2, DropOrderly
  <1> QED
    BY <1>6, <1>7, Parts
-----------------------------------------------------------------------------
(* Steps of events.                                                        *)

\* A change: its topic waits for its event to be handled.
LEMMA ChangeOK ==
  ASSUME IInv, NEW t \in Topics, Change(t)
  PROVE  IInv'
  <1>1. Local /\ \A u \in Topics : Orderly(u)
    BY Parts
  <1>2. UNCHANGED <<phase, open, conns, scannerStatus, view, casts, shaken, unheard>>
    BY DEF Change, sockets
  <1>3. /\ truth["file"] + truth["scanner"] < MaxChanges
        /\ truth' = [truth EXCEPT ![t] = @ + 1]
        /\ pending' = [pending EXCEPT ![t] = @ + 1]
    BY DEF Change
  <1>4. TypeOK
    BY <1>1 DEF Local
  <1>5. /\ MaxChanges \in Nat
        /\ \A u \in Topics : truth[u] \in Nat /\ pending[u] \in Nat /\ pending[u] <= truth[u]
    BY <1>1, <1>4, BoundsAssumption DEF TypeOK, Versions, Local, Counted
  <1>6. /\ truth'[t] = truth[t] + 1 /\ pending'[t] = pending[t] + 1
        /\ \A u \in Topics : u # t => truth'[u] = truth[u] /\ pending'[u] = pending[u]
    BY <1>3, <1>4 DEF TypeOK
  <1>7. Counted'
    <2>1. \A u \in Topics : pending'[u] <= truth'[u]
      BY <1>5, <1>6
    <2>2. truth'["file"] + truth'["scanner"] <= MaxChanges
      <3>1. t = "file" \/ t = "scanner"
        BY DEF Topics
      <3> QED
        BY <1>3, <1>5, <1>6, <3>1 DEF Topics
    <2> QED
      BY <2>1, <2>2 DEF Counted
  <1>8. TypeOK'
    <2>1. ASSUME NEW u \in Topics
          PROVE  truth'[u] \in Versions /\ pending'[u] \in Versions
      <3>1. truth'[u] \in Nat /\ pending'[u] \in Nat /\ pending'[u] <= truth'[u]
        BY <1>5, <1>6, <1>7 DEF Counted
      <3>2. truth'[u] <= MaxChanges
        <4>1. truth'["file"] \in Nat /\ truth'["scanner"] \in Nat /\ (u = "file" \/ u = "scanner")
          BY <1>5, <1>6 DEF Topics
        <4> QED
          BY <1>5, <1>7, <4>1 DEF Counted
      <3> QED
        BY <1>5, <3>1, <3>2 DEF Versions
    <2>2. truth' \in [Topics -> Versions] /\ pending' \in [Topics -> Versions]
      BY <1>3, <1>4, <2>1 DEF TypeOK
    <2> QED
      BY <1>2, <1>4, <2>2 DEF TypeOK
  <1>9. Connected' /\ NewsInOrder'
    BY <1>1, <1>2 DEF Local, Connected, NewsInOrder
  <1>10. ScannerHeard'
    <2>1. CASE t = "scanner"
      BY <1>5, <1>6, <2>1 DEF ScannerHeard
    <2>2. CASE t # "scanner"
      BY <1>1, <1>2, <1>6, <2>2 DEF Local, ScannerHeard, Topics
    <2> QED
      BY <2>1, <2>2
  <1>11. Walks'
    <2> SUFFICES ASSUME NEW b \in DOMAIN casts
                 PROVE  casts[b].val <= Latest(casts[b].topic)'
      BY <1>1, <1>2 DEF Walks, Local
    <2>1. casts[b].val <= Latest(casts[b].topic) /\ casts[b].topic \in Topics /\ casts[b].val \in Nat
      BY <1>1, <1>4, CastType DEF Walks, Local, Versions
    <2>2. Latest(casts[b].topic)' >= Latest(casts[b].topic) /\ Latest(casts[b].topic) \in Nat
      <3> DEFINE u == casts[b].topic
      <3>1. CASE u = t
        BY <1>2, <1>5, <1>6, <2>1, <3>1 DEF Latest
      <3>2. CASE u # t
        BY <1>2, <1>5, <1>6, <2>1, <3>2 DEF Latest
      <3> QED
        BY <3>1, <3>2
    <2>3. Latest(casts[b].topic)' \in Nat
      BY <1>2, <1>5, <1>6, <2>1 DEF Latest
    <2> QED
      BY <2>1, <2>2, <2>3
  <1>12. ASSUME NEW u \in Topics
         PROVE  Orderly(u)'
    <2> SUFFICES ASSUME ~shaken[u]
                 PROVE  Orderly(u)'
      BY <1>2 DEF Orderly
    <2>1. CASE u = t
      <3>1. pending'[u] > 0 /\ pending'[u] # 0
        BY <1>5, <1>6, <2>1
      <3>2. Running(u)' = Running(u) /\ End' = End
        BY <1>2 DEF Running, End
      <3>3. Within(u)'
        BY <1>1, <1>2, <3>2 DEF Orderly, Within
      <3> QED
        BY <3>1, <3>3 DEF Orderly, OldFirst, Current
    <2>2. CASE u # t
      <3>1. \A c \in Watching' : c \in Watching /\ view'[c][u] = view[c][u]
        BY <1>2 DEF Watching
      <3> QED
        BY <1>1, <1>2, <1>4, <1>6, <1>8, <2>2, <3>1, SteadyList
    <2> QED
      BY <2>1, <2>2
  <1> QED
    BY <1>7, <1>8, <1>9, <1>10, <1>11, <1>12, Parts DEF Local

\* What a broadcast says is a version, no older than what was said before; it
\* is the truth, if no other event of the topic is to be handled.
LEMMA ContentType ==
  ASSUME TypeOK, Counted, NEW t \in Topics, pending[t] > 0
  PROVE  /\ Content(t) \in Versions
         /\ Latest(t) \in Nat /\ Latest(t) <= Content(t)
         /\ pending[t] = 1 => Content(t) = truth[t]
  <1>1. /\ MaxChanges \in Nat /\ truth[t] \in Nat /\ truth[t] <= MaxChanges
        /\ pending[t] \in Nat /\ pending[t] <= truth[t]
    BY BoundsAssumption DEF TypeOK, Versions, Counted
  <1> QED
    BY <1>1 DEF Content, Latest, Versions

\* What every step that handles an event has in common.
LEMMA HandleEventParts ==
  ASSUME IInv, NEW t \in Topics, HandleEvent(t)
  PROVE  /\ UNCHANGED <<truth, phase, open>>
         /\ pending'[t] = pending[t] - 1 /\ pending[t] > 0
         /\ \A u \in Topics : u # t => pending'[u] = pending[u]
         /\ pending' \in [Topics -> Versions]
         /\ Latest(t)' = Content(t)
         /\ \A u \in Topics : Latest(u) <= Latest(u)'
         /\ Counted'
         /\ ScannerHeard'
         /\ scannerStatus' \in Versions /\ unheard' \in BOOLEAN
         /\ t # "scanner" => unheard' = unheard
  <1>1. Local
    BY Parts
  <1>2. TypeOK /\ Counted
    BY <1>1 DEF Local
  <1>3. /\ pending[t] > 0 /\ pending' = [pending EXCEPT ![t] = @ - 1]
        /\ UNCHANGED <<truth, phase, open>>
    BY DEF HandleEvent, sockets
  <1>4. /\ MaxChanges \in Nat
        /\ \A u \in Topics : truth[u] \in Nat /\ pending[u] \in Nat /\ pending[u] <= truth[u]
                             /\ truth[u] <= MaxChanges
    BY <1>2, BoundsAssumption DEF TypeOK, Versions, Counted
  <1>5. /\ pending'[t] = pending[t] - 1 /\ pending'[t] \in Nat
        /\ \A u \in Topics : u # t => pending'[u] = pending[u]
    BY <1>2, <1>3, <1>4 DEF TypeOK
  <1>6. pending' \in [Topics -> Versions]
    <2>1. \A u \in Topics : pending'[u] \in Versions
      BY <1>4, <1>5 DEF Versions
    <2> QED
      BY <1>2, <1>3, <2>1 DEF TypeOK
  <1>7. Latest(t)' = Content(t)
    BY <1>3, <1>4, <1>5 DEF Latest, Content
  <1>8. ASSUME NEW u \in Topics
        PROVE  Latest(u) <= Latest(u)'
    BY <1>3, <1>4, <1>5 DEF Latest
  <1>9. Counted'
    BY <1>2, <1>3, <1>4, <1>5 DEF Counted
  <1>10. t # "scanner" => unheard' = unheard
    BY <1>2 DEF HandleEvent, TypeOK
  <1>11. scannerStatus' \in Versions /\ unheard' \in BOOLEAN
    BY <1>2, <1>3, ContentType DEF HandleEvent, TypeOK
  <1>12. ScannerHeard'
    <2> SUFFICES ASSUME ~unheard', pending'["scanner"] = 0
                 PROVE  scannerStatus' = truth["scanner"]
      BY <1>3 DEF ScannerHeard
    <2>1. CASE t = "scanner"
      <3>1. conns # {} /\ scannerStatus' = Content(t)
        BY <2>1 DEF HandleEvent
      <3>2. pending[t] = 1
        BY <1>4, <1>5, <2>1
      <3> QED
        BY <1>2, <1>3, <2>1, <3>1, <3>2, ContentType
    <2>2. CASE t # "scanner"
      <3>1. scannerStatus' = scannerStatus /\ unheard' = unheard
        BY <1>10, <2>2 DEF HandleEvent
      <3>2. pending["scanner"] = 0
        BY <1>5, <2>2 DEF Topics
      <3> QED
        BY <1>1, <3>1, <3>2 DEF Local, ScannerHeard
    <2> QED
      BY <2>1, <2>2
  <1> QED
    BY <1>3, <1>5, <1>6, <1>7, <1>8, <1>9, <1>10, <1>11, <1>12

\* A walk that keeps to the invariant.
Walk(k) ==
  /\ k.val <= Latest(k.topic)
  /\ k.pos > 0
  /\ k.at # None /\ phase[k.at] # "away"
  /\ \A c \in k.failed : ~open[c] /\ phase[c] # "away"

\* While the news of each topic grow and no connection comes or goes, a walk
\* that kept to the invariant does so.
LEMMA WalkOn ==
  ASSUME TypeOK, TypeOK', UNCHANGED <<phase, open>>, \A u \in Topics : Latest(u) <= Latest(u)',
         NEW k \in Casts, Walk(k)
  PROVE  Walk(k)'
  <1>1. k.topic \in Topics /\ k.val \in Nat
    BY DEF Casts, Versions
  <1>2. Latest(k.topic) \in Int /\ Latest(k.topic)' \in Int
    <2>1. truth[k.topic] \in Nat /\ pending[k.topic] \in Nat
      BY <1>1 DEF TypeOK, Versions
    <2>2. truth'[k.topic] \in Nat /\ pending'[k.topic] \in Nat
      BY <1>1 DEF TypeOK, Versions
    <2> QED
      BY <2>1, <2>2 DEF Latest
  <1>3. k.val <= Latest(k.topic)'
    BY <1>1, <1>2 DEF Walk
  <1> QED
    BY <1>3 DEF Walk

\* So do all walks, if each was there before or begins in good order.
LEMMA WalksNext ==
  ASSUME TypeOK, TypeOK', UNCHANGED <<phase, open>>, \A u \in Topics : Latest(u) <= Latest(u)',
         \A i \in DOMAIN casts' : \E k \in Casts : casts'[i] = k /\ (Walk(k) \/ Walk(k)')
  PROVE  Walks'
  <1> SUFFICES ASSUME NEW i \in DOMAIN casts'
               PROVE  /\ casts'[i].val <= Latest(casts[i].topic)'
                      /\ casts'[i].pos > 0
                      /\ casts'[i].at # None /\ phase'[casts'[i].at] # "away"
                      /\ \A c \in casts'[i].failed : ~open'[c] /\ phase'[c] # "away"
    BY DEF Walks
  <1>1. PICK k \in Casts : casts'[i] = k /\ (Walk(k) \/ Walk(k)')
    OBVIOUS
  <1>2. Walk(k)'
    BY <1>1, WalkOn
  <1>3. /\ k.val <= Latest(k.topic)'
        /\ k.pos > 0
        /\ k.at # None /\ phase'[k.at] # "away"
        /\ \A c \in k.failed : ~open'[c] /\ phase'[c] # "away"
    BY <1>2 DEF Walk
  <1>4. Latest(k.topic)' = Latest(casts[i].topic)'
    BY <1>1 DEF Latest
  <1> QED
    BY <1>1, <1>3, <1>4

\* The broadcasts that are under way keep to it.
LEMMA WalkNow ==
  ASSUME TypeOK, Walks, NEW b \in DOMAIN casts
  PROVE  casts[b] \in Casts /\ Walk(casts[b])
  BY CastType DEF Walks, Walk

\* Whoever is connected stays in the list, if only who is not is taken out.
LEMMA DropConnected ==
  ASSUME TypeOK, Connected, UNCHANGED <<phase, open>>, NEW gone, Drop(gone), \A c \in gone : ~open[c]
  PROVE  Connected' /\ conns' \subseteq Clients
  BY DEF TypeOK, Connected, Drop

\* A new broadcast is at the head of the list: it can reach who is connected.
LEMMA BeginningType ==
  ASSUME TypeOK, Counted, Connected, NEW t \in Topics, pending[t] > 0
  PROVE  LET k == Beginning(t)
         IN  /\ k \in Casts /\ k.topic = t /\ k.val = Content(t) /\ k.pos = 0
             /\ k.at = None /\ k.failed = {}
             /\ \A c \in Clients : open[c] => c \in Reachable(k)
  <1> DEFINE k == Beginning(t)
  <1>1. k \in Casts
    BY ContentType DEF Beginning, Casts
  <1>2. k.topic = t /\ k.val = Content(t) /\ k.pos = 0 /\ k.at = None /\ k.failed = {}
    BY DEF Beginning
  <1>3. ASSUME NEW c \in Clients, open[c]
        PROVE  c \in Reachable(k)
    BY <1>2, <1>3, PlaceType DEF Connected, Reachable
  <1> QED
    BY <1>1, <1>2, <1>3

\* A broadcast that finds nobody: there is nobody to see old news.
LEMMA BeginNobodyOK ==
  ASSUME IInv, NEW t \in Topics, HandleEvent(t), conns = {} \/ Reachable(Beginning(t)) = {}
  PROVE  IInv'
  <1> DEFINE k == Beginning(t)
             gone == IF conns = {} THEN {} ELSE Failed(k, End)
  <1>1. Local /\ \A u \in Topics : Orderly(u)
    BY Parts
  <1>2. TypeOK /\ Counted /\ Connected /\ Walks /\ pending[t] > 0
    BY <1>1 DEF Local, HandleEvent
  <1>3. /\ k \in Casts /\ k.topic = t /\ k.val = Content(t) /\ k.pos = 0
        /\ k.at = None /\ k.failed = {}
        /\ \A c \in Clients : open[c] => c \in Reachable(k)
    BY <1>2, BeginningType
  <1>4. Reachable(k) = {} /\ \A c \in Clients : ~open[c]
    BY <1>3 DEF Reachable
  <1>5. /\ casts' = casts /\ view' = view /\ conns' = conns \ gone /\ Drop(gone)
        /\ \A u \in Topics : ~shaken'[u] => /\ ~shaken[u]
                                            /\ u \notin Displaced(gone, DOMAIN casts)
                                            /\ u = t => conns = {} \/ Running(t) = {}
        /\ shaken' \in [Topics -> BOOLEAN]
    <2>1. CASE conns = {}
      <3>1. Displaced(gone, DOMAIN casts) = {}
        BY <2>1 DEF Displaced
      <3> QED
        BY <1>2, <2>1, <3>1 DEF HandleEvent, Drop, TypeOK
    <2>2. CASE conns # {}
      <3>1. /\ UNCHANGED <<view, casts>>
            /\ Drop(gone)
            /\ Shake(Displaced(gone, DOMAIN casts) \cup {casts[a].topic : a \in Running(t)})
        BY <1>4, <2>2 DEF HandleEvent, Begin
      <3>2. shaken' = [u \in Topics |->
               shaken[u] \/ u \in (Displaced(gone, DOMAIN casts) \cup {casts[a].topic : a \in Running(t)})]
        BY <3>1 DEF Shake
      <3>3. Running(t) # {} => t \in {casts[a].topic : a \in Running(t)}
        BY DEF Running
      <3> HIDE DEF gone
      <3>4. shaken' \in [Topics -> BOOLEAN]
        BY <3>2
      <3>5. ASSUME NEW u \in Topics, ~shaken'[u]
            PROVE  /\ ~shaken[u]
                   /\ u \notin Displaced(gone, DOMAIN casts)
                   /\ u = t => Running(t) = {}
        BY <3>2, <3>3, <3>5
      <3> QED
        BY <3>1, <3>4, <3>5 DEF Drop
    <2> QED
      BY <2>1, <2>2
  <1>6. /\ UNCHANGED <<truth, phase, open>>
        /\ pending'[t] = pending[t] - 1
        /\ \A u \in Topics : u # t => pending'[u] = pending[u]
        /\ pending' \in [Topics -> Versions]
        /\ \A u \in Topics : Latest(u) <= Latest(u)'
        /\ Counted' /\ ScannerHeard'
        /\ scannerStatus' \in Versions /\ unheard' \in BOOLEAN
        /\ t # "scanner" => unheard' = unheard
    BY HandleEventParts
  <1>7. gone \subseteq Clients /\ \A c \in gone : ~open[c]
    <2>1. End \in Nat
      BY <1>2, ClientsFinite DEF End, TypeOK
    <2>2. Failed(k, End) \subseteq Clients
      BY <1>2, <1>3, <1>4, <2>1, FailedAreClosed
    <2> QED
      BY <1>4, <2>2
  <1> HIDE DEF gone, k
  <1>8. Connected' /\ conns' \subseteq Clients
    BY <1>2, <1>5, <1>6, <1>7, DropConnected
  <1>9. TypeOK'
    BY <1>2, <1>5, <1>6, <1>8 DEF TypeOK
  <1>10. Walks'
    <2>1. \A i \in DOMAIN casts' : \E n \in Casts : casts'[i] = n /\ (Walk(n) \/ Walk(n)')
      BY <1>2, <1>5, WalkNow
    <2> QED
      BY <1>2, <1>6, <1>9, <2>1, WalksNext
  <1>11. NewsInOrder'
    BY <1>1, <1>5 DEF Local, NewsInOrder
  <1>12. Watching' = {}
    BY <1>4, <1>6 DEF Watching
  <1>13. ASSUME NEW u \in Topics
         PROVE  Orderly(u)'
    <2> SUFFICES ASSUME ~shaken[u], u \notin Displaced(gone, DOMAIN casts),
                        u = t => conns = {} \/ Running(t) = {}
                 PROVE  Orderly(u)'
      BY <1>5 DEF Orderly
    <2>1. CASE u = t
      <3>1. Running(t) = {}
        <4>1. ASSUME NEW a \in Running(t), conns = {}
              PROVE  FALSE
          <5>1. casts[a].pos < End /\ casts[a].pos > 0 /\ casts[a].pos \in Nat
            BY <1>1, <1>2, <2>1, CastType DEF Orderly, Within, Walks, Running
          <5>2. End = 1
            BY <4>1, FS_EmptySet DEF End
          <5> QED
            BY <5>1, <5>2
        <4> QED
          BY <2>1, <4>1
      <3>2. Running(t)' = {}
        BY <1>5, <3>1 DEF Running
      <3> QED
        BY <1>12, <2>1, <3>2 DEF Orderly, Within, OldFirst, Current
    <2>2. CASE u # t
      <3>1. \A a \in Running(u) : gone \cap Passed(a) = {}
        BY DEF Displaced, Running
      <3>2. u = "scanner" => unheard' = unheard
        BY <1>6, <2>2 DEF Topics
      <3> QED
        BY <1>1, <1>2, <1>5, <1>6, <1>9, <1>12, <2>2, <3>1, <3>2, DropOrderly
    <2> QED
      BY <2>1, <2>2
  <1> QED
    BY <1>6, <1>8, <1>9, <1>10, <1>11, <1>13, Parts DEF Local
\* The walk after a send: at its stop, and in good order but for its content.
LEMMA SentOK ==
  ASSUME TypeOK, Connected, NEW k \in Casts, Reachable(k) # {},
         k.at # None => phase[k.at] # "away",
         \A c \in k.failed : ~open[c] /\ phase[c] # "away"
  PROVE  LET c == NextStop(k)
             s == Sent(k, c)
         IN  /\ c \in conns /\ c \in Clients /\ open[c]
             /\ Place(c) > k.pos /\ Place(c) \in Nat /\ Place(c) > 0 /\ Place(c) < End
             /\ \A d \in Reachable(k) : d = c \/ Place(d) > Place(c)
             /\ s \in Casts /\ s.topic = k.topic /\ s.val = k.val /\ s.pos = Place(c)
             /\ k.val <= Latest(k.topic) => Walk(s)
             /\ s.pos > 0
             /\ s.at # None /\ phase[s.at] # "away"
             /\ \A d \in s.failed : ~open[d] /\ phase[d] # "away"
  <1> DEFINE c == NextStop(k)
             s == Sent(k, c)
  <1>1. /\ c \in conns /\ open[c] /\ Place(c) > k.pos
        /\ \A d \in Reachable(k) : d = c \/ Place(d) > Place(c)
    BY StopIsFirst
  <1>2. k.pos \in Nat /\ k.at \in Clients \cup {None} /\ k.failed \subseteq Clients
    BY DEF Casts
  <1> HIDE DEF c
  <1>3. Place(c) \in Nat /\ Place(c) > 0 /\ Place(c) < End /\ c \in Clients
    BY <1>1, PlaceType
  <1>4. ASSUME NEW d \in Reachable(k)
        PROVE  Place(d) >= Place(c)
    <2>1. Place(d) \in Nat
      BY PlaceType DEF Reachable
    <2> QED
      BY <1>1, <1>3, <2>1
  <1>5. /\ Failed(k, Place(c)) \subseteq Clients
        /\ \A d \in Failed(k, Place(c)) : ~open[d] /\ phase[d] # "away"
    BY <1>2, <1>3, <1>4, FailedAreClosed
  <1>6. /\ s \in Casts /\ s.topic = k.topic /\ s.val = k.val /\ s.pos = Place(c)
        /\ s.at = c /\ s.failed = Failed(k, Place(c))
    <2> DEFINE f == Failed(k, Place(c))
    <2> HIDE DEF f
    <2>1. s = [k EXCEPT !.pos = Place(c), !.at = c, !.failed = f]
      BY DEF Sent, f
    <2>2. f \subseteq Clients
      BY <1>5 DEF f
    <2>3. s \in Casts /\ s.topic = k.topic /\ s.val = k.val /\ s.pos = Place(c) /\ s.at = c /\ s.failed = f
      BY <1>3, <2>1, <2>2 DEF Casts
    <2> QED
      BY <2>3 DEF f
  <1> HIDE DEF s
  <1>7. s.at # None /\ phase[s.at] # "away"
    BY <1>1, <1>3, <1>6, NoneAssumption DEF Connected
  <1>8. \A d \in s.failed : ~open[d] /\ phase[d] # "away"
    BY <1>5, <1>6
  <1>9. k.val <= Latest(k.topic) => Walk(s)
    BY <1>3, <1>6, <1>7, <1>8 DEF Walk
  <1> QED
    BY <1>1, <1>3, <1>6, <1>7, <1>8, <1>9 DEF c, s

\* The client sees what it is sent, and nothing else changes.
LEMMA SeenOK ==
  ASSUME TypeOK, NEW k \in Casts, NEW c \in Clients, Seen(k, c)
  PROVE  /\ view' \in [Clients -> [Topics -> Versions]]
         /\ view'[c][k.topic] = k.val
         /\ \A d \in Clients, u \in Topics : d # c \/ u # k.topic => view'[d][u] = view[d][u]
  <1>1. /\ view \in [Clients -> [Topics -> Versions]]
        /\ k.topic \in Topics /\ k.val \in Versions
    BY DEF TypeOK, Casts
  <1>2. view' = [view EXCEPT ![c] = [view[c] EXCEPT ![k.topic] = k.val]]
    BY <1>1 DEF Seen
  <1>3. [view[c] EXCEPT ![k.topic] = k.val] \in [Topics -> Versions]
    BY <1>1
  <1>4. view'[c] = [view[c] EXCEPT ![k.topic] = k.val] /\ \A d \in Clients : d # c => view'[d] = view[d]
    BY <1>1, <1>2
  <1>5. view' \in [Clients -> [Topics -> Versions]]
    BY <1>1, <1>2, <1>3
  <1>6. view'[c][k.topic] = k.val
    BY <1>1, <1>4
  <1>7. ASSUME NEW d \in Clients, NEW u \in Topics, d # c \/ u # k.topic
        PROVE  view'[d][u] = view[d][u]
    BY <1>1, <1>4, <1>7
  <1> QED
    BY <1>5, <1>6, <1>7

\* A broadcast begins: it holds the last news of its topic, and whoever is
\* connected and not its first stop is beyond that.
LEMMA BeginCastOK ==
  ASSUME IInv, NEW t \in Topics, HandleEvent(t), conns # {}, Reachable(Beginning(t)) # {}
  PROVE  IInv'
  <1> DEFINE k == Beginning(t)
             c == NextStop(k)
             s == Sent(k, c)
  <1>1. Local /\ \A u \in Topics : Orderly(u)
    BY Parts
  <1>2. TypeOK /\ Counted /\ Connected /\ Walks /\ NewsInOrder /\ pending[t] > 0
    BY <1>1 DEF Local, HandleEvent
  <1>3. /\ k \in Casts /\ k.topic = t /\ k.val = Content(t) /\ k.pos = 0
        /\ k.at = None /\ k.failed = {}
        /\ \A d \in Clients : open[d] => d \in Reachable(k)
    BY <1>2, BeginningType
  <1>4. /\ Seen(k, c)
        /\ casts' = Append(casts, s)
        /\ shaken' = [u \in Topics |->
                        /\ shaken[u] /\ u \notin {v \in {t} : Running(v) = {}}
                        \/ \E a \in Running(t) : u = t /\ casts[a].pos < Place(c)]
        /\ conns' = conns
    BY DEF HandleEvent, Begin
  <1>5. /\ UNCHANGED <<truth, phase, open>>
        /\ pending'[t] = pending[t] - 1
        /\ \A u \in Topics : u # t => pending'[u] = pending[u]
        /\ pending' \in [Topics -> Versions]
        /\ Latest(t)' = Content(t)
        /\ \A u \in Topics : Latest(u) <= Latest(u)'
        /\ Counted' /\ ScannerHeard'
        /\ scannerStatus' \in Versions /\ unheard' \in BOOLEAN
        /\ t # "scanner" => unheard' = unheard
    BY HandleEventParts
  <1>6. /\ c \in conns /\ c \in Clients /\ open[c]
        /\ Place(c) \in Nat /\ Place(c) > 0 /\ Place(c) < End
        /\ \A d \in Reachable(k) : d = c \/ Place(d) > Place(c)
        /\ s \in Casts /\ s.topic = t /\ s.val = Content(t) /\ s.pos = Place(c)
        /\ s.pos > 0
        /\ s.at # None /\ phase[s.at] # "away"
        /\ \A d \in s.failed : ~open[d] /\ phase[d] # "away"
    BY <1>2, <1>3, SentOK
  <1>7. /\ view' \in [Clients -> [Topics -> Versions]]
        /\ view'[c][t] = Content(t)
        /\ \A d \in Clients, u \in Topics : d # c \/ u # t => view'[d][u] = view[d][u]
    BY <1>2, <1>3, <1>4, <1>6, SeenOK
  <1> HIDE DEF k, c, s
  <1>8. PICK n \in Nat :
           /\ n > 0 /\ DOMAIN casts = 1..(n - 1)
           /\ casts' \in Seq(Casts) /\ DOMAIN casts' = 1..n
           /\ casts'[n] = s /\ \A a \in DOMAIN casts : casts'[a] = casts[a]
    <2>1. casts \in Seq(Casts) /\ Len(casts) \in Nat /\ DOMAIN casts = 1..Len(casts)
      BY <1>2, LenProperties DEF TypeOK
    <2>2. /\ casts' \in Seq(Casts) /\ Len(casts') = Len(casts) + 1
          /\ \A i \in 1..Len(casts) : casts'[i] = casts[i]
          /\ casts'[Len(casts) + 1] = s
      BY <1>4, <1>6, <2>1, AppendProperties
    <2>3. Len(casts) + 1 > 0 /\ Len(casts) = (Len(casts) + 1) - 1 /\ Len(casts) + 1 \in Nat
      BY <2>1
    <2> QED
      BY <2>1, <2>2, <2>3, LenProperties
  <1>9. TypeOK'
    <2>1. shaken' \in [Topics -> BOOLEAN]
      BY <1>4
    <2> QED
      BY <1>2, <1>4, <1>5, <1>7, <1>8, <2>1 DEF TypeOK
  <1>10. Connected'
    BY <1>2, <1>4, <1>5 DEF Connected
  <1>11. Walks'
    <2>1. PICK w \in Casts : w = s
      BY <1>6
    <2>2. Walk(w)'
      <3>1. Content(t) \in Nat
        BY <1>2, ContentType DEF Versions
      <3>2. Latest(w.topic)' = Content(t)
        BY <1>5, <1>6, <2>1
      <3>3. w.val <= Latest(w.topic)'
        BY <1>6, <2>1, <3>1, <3>2
      <3> QED
        BY <1>5, <1>6, <2>1, <3>3 DEF Walk
    <2>3. \A i \in DOMAIN casts' : \E m \in Casts : casts'[i] = m /\ (Walk(m) \/ Walk(m)')
      <3> SUFFICES ASSUME NEW i \in DOMAIN casts'
                   PROVE  \E m \in Casts : casts'[i] = m /\ (Walk(m) \/ Walk(m)')
        OBVIOUS
      <3>1. CASE i = n
        BY <1>8, <2>1, <2>2, <3>1
      <3>2. CASE i # n
        <4>1. i \in DOMAIN casts
          BY <1>8, <3>2
        <4> QED
          BY <1>2, <1>8, <4>1, WalkNow
      <3> QED
        BY <3>1, <3>2
    <2> QED
      BY <1>2, <1>5, <1>9, <2>3, WalksNext
  <1>12. NewsInOrder'
    <2> SUFFICES ASSUME NEW a \in 1..n, NEW b \in 1..n, a < b, casts'[a].topic = casts'[b].topic
                 PROVE  casts'[a].val <= casts'[b].val
      BY <1>8 DEF NewsInOrder
    <2>1. a \in DOMAIN casts
      BY <1>8
    <2>2. CASE b \in DOMAIN casts
      BY <1>2, <1>8, <2>1, <2>2 DEF NewsInOrder
    <2>3. CASE b \notin DOMAIN casts
      <3>1. b = n
        BY <1>8, <2>3
      <3>2. casts[a].topic = t /\ casts[a].val \in Nat /\ casts[a].val <= Latest(t)
        BY <1>2, <1>6, <1>8, <2>1, <3>1, CastType DEF Walks, Versions
      <3>3. Latest(t) \in Nat /\ Latest(t) <= Content(t) /\ Content(t) \in Nat
        BY <1>2, ContentType DEF Versions
      <3> QED
        BY <1>6, <1>8, <2>1, <3>1, <3>2, <3>3
    <2> QED
      BY <2>2, <2>3
  <1>13. End' = End /\ \A d : Place(d)' = Place(d)
    BY <1>4 DEF End, Place
  <1>14. \A d \in Watching' : d \in Watching
    BY <1>5 DEF Watching
  <1>15. ASSUME ~shaken'[t]
         PROVE  Orderly(t)'
    <2>1. /\ \A a \in Running(t) : ~(casts[a].pos < Place(c))
          /\ ~shaken[t] \/ Running(t) = {}
      BY <1>4, <1>15
    <2>2. ASSUME NEW i \in Running(t)'
          PROVE  /\ i = n \/ (i \in Running(t) /\ casts'[i] = casts[i])
                 /\ casts'[i].pos < End /\ casts'[i].pos >= Place(c)
      <3>1. CASE i = n
        <4>1. casts'[i].pos = Place(c)
          BY <1>6, <1>8, <3>1
        <4>2. Place(c) < End /\ Place(c) >= Place(c)
          BY <1>6
        <4> QED
          BY <3>1, <4>1, <4>2
      <3>2. CASE i # n
        <4>1. i \in Running(t) /\ casts'[i] = casts[i]
          BY <1>8, <2>2, <3>2 DEF Running
        <4>2. casts[i].pos \in Nat /\ casts[i].pos < End /\ ~(casts[i].pos < Place(c))
          BY <1>1, <1>2, <2>1, <4>1, CastType DEF Running, Orderly, Within
        <4> QED
          BY <1>6, <4>1, <4>2
      <3> QED
        BY <3>1, <3>2
    <2>3. Within(t)'
      BY <1>13, <2>2 DEF Within
    <2>4. n \in Running(t)'
      BY <1>6, <1>8 DEF Running
    <2>5. ASSUME ~(pending'[t] > 0)
          PROVE  casts'[n].val = truth'[t] /\ view'[c][t] = truth'[t]
      <3>1. pending[t] = 1
        <4>1. pending[t] \in Nat /\ pending'[t] \in Nat
          BY <1>2, <1>5 DEF TypeOK, Versions
        <4> QED
          BY <1>2, <1>5, <2>5, <4>1
      <3>2. Content(t) = truth[t]
        BY <1>2, <3>1, ContentType
      <3> QED
        BY <1>5, <1>6, <1>7, <1>8, <3>2
    <2>6. OldFirst(t)'
      <3> SUFFICES ASSUME pending'[t] = 0, NEW a \in Running(t)'
                   PROVE  casts'[n].val = truth'[t] /\ casts'[n].pos <= casts'[a].pos
        BY <2>4 DEF OldFirst
      <3>1. casts'[n].pos = Place(c)
        BY <1>6, <1>8
      <3>2. casts'[a].pos >= Place(c) /\ casts'[a].pos \in Nat
        <4>1. CASE a = n
          BY <1>6, <3>1, <4>1
        <4>2. CASE a # n
          BY <1>2, <2>2, <4>2, CastType DEF Running
        <4> QED
          BY <4>1, <4>2
      <3> QED
        BY <1>6, <2>5, <3>1, <3>2
    <2>7. Current(t)'
      <3> SUFFICES ASSUME NEW d \in Watching', ~(pending'[t] > 0), view'[d][t] # truth'[t]
                   PROVE  casts'[n].val = truth'[t] /\ d \in (conns \ Passed(n))'
        BY <2>4 DEF Current
      <3>1. d # c /\ d \in Clients /\ open[d]
        BY <1>14, <2>5 DEF Watching
      <3>2. d \in Reachable(k)
        BY <1>3, <3>1
      <3>3. Place(d) > Place(c) /\ d \in conns
        BY <1>6, <3>1, <3>2 DEF Reachable
      <3>4. d \in conns' /\ Place(d)' > casts'[n].pos /\ n \in DOMAIN casts'
        BY <1>4, <1>6, <1>8, <1>13, <3>3
      <3> QED
        BY <1>9, <2>5, <3>4, NotPassedNext
    <2> QED
      BY <2>3, <2>6, <2>7 DEF Orderly
  <1>16. ASSUME NEW u \in Topics, u # t, ~shaken'[u]
         PROVE  Orderly(u)'
    <2>1. ~shaken[u]
      BY <1>4, <1>16
    <2>2. ASSUME NEW i \in Running(u)'
          PROVE  \E a \in Running(u) : casts'[i] = casts[a] /\ casts[a].pos < End'
      <3>1. i # n
        BY <1>6, <1>8, <1>16, <2>2 DEF Running
      <3>2. i \in Running(u) /\ casts'[i] = casts[i]
        BY <1>8, <2>2, <3>1 DEF Running
      <3> QED
        BY <1>1, <1>13, <2>1, <3>2 DEF Orderly, Within
    <2>3. ASSUME NEW a \in Running(u)
          PROVE  \E i \in Running(u)' :
                    /\ casts'[i] = casts[a]
                    /\ \A d \in Watching' : d \in conns /\ Place(d) > casts[a].pos =>
                          d \in conns' /\ Place(d)' > casts[a].pos
      <3>1. a \in Running(u)' /\ casts'[a] = casts[a]
        BY <1>8 DEF Running
      <3> QED
        BY <1>4, <1>13, <3>1
    <2>4. \A d \in Watching' : d \in Watching /\ view'[d][u] = view[d][u]
      BY <1>7, <1>14, <1>16 DEF Watching
    <2>5. u = "scanner" => unheard' = unheard
      BY <1>5, <1>16 DEF Topics
    <2> QED
      BY <1>1, <1>2, <1>5, <1>9, <1>16, <2>1, <2>2, <2>3, <2>4, <2>5, Steady
  <1>17. \A u \in Topics : Orderly(u)'
    BY <1>15, <1>16 DEF Orderly
  <1> QED
    BY <1>5, <1>9, <1>10, <1>11, <1>12, <1>17, Parts DEF Local
LEMMA HandleEventOK ==
  ASSUME IInv, NEW t \in Topics, HandleEvent(t)
  PROVE  IInv'
  BY BeginNobodyOK, BeginCastOK

-----------------------------------------------------------------------------
(* Steps of broadcasts.                                                    *)

\* A walk goes on to its next stop.  It passes nobody who is connected, and
\* while the topic is not shaken no older walk of it: the last news stay
\* behind, or at, all older ones.
LEMMA SendOK ==
  ASSUME IInv, NEW b \in DOMAIN casts, Send(b)
  PROVE  IInv'
  <1> DEFINE k == casts[b]
             c == NextStop(k)
             s == Sent(k, c)
  <1>1. Local /\ \A u \in Topics : Orderly(u)
    BY Parts
  <1>2. TypeOK /\ Counted /\ Connected /\ Walks /\ NewsInOrder
    BY <1>1 DEF Local
  <1>0. PICK t \in Topics : t = k.topic
    BY <1>2, CastType
  <1>3. /\ k \in Casts /\ k.topic = t /\ k.val \in Versions /\ k.pos \in Nat
        /\ k.val <= Latest(t)
        /\ k.at # None /\ phase[k.at] # "away"
        /\ \A d \in k.failed : ~open[d] /\ phase[d] # "away"
    BY <1>0, <1>2, CastType DEF Walks
  <1>4. /\ Reachable(k) # {}
        /\ Seen(k, c)
        /\ casts' = [casts EXCEPT ![b] = s]
        /\ shaken' = [u \in Topics |-> shaken[u] \/ u \in Overtaken(b, Place(c))]
        /\ UNCHANGED <<truth, pending, phase, open, conns, scannerStatus, unheard>>
    BY DEF Send, Shake, world, sockets
  <1>5. /\ c \in conns /\ c \in Clients /\ open[c]
        /\ Place(c) > k.pos /\ Place(c) \in Nat /\ Place(c) < End
        /\ \A d \in Reachable(k) : d = c \/ Place(d) > Place(c)
        /\ s \in Casts /\ s.topic = t /\ s.val = k.val /\ s.pos = Place(c)
        /\ Walk(s)
    BY <1>2, <1>3, <1>4, SentOK
  <1>6. /\ view' \in [Clients -> [Topics -> Versions]]
        /\ view'[c][t] = k.val
        /\ \A d \in Clients, u \in Topics : d # c \/ u # t => view'[d][u] = view[d][u]
    BY <1>2, <1>3, <1>4, <1>5, SeenOK
  <1>7. /\ casts' \in Seq(Casts) /\ DOMAIN casts' = DOMAIN casts
        /\ casts'[b] = s /\ \A a \in DOMAIN casts : a # b => casts'[a] = casts[a]
        /\ DOMAIN casts \subseteq Nat
    <2>1. casts \in Seq(Casts) /\ DOMAIN casts = 1..Len(casts) /\ Len(casts) \in Nat
      BY <1>2, LenProperties DEF TypeOK
    <2>2. casts' \in Seq(Casts) /\ Len(casts') = Len(casts)
      BY <1>4, <1>5, <2>1, ExceptSeq
    <2> HIDE DEF s
    <2>3. DOMAIN casts' = DOMAIN casts /\ casts'[b] = s /\ \A a \in DOMAIN casts : a # b => casts'[a] = casts[a]
      BY <1>4, <2>1
    <2> QED
      BY <2>1, <2>2, <2>3
  <1>8. ASSUME NEW u \in Topics, ~shaken'[u]
        PROVE  ~shaken[u] /\ u \notin Overtaken(b, Place(c))
    BY <1>4, <1>8
  <1>9. shaken' \in [Topics -> BOOLEAN]
    BY <1>2, <1>4 DEF TypeOK
  <1>10. \A a \in DOMAIN casts : a < b => a \in 1..(b - 1)
    BY <1>2, LenProperties DEF TypeOK
  <1> HIDE DEF c, s
  <1>11. TypeOK'
    BY <1>2, <1>4, <1>6, <1>7, <1>9 DEF TypeOK
  <1>12. Counted' /\ Connected' /\ ScannerHeard'
    BY <1>1, <1>4 DEF Local, Counted, Connected, ScannerHeard
  <1>13. Walks'
    <2>1. \A u \in Topics : Latest(u) <= Latest(u)'
      <3> SUFFICES ASSUME NEW u \in Topics
                   PROVE  Latest(u) <= Latest(u)
        BY <1>4 DEF Latest
      <3> QED
        BY <1>2 DEF Latest, TypeOK, Versions
    <2>2. \A i \in DOMAIN casts' : \E m \in Casts : casts'[i] = m /\ (Walk(m) \/ Walk(m)')
      BY <1>2, <1>5, <1>7, WalkNow
    <2> QED
      BY <1>2, <1>4, <1>11, <2>1, <2>2, WalksNext
  <1>14. NewsInOrder'
    <2>1. \A a \in DOMAIN casts : casts'[a].topic = casts[a].topic /\ casts'[a].val = casts[a].val
      BY <1>3, <1>5, <1>7
    <2> QED
      BY <1>2, <1>7, <2>1 DEF NewsInOrder
  <1>15. /\ End' = End /\ \A d : Place(d)' = Place(d)
         /\ \A u : Running(u)' = Running(u)
         /\ \A d \in Watching' : d \in Watching
    BY <1>3, <1>4, <1>5, <1>7 DEF End, Place, Running, Watching
  <1>16. ASSUME ~shaken'[t]
         PROVE  Orderly(t)'
    <2>1. Within(t) /\ OldFirst(t) /\ Current(t)
      BY <1>1, <1>3, <1>8, <1>16 DEF Orderly
    <2>2. \A a \in Running(t) : a < b => casts[a].pos >= Place(c)
      <3> SUFFICES ASSUME NEW a \in Running(t), a < b
                   PROVE  casts[a].pos >= Place(c)
        OBVIOUS
      <3>1. a \in 1..(b - 1) /\ casts[a].topic = t /\ casts[a].pos \in Nat
        BY <1>2, <1>10, CastType DEF Running
      <3>2. ~(casts[a].pos < Place(c))
        BY <1>3, <1>8, <1>16, <3>1 DEF Overtaken
      <3> QED
        BY <1>5, <3>1, <3>2
    <2>3. b \in Running(t) /\ casts'[b] = s
      BY <1>3, <1>7 DEF Running
    <2>4. \A a \in Running(t) : a \in DOMAIN casts /\ (a # b => casts'[a] = casts[a])
      BY <1>7 DEF Running
    <2>5. Within(t)'
      <3> SUFFICES ASSUME NEW a \in Running(t)
                   PROVE  casts'[a].pos < End
        BY <1>15 DEF Within
      <3>1. CASE a = b
        BY <1>5, <2>3, <3>1
      <3>2. CASE a # b
        BY <2>1, <2>4, <3>2 DEF Within
      <3> QED
        BY <3>1, <3>2
    <2>6. ASSUME pending[t] = 0, k.val = truth[t], NEW a \in Running(t), a > b
          PROVE  casts'[a].val = truth[t]
      <3>1. a \in DOMAIN casts /\ casts[a].topic = t /\ a # b
        BY <1>7, <2>6 DEF Running
      <3>2. casts[a].val <= Latest(t) /\ casts[a].val \in Nat /\ k.val <= casts[a].val
        BY <1>2, <1>3, <2>6, <3>1, CastType DEF Walks, NewsInOrder, Versions
      <3>3. Latest(t) = truth[t] /\ truth[t] \in Nat
        BY <1>2, <1>3, <2>6 DEF Latest, TypeOK, Versions
      <3>4. casts[a].val = truth[t]
        BY <2>6, <3>2, <3>3
      <3> QED
        BY <1>7, <3>1, <3>4
    <2>7. ASSUME pending[t] = 0, k.val # truth[t]
          PROVE  \E w \in Running(t) : w # b /\ casts[w].val = truth[t] /\ casts[w].pos <= k.pos
      <3>1. PICK w \in Running(t) : casts[w].val = truth[t] /\ casts[w].pos <= k.pos
        BY <2>1, <2>3, <2>7 DEF OldFirst
      <3> QED
        BY <2>7, <3>1
    <2>8. OldFirst(t)'
      <3> SUFFICES ASSUME pending[t] = 0, NEW a \in Running(t)
                   PROVE  \E w \in Running(t) : casts'[w].val = truth[t] /\ casts'[w].pos <= casts'[a].pos
        BY <1>4, <1>15 DEF OldFirst
      <3>1. casts[a].pos \in Nat /\ a \in Nat /\ b \in Nat
        BY <1>2, <1>7, CastType DEF Running
      <3>2. CASE k.val = truth[t]
        <4>1. casts'[b].val = truth[t] /\ casts'[b].pos = Place(c)
          BY <1>5, <2>3, <3>2
        <4>2. CASE a = b
          BY <1>5, <2>3, <4>1, <4>2
        <4>3. CASE a < b
          <5>1. casts'[a].pos >= Place(c) /\ casts'[a].pos \in Nat
            BY <2>2, <2>4, <3>1, <4>3
          <5> QED
            BY <1>5, <2>3, <4>1, <5>1
        <4>4. CASE a > b
          <5>1. casts'[a].val = truth[t] /\ casts'[a].pos = casts[a].pos
            BY <2>4, <2>6, <3>1, <3>2, <4>4
          <5> QED
            BY <3>1, <5>1
        <4>5. a = b \/ a < b \/ a > b
          BY <3>1
        <4> QED
          BY <4>2, <4>3, <4>4, <4>5
      <3>3. CASE k.val # truth[t]
        <4>1. CASE a = b
          <5>1. PICK w \in Running(t) : w # b /\ casts[w].val = truth[t] /\ casts[w].pos <= k.pos
            BY <2>7, <3>3
          <5>2. casts[w].pos \in Nat
            BY <1>2, CastType DEF Running
          <5>3. casts'[w] = casts[w] /\ casts'[a].pos = Place(c)
            BY <1>5, <2>3, <2>4, <4>1, <5>1
          <5>4. casts[w].pos <= Place(c)
            BY <1>3, <1>5, <5>1, <5>2
          <5> QED
            BY <5>1, <5>3, <5>4
        <4>2. CASE a # b
          <5>1. PICK w \in Running(t) : casts[w].val = truth[t] /\ casts[w].pos <= casts[a].pos
            BY <2>1 DEF OldFirst
          <5>2. w # b
            BY <3>3, <5>1
          <5> QED
            BY <2>4, <4>2, <5>1, <5>2
        <4> QED
          BY <4>1, <4>2
      <3> QED
        BY <3>2, <3>3
    <2>9. Current(t)'
      <3> SUFFICES ASSUME NEW d \in Watching', ~(pending[t] > 0), view'[d][t] # truth[t],
                          ~(t = "scanner" /\ unheard)
                   PROVE  \E w \in Running(t) : casts'[w].val = truth[t] /\ d \in (conns \ Passed(w))'
        BY <1>4, <1>15 DEF Current
      <3>1. d \in Watching /\ d \in Clients /\ open[d] /\ pending[t] = 0
        BY <1>2, <1>3, <1>15 DEF Watching, TypeOK, Versions
      <3>2. ASSUME NEW w \in Running(t), casts'[w].val = truth[t], d \in conns, Place(d) > casts'[w].pos
            PROVE  d \in (conns \ Passed(w))'
        <4>1. w \in DOMAIN casts' /\ d \in conns' /\ Place(d)' > casts'[w].pos
          BY <1>4, <1>7, <1>15, <3>2 DEF Running
        <4> QED
          BY <1>11, <4>1, NotPassedNext
      <3>3. CASE d = c
        <4>1. k.val # truth[t]
          BY <1>6, <3>3
        <4>2. PICK w \in Running(t) : w # b /\ casts[w].val = truth[t] /\ casts[w].pos <= k.pos
          BY <2>7, <3>1, <4>1
        <4>3. casts[w].pos \in Nat
          BY <1>2, CastType DEF Running
        <4>4. casts'[w] = casts[w] /\ Place(d) > casts[w].pos
          BY <1>3, <1>5, <2>4, <3>3, <4>2, <4>3
        <4> QED
          BY <1>5, <3>2, <3>3, <4>2, <4>4
      <3>4. CASE d # c
        <4>1. view[d][t] # truth[t]
          BY <1>3, <1>6, <3>1, <3>4
        <4>2. PICK w \in Running(t) : casts[w].val = truth[t] /\ d \in conns \ Passed(w)
          BY <2>1, <3>1, <4>1 DEF Current
        <4>3. d \in conns /\ Place(d) > casts[w].pos
          BY <1>2, <4>2, NotPassed DEF Running
        <4>4. CASE w # b
          BY <2>4, <3>2, <4>2, <4>3, <4>4
        <4>5. CASE w = b
          <5>1. d \in Reachable(k)
            BY <3>1, <4>3, <4>5 DEF Reachable
          <5>2. Place(d) > Place(c)
            BY <1>5, <3>4, <5>1
          <5> QED
            BY <1>5, <2>3, <3>2, <4>2, <4>3, <4>5, <5>2
        <4> QED
          BY <4>4, <4>5
      <3> QED
        BY <3>3, <3>4
    <2> QED
      BY <2>5, <2>8, <2>9 DEF Orderly
  <1>17. ASSUME NEW u \in Topics, u # t, ~shaken'[u]
         PROVE  Orderly(u)'
    <2>1. ~shaken[u] /\ Orderly(u)
      BY <1>1, <1>8, <1>17
    <2>2. \A a \in Running(u) : casts'[a] = casts[a] /\ casts[a].pos < End
      BY <1>3, <1>7, <1>17, <2>1 DEF Running, Orderly, Within
    <2>3. \A i \in Running(u)' : \E a \in Running(u) : casts'[i] = casts[a] /\ casts[a].pos < End'
      BY <1>15, <2>2
    <2>4. \A a \in Running(u) :
            \E i \in Running(u)' :
               /\ casts'[i] = casts[a]
               /\ \A d \in Watching' : d \in conns /\ Place(d) > casts[a].pos =>
                     d \in conns' /\ Place(d)' > casts[a].pos
      BY <1>4, <1>15, <2>2
    <2>5. \A d \in Watching' : d \in Watching /\ view'[d][u] = view[d][u]
      BY <1>6, <1>15, <1>17 DEF Watching
    <2> QED
      BY <1>2, <1>4, <1>11, <2>1, <2>3, <2>4, <2>5, Steady
  <1>18. \A u \in Topics : Orderly(u)'
    BY <1>16, <1>17 DEF Orderly
  <1> QED
    BY <1>11, <1>12, <1>13, <1>14, <1>18, Parts DEF Local
\* A walk comes to the end of the list.  Nobody who is connected was beyond
\* it, and while its topic is not shaken no older walk is left: what it could
\* bring everybody has, or a newer walk brings it.
LEMMA FinishOK ==
  ASSUME IInv, NEW b \in DOMAIN casts, Finish(b)
  PROVE  IInv'
  <1> DEFINE k == casts[b]
             gone == Failed(k, End)
             others == DOMAIN casts \ {b}
  <1>1. Local /\ \A u \in Topics : Orderly(u)
    BY Parts
  <1>2. TypeOK /\ Counted /\ Connected /\ Walks /\ NewsInOrder
    BY <1>1 DEF Local
  <1>3. /\ k \in Casts /\ k.pos \in Nat /\ k.at \in Clients \cup {None} /\ k.failed \subseteq Clients
        /\ k.topic \in Topics /\ k.val \in Nat
        /\ k.at # None /\ phase[k.at] # "away"
        /\ \A d \in k.failed : ~open[d] /\ phase[d] # "away"
    BY <1>2, CastType DEF Walks, Versions
  <1>4. /\ Reachable(k) = {}
        /\ Drop(gone) /\ conns' = conns \ gone
        /\ shaken' = [u \in Topics |-> shaken[u] \/ u \in (Displaced(gone, others) \cup Overtaken(b, End))]
        /\ casts' = RemoveAt(casts, b)
        /\ UNCHANGED <<truth, pending, phase, open, scannerStatus, view, unheard>>
    BY DEF Finish, Shake, Drop, world, sockets
  <1>5. gone \subseteq Clients /\ \A d \in gone : ~open[d]
    <2>1. End \in Nat
      BY <1>2, ClientsFinite DEF End, TypeOK
    <2> QED
      BY <1>2, <1>3, <1>4, <2>1, FailedAreClosed
  <1>6. /\ casts' \in Seq(Casts)
        /\ \A i \in DOMAIN casts' : \E a \in others : casts'[i] = casts[a]
        /\ \A a \in others : \E i \in DOMAIN casts' : casts'[i] = casts[a]
        /\ \A i, j \in DOMAIN casts' :
              i < j => \E a, d \in DOMAIN casts : a < d /\ casts'[i] = casts[a] /\ casts'[j] = casts[d]
    BY <1>2, <1>4, CastsAfterEnd
  <1>7. ASSUME NEW u \in Topics, ~shaken'[u]
        PROVE  ~shaken[u] /\ u \notin Displaced(gone, others) /\ u \notin Overtaken(b, End)
    BY <1>4, <1>7
  <1>8. shaken' \in [Topics -> BOOLEAN]
    BY <1>2, <1>4 DEF TypeOK
  <1>9. /\ DOMAIN casts \subseteq Nat
        /\ \A a \in DOMAIN casts : a < b => a \in 1..(b - 1)
    BY <1>2, LenProperties DEF TypeOK
  <1> HIDE DEF gone
  <1>10. Connected' /\ conns' \subseteq Clients
    BY <1>2, <1>4, <1>5, DropConnected
  <1>11. TypeOK'
    BY <1>2, <1>4, <1>6, <1>8, <1>10 DEF TypeOK
  <1>12. Counted' /\ ScannerHeard'
    BY <1>1, <1>4 DEF Local, Counted, ScannerHeard
  <1>13. Walks'
    <2>1. \A u \in Topics : Latest(u) <= Latest(u)'
      <3> SUFFICES ASSUME NEW u \in Topics
                   PROVE  Latest(u) <= Latest(u)
        BY <1>4 DEF Latest
      <3> QED
        BY <1>2 DEF Latest, TypeOK, Versions
    <2>2. \A i \in DOMAIN casts' : \E m \in Casts : casts'[i] = m /\ (Walk(m) \/ Walk(m)')
      BY <1>2, <1>6, WalkNow
    <2> QED
      BY <1>2, <1>4, <1>11, <2>1, <2>2, WalksNext
  <1>14. NewsInOrder'
    <2> SUFFICES ASSUME NEW i \in DOMAIN casts', NEW j \in DOMAIN casts',
                        i < j, casts'[i].topic = casts'[j].topic
                 PROVE  casts'[i].val <= casts'[j].val
      BY DEF NewsInOrder
    <2>1. PICK a \in DOMAIN casts, d \in DOMAIN casts :
             a < d /\ casts'[i] = casts[a] /\ casts'[j] = casts[d]
      BY <1>6
    <2> QED
      BY <1>2, <2>1 DEF NewsInOrder
  <1>15. \A d \in Watching' : d \in Watching
    BY <1>4 DEF Watching
  <1>16. ASSUME NEW u \in Topics, ~shaken'[u]
         PROVE  Orderly(u)'
    <2>1. ~shaken[u] /\ Orderly(u) /\ Within(u)
      BY <1>1, <1>7, <1>16 DEF Orderly
    <2>2. ASSUME NEW a \in Running(u), a # b
          PROVE  /\ casts[a].pos < End'
                 /\ \A d \in Watching' : d \in conns /\ Place(d) > casts[a].pos =>
                       d \in conns' /\ Place(d)' > casts[a].pos
      <3>1. casts[a].pos \in Nat /\ casts[a].pos < End /\ a \in others /\ casts[a].topic = u
        BY <1>2, <2>1, <2>2, CastType DEF Running, Within
      <3>2. gone \cap Passed(a) = {}
        BY <1>7, <1>16, <3>1 DEF Displaced
      <3>3. \A d \in conns : Place(d) <= casts[a].pos => d \notin gone
        BY <3>2 DEF Passed
      <3>4. /\ \A d \in conns' : Place(d) > casts[a].pos => Place(d)' > casts[a].pos
            /\ casts[a].pos < End'
        BY <1>2, <1>4, <3>1, <3>3, DropKeepsPlaces
      <3>5. \A d \in Watching' : d \in conns => d \in conns'
        BY <1>4, <1>5 DEF Watching
      <3> QED
        BY <3>4, <3>5
    <2>3. \A i \in Running(u)' : \E a \in Running(u) : a # b /\ casts'[i] = casts[a]
      BY <1>6 DEF Running
    <2>4. \A i \in Running(u)' : \E a \in Running(u) : casts'[i] = casts[a] /\ casts[a].pos < End'
      BY <2>2, <2>3
    <2>5. ASSUME NEW a \in Running(u), a # b
          PROVE  \E i \in Running(u)' :
                    /\ casts'[i] = casts[a]
                    /\ \A d \in Watching' : d \in conns /\ Place(d) > casts[a].pos =>
                          d \in conns' /\ Place(d)' > casts[a].pos
      <3>1. PICK i \in DOMAIN casts' : casts'[i] = casts[a]
        BY <1>6, <2>5 DEF Running
      <3>2. i \in Running(u)'
        BY <3>1 DEF Running
      <3> QED
        BY <2>2, <2>5, <3>1, <3>2
    <2>6. ASSUME b \in Running(u), k.val = truth[u]
          PROVE  /\ \A i \in Running(u)' : casts'[i].val = truth[u]
                 /\ \A d \in Watching' : ~(d \in conns /\ Place(d) > k.pos)
      <3>1. ASSUME NEW i \in Running(u)'
            PROVE  casts'[i].val = truth[u]
        <4>1. PICK a \in Running(u) : a # b /\ casts'[i] = casts[a]
          BY <2>3
        <4>2. a \in DOMAIN casts /\ casts[a].topic = u /\ k.topic = u /\ a \in Nat /\ b \in Nat
          BY <1>9, <2>6 DEF Running
        <4>3. ~(a < b)
          <5>1. casts[a].pos < End
            BY <2>1 DEF Within
          <5> QED
            BY <1>7, <1>9, <1>16, <4>2, <5>1 DEF Overtaken
        <4>4. b < a
          BY <4>1, <4>2, <4>3
        <4>5. k.val <= casts[a].val /\ casts[a].val <= Latest(u) /\ casts[a].val \in Nat
          BY <1>2, <4>2, <4>4, CastType DEF Walks, NewsInOrder, Versions
        <4>6. Latest(u) <= truth[u] /\ Latest(u) \in Nat /\ truth[u] \in Nat
          BY <1>2 DEF Latest, TypeOK, Versions, Counted
        <4> QED
          BY <2>6, <4>1, <4>5, <4>6
      <3>2. ASSUME NEW d \in Watching', d \in conns, Place(d) > k.pos
            PROVE  FALSE
        BY <1>4, <3>2 DEF Watching, Reachable
      <3> QED
        BY <3>1, <3>2
    <2>7. \A a \in Running(u) : casts[a].val = truth[u] =>
            \/ \E i \in Running(u)' :
                  /\ casts'[i] = casts[a]
                  /\ \A d \in Watching' : d \in conns /\ Place(d) > casts[a].pos =>
                        d \in conns' /\ Place(d)' > casts[a].pos
            \/ /\ \A i \in Running(u)' : casts'[i].val = truth[u]
               /\ \A d \in Watching' : ~(d \in conns /\ Place(d) > casts[a].pos)
      BY <2>5, <2>6
    <2>8. \A d \in Watching' : d \in Watching /\ view'[d][u] = view[d][u]
      BY <1>4, <1>15
    <2> QED
      BY <1>2, <1>4, <1>11, <2>1, <2>4, <2>7, <2>8, Steady
  <1>17. \A u \in Topics : Orderly(u)'
    BY <1>16 DEF Orderly
  <1> QED
    BY <1>10, <1>11, <1>12, <1>13, <1>14, <1>17, Parts DEF Local

-----------------------------------------------------------------------------
(* The theorems.                                                           *)

\* Every step keeps the invariant.
LEMMA NextOK ==
  ASSUME IInv, [Next]_vars
  PROVE  IInv'
  <1>1. CASE Next
    BY <1>1, ConnectOK, SendInitialStateOK, CloseOK, DisconnectOK, ChangeOK, HandleEventOK,
       SendOK, FinishOK DEF Next, Broadcast
  <1>2. CASE UNCHANGED vars
    <2>1. /\ UNCHANGED <<truth, pending, phase, open, conns, scannerStatus, view, casts, shaken, unheard>>
          /\ End' = End /\ Watching' = Watching
          /\ \A t : Running(t)' = Running(t) /\ Latest(t)' = Latest(t)
          /\ \A b : Passed(b)' = Passed(b)
      BY <1>2 DEF vars, world, sockets, End, Watching, Running, Latest, Passed, Place
    <2>2. Local'
      <3>1. Local
        BY Parts
      <3>2. TypeOK' /\ Counted' /\ Connected' /\ NewsInOrder' /\ ScannerHeard'
        BY <2>1, <3>1 DEF Local, TypeOK, Counted, Connected, NewsInOrder, ScannerHeard
      <3>3. Walks'
        BY <2>1, <3>1 DEF Local, Walks, Latest
      <3> QED
        BY <3>2, <3>3 DEF Local
    <2>3. \A t \in Topics : Orderly(t)'
      <3>1. \A t \in Topics : Orderly(t)
        BY Parts
      <3> QED
        BY <2>1, <3>1 DEF Orderly, Within, OldFirst, Current
    <2> QED
      BY <2>2, <2>3, Parts
  <1> QED
    BY <1>1, <1>2

\* The inductive invariant holds in every reachable state.
THEOREM Inductive == Spec => []IInv
  BY InitOK, NextOK, PTL DEF Spec

\* Every variable has its type.  What a broadcast says is a version there has
\* been, although the number of events to be handled is subtracted from it.
THEOREM TypeCorrect == Spec => []TypeOK
  <1>1. IInv => TypeOK
    BY DEF IInv
  <1> QED
    BY <1>1, Inductive, PTL

\* No client is left with old news: whoever watches sees the truth, or an event
\* or a broadcast that brings it is on its way, but for the broadcasts that the
\* removal of a client or a newer broadcast has shaken, and the news of the
\* scanner that came when nobody was connected.
THEOREM NobodyIsStale == Spec => []NoStaleView
  <1>1. IInv => NoStaleView
    BY DEF IInv
  <1> QED
    BY <1>1, Inductive, PTL
=============================================================================
