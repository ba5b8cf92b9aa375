---------------------------- MODULE ClientProof ----------------------------
(***************************************************************************)
(* An inductive invariant of the partition clients of EventProcessor, the  *)
(* map they are in, their streams, links and checkpoints, for any number   *)
(* of processors, partitions and events.  What the runs check is not       *)
(* inductive: a stream must be known to end when it is polled after its    *)
(* last late event, an open client to be the one in the map or one about   *)
(* to be closed, and every position a client may start at, continue from   *)
(* or wait at to be covered by processed events, from the place where      *)
(* reading the partition began.                                            *)
(***************************************************************************)
EXTENDS EventProcessor, TLAPS

\* A processor whose run() has ended has no listing and nothing to claim.
DispatchInv ==
  /\ limit \in Limits /\ changes \in Nat
  /\ phase \in [Processors -> {"stopped", "idle", "claim", "closing", "adding", "crashed"}]
  /\ won   \in [Processors -> SUBSET Partitions]
  /\ todo  \in [Processors -> SUBSET Partitions]
  /\ view  \in [Processors -> Views]
  /\ fresh \in [Processors -> SUBSET Partitions]
  /\ owner \in Views
  /\ \A x \in Processors :
       phase[x] = "stopped" => view[x] = NoView /\ fresh[x] = {} /\ todo[x] = {}

\* The partitions of any set can be numbered, as InstallClients does.
Enumerable ==
  \A S \in SUBSET Partitions : Cardinality(S) \in Nat /\ ExistsBijection(1..Cardinality(S), S)

ClientRecords ==
  [proc : Processors, part : Partitions, start : Starts,
   state : {"queued", "held", "closing", "gone"}, closed : BOOLEAN, orphan : BOOLEAN,
   stream : {"check", "ensure", "wait", "yielded", "ended"},
   link : Nat, event : Nat, last : Nat, late : Nat]

LinkRecords == [part : Partitions, pos : Nat, up : BOOLEAN, by : Nat]

\* The events a client of p need not read: those processed, and those before the
\* position where reading the partition began.
past == [p \in Partitions |-> handled[p] \cup (1..base[p])]

\* What is known of the partitions: reading begins where it is configured to, or
\* at what was the end of the partition at some time.
LogInv ==
  /\ origin  \in [Partitions -> Starts]
  /\ base    \in [Partitions -> Nat]
  /\ tail    \in [Partitions -> Nat]
  /\ handled \in [Partitions -> SUBSET Nat]
  /\ \A p \in Partitions : origin[p] <= base[p] /\ base[p] <= tail[p]

\* The variables of this module have their types, and the links that cells and
\* waiting clients refer to exist.
ClientTypeOK ==
  /\ consumers  \in [Processors -> [Partitions -> Nat]]
  /\ toClose    \in [Processors -> SUBSET Nat]
  /\ listed     \in [Processors -> [Partitions -> Nat]]
  /\ client     \in Seq(ClientRecords)
  /\ cell       \in [Processors -> [Partitions -> Nat]]
  /\ link       \in Seq(LinkRecords)
  /\ checkpoint \in [Partitions -> Nat]
  /\ past       \in [Partitions -> SUBSET Nat]
  /\ \A x \in Processors, p \in Partitions : cell[x][p] # 0 => cell[x][p] \in Links
  /\ \A c \in Clients : client[c].state = "queued" => client[c].stream = "check"
  /\ \A c \in Clients : Reading(c, "wait") => client[c].link \in Links
  /\ \A c \in Clients : Reading(c, "yielded") => client[c].event # 0

\* A stream that has yielded an event after the flag was set ends when it is
\* polled again.
Late(c) ==
  client[c].late # 0 =>
    client[c].late = 1 /\ client[c].closed /\ client[c].stream \in {"yielded", "check", "ended"}

\* Nothing has told client c to stop reading.
Open(c) == Alive(c) /\ ~client[c].closed /\ ~client[c].orphan

\* What is to be closed in the dispatch of x: its own clients, out of the map,
\* one of a partition.
Revoked(x) ==
  /\ phase[x] # "closing" => toClose[x] = {}
  /\ \A c \in toClose[x] :
       /\ c \in Clients /\ client[c].proc = x
       /\ \A p \in Partitions : consumers[x][p] # c
       /\ \A d \in toClose[x] : client[d].part = client[c].part => d = c

\* An open client is the one in the map, or is about to be told to stop and has
\* no successor yet.
Placed(c) ==
  LET has == consumers[client[c].proc][client[c].part]
  IN  has = c \/ (has = 0 /\ c \in toClose[client[c].proc])

\* The events up to n have been processed, as far as they are to be read.
Covered(p, n) == 1..n \subseteq past[p]

\* Every position client c may start at or continue from is covered, and the
\* link it waits on is its own.
ClientRead(c) ==
  /\ Covered(client[c].part, client[c].start)
  /\ Covered(client[c].part, client[c].last)
  /\ Reading(c, "yielded") => Covered(client[c].part, client[c].event - 1)
  /\ Reading(c, "wait") /\ link[client[c].link].up =>
       LET l == client[c].link
       IN  link[l].by = c /\ link[l].part = client[c].part /\ Covered(link[l].part, link[l].pos)

\* The position of the link that x has for p is covered, but for the event its
\* client is processing.
CellRead(x, p) ==
  LET l == cell[x][p]
      c == link[l].by
  IN  l # 0 /\ link[l].up =>
        /\ link[l].part = p
        /\ c \in Clients /\ client[c].proc = x /\ client[c].part = p
        /\ Covered(p, link[l].pos) \/ (Reading(c, "yielded") /\ client[c].event = link[l].pos)

MapInv ==
  /\ MapHasOpenClients
  /\ \A x \in Processors : Revoked(x)
  /\ "stale_close" \notin mishaps => \A c \in Clients : Open(c) => Placed(c)

ReadInv ==
  /\ \A l \in Links : link[l].up => link[l].by # 0
  /\ "shared" \notin mishaps =>
       /\ \A p \in Partitions : Covered(p, checkpoint[p])
       /\ \A x \in Processors, p \in Partitions : Covered(p, listed[x][p]) /\ CellRead(x, p)
       /\ \A c \in Clients : ClientRead(c)

ClientInv == ClientTypeOK /\ (\A c \in Clients : Late(c)) /\ MapInv /\ ReadInv

-----------------------------------------------------------------------------
(* What most steps have in common.                                         *)

\* A function on 1..n is a sequence of length n.
LEMMA SeqOf ==
  ASSUME NEW S, NEW n \in Nat, NEW f \in [1..n -> S]
  PROVE  f \in Seq(S) /\ Len(f) = n /\ DOMAIN f = 1..n
OBVIOUS

\* The clients and the links are numbered from 1.
LEMMA Numbered ==
  ASSUME ClientTypeOK
  PROVE  /\ Len(client) \in Nat /\ Clients = 1..Len(client) /\ client \in [Clients -> ClientRecords]
         /\ Len(link) \in Nat /\ Links = 1..Len(link) /\ link \in [Links -> LinkRecords]
BY DEF ClientTypeOK, Clients, Links

\* What need not be read is the same when nothing is processed and no client
\* attaches at the end of a partition.
LEMMA PastKept ==
  ASSUME UNCHANGED <<handled, base>>
  PROVE  past' = past
BY DEF past

\* One client changes.
LEMMA SetClient ==
  ASSUME ClientTypeOK, NEW c \in Clients, NEW r \in ClientRecords,
         client' = [client EXCEPT ![c] = r]
  PROVE  /\ client' \in Seq(ClientRecords) /\ Clients' = Clients /\ client'[c] = r
         /\ \A d \in Clients : d # c => client'[d] = client[d]
PROOF
<1>1. /\ Len(client) \in Nat /\ Clients = 1..Len(client)
      /\ client \in [1..Len(client) -> ClientRecords]
  BY Numbered
<1>2. client' \in [1..Len(client) -> ClientRecords]
  BY <1>1
<1>3. client' \in Seq(ClientRecords) /\ Clients' = Clients
  BY <1>1, <1>2, SeqOf DEF Clients
<1> QED BY <1>1, <1>3

\* What the map has for a partition, and what it is to have after a step.
LEMMA Mapped ==
  ASSUME MapInv, NEW y \in Processors, NEW q \in Partitions, consumers[y][q] # 0
  PROVE  /\ consumers[y][q] \in Clients
         /\ client[consumers[y][q]].proc = y /\ client[consumers[y][q]].part = q
         /\ ~client[consumers[y][q]].closed /\ ~client[consumers[y][q]].orphan
BY DEF MapInv, MapHasOpenClients

LEMMA Remapped ==
  ASSUME \A y \in Processors, q \in Partitions : consumers'[y][q] # 0 =>
           \E has \in Clients' :
             /\ has = consumers'[y][q] /\ client'[has].proc = y /\ client'[has].part = q
             /\ ~client'[has].closed /\ ~client'[has].orphan
  PROVE  MapHasOpenClients'
BY DEF MapHasOpenClients

\* A client keeps its place when neither the map nor what is to be closed
\* changes for it.
LEMMA PlacedKept ==
  ASSUME NEW d \in Clients, Placed(d),
         client'[d].proc = client[d].proc, client'[d].part = client[d].part,
         consumers'[client[d].proc][client[d].part] = consumers[client[d].proc][client[d].part],
         toClose'[client[d].proc] = toClose[client[d].proc]
  PROVE  Placed(d)'
BY DEF Placed

LEMMA NoneBelow == 1..0 = {}
OBVIOUS

\* What is to be closed stays out of the map and of its owner.
LEMMA RevokedKept ==
  ASSUME ClientTypeOK, MapInv, NEW y \in Processors, Clients \subseteq Clients',
         phase'[y] # "closing" => toClose'[y] = {}, toClose'[y] \subseteq toClose[y],
         \A d \in Clients : client'[d].proc = client[d].proc /\ client'[d].part = client[d].part,
         \A q \in Partitions : consumers'[y][q] \in {0, consumers[y][q]} \/ consumers'[y][q] \notin Clients
  PROVE  Revoked(y)'
PROOF
<1>1. Revoked(y)
  BY DEF MapInv
<1>2. 0 \notin Clients
  BY Numbered
<1>3. ASSUME NEW d \in toClose'[y]
      PROVE  /\ d \in Clients' /\ client'[d].proc = y
             /\ \A q \in Partitions : consumers'[y][q] # d
             /\ \A e \in toClose'[y] : client'[e].part = client'[d].part => e = d
  <2>1. /\ d \in Clients /\ client[d].proc = y
        /\ \A q \in Partitions : consumers[y][q] # d
        /\ \A e \in toClose[y] : e \in Clients /\ (client[e].part = client[d].part => e = d)
    BY <1>1, Zenon DEF Revoked
  <2>2. \A q \in Partitions : consumers'[y][q] # d
    BY <1>2, <2>1, Zenon
  <2>3. \A e \in toClose'[y] : client'[e].part = client'[d].part => e = d
    BY <2>1, Zenon
  <2> QED BY <2>1, <2>2, <2>3, Zenon
<1> QED BY <1>3, Zenon DEF Revoked

\* The clients in the map and those to be closed stay what they are, as long as
\* nothing reopens a client or closes one in the map.
LEMMA MapKept ==
  ASSUME ClientTypeOK, MapInv, Clients' = Clients,
         \A d \in Clients : /\ client'[d].proc = client[d].proc /\ client'[d].part = client[d].part
                            /\ client'[d].closed => client[d].closed
                            /\ client'[d].orphan => client[d].orphan
                            /\ Open(d)' => Open(d),
         UNCHANGED <<consumers, toClose, phase>>,
         "stale_close" \in mishaps => "stale_close" \in mishaps'
  PROVE  MapInv'
PROOF
<1>1. MapHasOpenClients'
  BY DEF MapInv, MapHasOpenClients
<1>2. ASSUME NEW x \in Processors PROVE Revoked(x)'
  BY DEF MapInv, Revoked
<1>3. ASSUME NEW c \in Clients, "stale_close" \notin mishaps', Open(c)' PROVE Placed(c)'
  BY <1>3 DEF MapInv, Placed
<1> QED BY <1>1, <1>2, <1>3 DEF MapInv

\* What a client reads is the same in r and s.
SameReading(r, s) ==
  /\ r.part = s.part /\ r.start = s.start /\ r.last = s.last /\ r.event = s.event
  /\ r.state = s.state /\ r.stream = s.stream /\ r.link = s.link

\* The types of a client's link and event stand with what it reads.
LEMMA SameTyped ==
  ASSUME ClientTypeOK, NEW d \in Clients, SameReading(client'[d], client[d])
  PROVE  /\ client'[d].state = "queued" => client'[d].stream = "check"
         /\ Reading(d, "wait")' => client'[d].link \in Links
         /\ Reading(d, "yielded")' => client'[d].event # 0
PROOF
<1>1. /\ client'[d].state = client[d].state /\ client'[d].stream = client[d].stream
      /\ client'[d].link = client[d].link /\ client'[d].event = client[d].event
  BY Zenon DEF SameReading
<1>2. /\ client[d].state = "queued" => client[d].stream = "check"
      /\ Reading(d, "wait") => client[d].link \in Links
      /\ Reading(d, "yielded") => client[d].event # 0
  BY Zenon DEF ClientTypeOK
<1> QED BY <1>1, <1>2, Zenon DEF Reading

\* A client that goes on as before is as covered as before.
LEMMA ClientKept ==
  ASSUME ClientTypeOK, NEW c \in Clients, SameReading(client'[c], client[c]), ClientRead(c),
         \A p \in Partitions : past[p] \subseteq past'[p],
         \A l \in Links : Reading(c, "wait") /\ l = client[c].link =>
                           link'[l] = link[l] \/ ~link'[l].up
  PROVE  ClientRead(c)'
PROOF
<1>0. PICK r : r = client[c]
  OBVIOUS
<1>1. r \in ClientRecords
  BY <1>0, Numbered
<1>2. r.part \in Partitions /\ (Reading(c, "wait") => r.link \in Links)
  BY <1>0, <1>1, Zenon DEF ClientTypeOK, ClientRecords
<1>3. \A n : Covered(r.part, n) => 1..n \subseteq past'[r.part]
  BY <1>2 DEF Covered
<1>4. /\ Covered(r.part, r.start) /\ Covered(r.part, r.last)
      /\ Reading(c, "yielded") => Covered(r.part, r.event - 1)
      /\ Reading(c, "wait") /\ link[r.link].up =>
           link[r.link].by = c /\ link[r.link].part = r.part /\ Covered(r.part, link[r.link].pos)
  BY <1>0 DEF ClientRead
<1>5. Reading(c, "wait") /\ link'[r.link].up =>
        /\ link'[r.link].by = c /\ link'[r.link].part = r.part
        /\ 1..link'[r.link].pos \subseteq past'[r.part]
  BY <1>0, <1>2, <1>3, <1>4
<1>6. /\ 1..r.start \subseteq past'[r.part] /\ 1..r.last \subseteq past'[r.part]
      /\ Reading(c, "yielded") => 1..(r.event - 1) \subseteq past'[r.part]
  BY <1>3, <1>4
<1> QED BY <1>0, <1>5, <1>6 DEF ClientRead, Covered, Reading, SameReading

\* So does a cell that keeps its link, or loses it.
LEMMA CellKept ==
  ASSUME ClientTypeOK, NEW x \in Processors, NEW p \in Partitions, CellRead(x, p),
         cell'[x][p] \in {0, cell[x][p]},
         \A q \in Partitions : past[q] \subseteq past'[q],
         \A l \in Links : l = cell'[x][p] => link'[l] = link[l] \/ ~link'[l].up,
         \A c \in Clients : client[c].proc = x /\ cell'[x][p] # 0 =>
           /\ c \in Clients' /\ client'[c].proc = x /\ client'[c].part = client[c].part
           /\ Reading(c, "yielded") =>
                \/ Reading(c, "yielded")' /\ client'[c].event = client[c].event
                \/ 1..client[c].event \subseteq past'[client[c].part]
  PROVE  CellRead(x, p)'
PROOF
<1>0. PICK l, c : l = cell[x][p] /\ c = link[l].by
  OBVIOUS
<1>1. CASE cell'[x][p] # 0 /\ link'[cell'[x][p]].up
  <2>1. cell'[x][p] = l /\ l \in Links /\ link'[l] = link[l] /\ l # 0 /\ link[l].up
    BY <1>0, <1>1 DEF ClientTypeOK
  <2>2. /\ link[l].part = p
        /\ c \in Clients /\ client[c].proc = x /\ client[c].part = p
        /\ Covered(p, link[l].pos) \/ (Reading(c, "yielded") /\ client[c].event = link[l].pos)
    BY <1>0, <2>1 DEF CellRead
  <2>3. Covered(p, link[l].pos) => 1..link[l].pos \subseteq past'[p]
    BY DEF Covered
  <2>4. /\ c \in Clients' /\ client'[c].proc = x /\ client'[c].part = p
        /\ \/ 1..link[l].pos \subseteq past'[p]
           \/ Reading(c, "yielded")' /\ client'[c].event = link[l].pos
    BY <1>1, <2>2, <2>3
  <2>5. link'[cell'[x][p]] = link[l] /\ link[l].by = c
    BY <1>0, <2>1
  <2> QED BY <2>2, <2>4, <2>5 DEF CellRead, Covered, Reading
<1>2. CASE ~(cell'[x][p] # 0 /\ link'[cell'[x][p]].up)
  BY <1>2 DEF CellRead
<1> QED BY <1>1, <1>2

\* Client c becomes r and does not wait for an event; links may fail, cells may
\* be emptied, and events processed.
Moves(c, r) ==
  /\ client' = [client EXCEPT ![c] = r]
  /\ UNCHANGED <<toClose, phase, listed, checkpoint>>
  /\ "shared" \in mishaps => "shared" \in mishaps'
  /\ consumers' \in [Processors -> [Partitions -> Nat]]
  /\ cell' \in [Processors -> [Partitions -> Nat]]
  /\ \A x \in Processors, p \in Partitions : cell'[x][p] \in {0, cell[x][p]}
  /\ link' \in Seq(LinkRecords) /\ Links' = Links
  /\ \A l \in Links : link'[l] = link[l] \/ ~link'[l].up
  /\ past' \in [Partitions -> SUBSET Nat]
  /\ \A p \in Partitions : past[p] \subseteq past'[p]

\* r may take the place of client s.
Follows(r, s) ==
  /\ r \in ClientRecords /\ r.proc = s.proc /\ r.part = s.part
  /\ r.state = "queued" => r.stream = "check"
  /\ ~(r.state = "held" /\ r.stream = "wait")
  /\ r.late # 0 => r.late = 1 /\ r.closed /\ r.stream \in {"yielded", "check", "ended"}
  /\ r.closed => s.closed
  /\ r.orphan => s.orphan
  /\ r.state \in {"queued", "held"} =>
       s.state \in {"queued", "held"} /\ r.closed = s.closed /\ r.orphan = s.orphan
  /\ r.start \in {0, s.start}
  /\ ~(r.state = "held" /\ r.stream = "yielded")

LEMMA MovesRead ==
  ASSUME ClientInv, NEW c \in Clients, NEW r, Follows(r, client[c]), Moves(c, r),
         Reading(c, "yielded") => client[c].event \in past'[client[c].part],
         r.last \in {0, client[c].last} \/ (Reading(c, "yielded") /\ r.last = client[c].event)
  PROVE  /\ ClientTypeOK' /\ (\A d \in Clients : Late(d)') /\ ReadInv'
         /\ Clients' = Clients /\ client'[c] = r
         /\ \A d \in Clients : d # c => client'[d] = client[d]
PROOF
<1>0. ClientTypeOK /\ MapInv /\ ReadInv /\ (\A d \in Clients : Late(d))
  BY DEF ClientInv
<1>1. /\ client' \in Seq(ClientRecords) /\ Clients' = Clients /\ client'[c] = r
      /\ \A d \in Clients : d # c => client'[d] = client[d]
  BY <1>0, SetClient, Zenon DEF Moves, Follows
<1>2. client[c] \in ClientRecords /\ client[c].part \in Partitions /\ client[c].event \in Nat
  BY <1>0, Numbered DEF ClientRecords
<1>3. ClientTypeOK'
  <2>1. ASSUME NEW d \in Clients
        PROVE  /\ client'[d].state = "queued" => client'[d].stream = "check"
               /\ Reading(d, "wait")' => client'[d].link \in Links
               /\ Reading(d, "yielded")' => client'[d].event # 0
    <3>1. CASE d = c
      BY <1>1, <3>1 DEF Follows, Reading
    <3>2. CASE d # c
      BY <1>0, <1>1, <3>2 DEF ClientTypeOK, Reading
    <3> QED BY <3>1, <3>2
  <2>2. ASSUME NEW x \in Processors, NEW p \in Partitions, cell'[x][p] # 0
        PROVE  cell'[x][p] \in Links
    BY <1>0, <2>2 DEF ClientTypeOK, Moves
  <2> QED BY <1>0, <1>1, <2>1, <2>2 DEF ClientTypeOK, Moves
<1>4. ASSUME NEW d \in Clients PROVE Late(d)'
  BY <1>0, <1>1 DEF Late, Follows
<1>5. ReadInv'
  <2>1. ASSUME NEW l \in Links, link'[l].up PROVE link'[l].by # 0
    BY <1>0, <2>1 DEF ReadInv, Moves
  <2> SUFFICES ASSUME "shared" \notin mishaps'
               PROVE  /\ \A p \in Partitions : Covered(p, checkpoint[p])'
                      /\ \A x \in Processors, p \in Partitions :
                           Covered(p, listed[x][p])' /\ CellRead(x, p)'
                      /\ \A d \in Clients : ClientRead(d)'
    BY <1>1, <2>1 DEF ReadInv, Moves
  <2>2. /\ \A p \in Partitions : Covered(p, checkpoint[p])
        /\ \A x \in Processors, p \in Partitions : Covered(p, listed[x][p]) /\ CellRead(x, p)
        /\ \A d \in Clients : ClientRead(d)
    BY <1>0 DEF ReadInv, Moves
  <2>3. /\ \A p \in Partitions : past[p] \subseteq past'[p]
        /\ \A l \in Links : link'[l] = link[l] \/ ~link'[l].up
        /\ UNCHANGED <<listed, checkpoint>>
    BY DEF Moves
  <2>4. /\ \A p \in Partitions : Covered(p, checkpoint[p])'
        /\ \A x \in Processors, p \in Partitions : Covered(p, listed[x][p])'
    BY <2>2, <2>3 DEF Covered
  <2>5. Reading(c, "yielded") =>
          1..client[c].event \subseteq past'[client[c].part]
    <3>1. Reading(c, "yielded") => Covered(client[c].part, client[c].event - 1)
      BY <2>2 DEF ClientRead
    <3>2. Reading(c, "yielded") => 1..(client[c].event - 1) \subseteq past'[client[c].part]
      BY <1>2, <2>3, <3>1 DEF Covered
    <3>3. \A i \in 1..client[c].event : i \in 1..(client[c].event - 1) \/ i = client[c].event
      BY <1>2
    <3> QED BY <3>2, <3>3
  <2>6. ASSUME NEW x \in Processors, NEW p \in Partitions PROVE CellRead(x, p)'
    <3>1. cell'[x][p] \in {0, cell[x][p]}
      BY DEF Moves
    <3>2. ASSUME NEW d \in Clients, client[d].proc = x
          PROVE  /\ d \in Clients' /\ client'[d].proc = x /\ client'[d].part = client[d].part
                 /\ Reading(d, "yielded") =>
                      \/ Reading(d, "yielded")' /\ client'[d].event = client[d].event
                      \/ 1..client[d].event \subseteq past'[client[d].part]
      BY <1>1, <2>5, <3>2 DEF Follows, Reading
    <3> QED BY <1>0, <2>2, <2>3, <3>1, <3>2, CellKept
  <2>7. ASSUME NEW d \in Clients PROVE ClientRead(d)'
    <3>1. CASE d # c
      BY <1>0, <1>1, <2>2, <2>3, <3>1, ClientKept DEF SameReading
    <3>2. CASE d = c
      <4>1. 1..client[c].start \subseteq past'[r.part] /\ 1..client[c].last \subseteq past'[r.part]
        BY <1>2, <2>2, <2>3 DEF ClientRead, Covered, Follows
      <4>2. 1..r.start \subseteq past'[r.part] /\ 1..r.last \subseteq past'[r.part]
        <5>1. 1..0 = {}
          BY NoneBelow, Zenon
        <5> QED BY <2>5, <4>1, <5>1 DEF Follows
      <4>3. ~(r.state = "held" /\ r.stream = "wait") /\ ~(r.state = "held" /\ r.stream = "yielded")
        BY DEF Follows
      <4> QED BY <1>1, <3>2, <4>2, <4>3 DEF ClientRead, Reading, Covered
    <3> QED BY <3>1, <3>2
  <2> QED BY <2>4, <2>6, <2>7
<1> QED BY <1>1, <1>3, <1>4, <1>5

\* If it leaves the map alone, the client does not become another in it.
LEMMA MovesStep ==
  ASSUME ClientInv, NEW c \in Clients, NEW r, Follows(r, client[c]), Moves(c, r),
         Reading(c, "yielded") => client[c].event \in past'[client[c].part],
         r.last \in {0, client[c].last} \/ (Reading(c, "yielded") /\ r.last = client[c].event),
         UNCHANGED <<consumers, mishaps>>
  PROVE  ClientInv'
PROOF
<1>1. /\ ClientTypeOK' /\ (\A d \in Clients : Late(d)') /\ ReadInv'
      /\ Clients' = Clients /\ client'[c] = r
      /\ \A d \in Clients : d # c => client'[d] = client[d]
  BY MovesRead
<1>2. ASSUME NEW d \in Clients
      PROVE  /\ client'[d].proc = client[d].proc /\ client'[d].part = client[d].part
             /\ client'[d].closed => client[d].closed
             /\ client'[d].orphan => client[d].orphan
             /\ Open(d)' => Open(d)
  BY <1>1 DEF Follows, Open, Alive
<1>3. MapInv'
  BY <1>1, <1>2, MapKept DEF ClientInv, Moves
<1> QED BY <1>1, <1>3 DEF ClientInv

\* Failed links.
LEMMA Disconnected ==
  ASSUME ClientTypeOK, NEW S
  PROVE  LET new == Disconnect(S)
         IN  /\ new \in Seq(LinkRecords) /\ DOMAIN new = Links /\ Len(new) = Len(link)
             /\ \A l \in Links : /\ new[l] = link[l] \/ ~new[l].up
                                 /\ l \in S => ~new[l].up
PROOF
<1> DEFINE new == Disconnect(S)
<1>1. Len(link) \in Nat /\ Links = 1..Len(link) /\ link \in [Links -> LinkRecords]
  BY Numbered
<1>2. new = [l \in Links |-> IF l \in S THEN [link[l] EXCEPT !.up = FALSE, !.pos = 0, !.by = 0]
                             ELSE link[l]]
  BY DEF Disconnect
<1>3. ASSUME NEW l \in Links
      PROVE  [link[l] EXCEPT !.up = FALSE, !.pos = 0, !.by = 0] \in LinkRecords
  BY <1>1, Zenon DEF LinkRecords
<1>4. ASSUME NEW l \in Links
      PROVE  /\ new[l] = link[l] \/ ~new[l].up
             /\ l \in S => ~new[l].up
  BY <1>1, <1>2, Zenon DEF LinkRecords
<1>5. new \in [1..Len(link) -> LinkRecords]
  BY <1>1, <1>2, <1>3, Zenon
<1> HIDE DEF new
<1>6. new \in Seq(LinkRecords) /\ Len(new) = Len(link) /\ DOMAIN new = Links
  BY <1>1, <1>5, SeqOf
<1> QED BY <1>4, <1>6 DEF new

\* A discarded client may take the place of any that is not processing an event.
LEMMA DiscardFollows ==
  ASSUME NEW s \in ClientRecords
  PROVE  /\ Follows(Discard(s), s) /\ Discard(s) \in ClientRecords
         /\ Discard(s).proc = s.proc /\ Discard(s).part = s.part /\ Discard(s).state = "gone"
         /\ Discard(s).start = 0 /\ Discard(s).last = 0 /\ Discard(s).late = 0
<1>1. 0 \in Starts
  BY DEF Starts
<1> QED BY <1>1, Zenon DEF ClientRecords, Discard, Follows

\* A step that changes nothing else.
LEMMA OnlyMoves ==
  ASSUME ClientTypeOK, NEW c, NEW r, client' = [client EXCEPT ![c] = r],
         UNCHANGED <<ownershipVars, dispatchVars, cell, link, storedVars>>
  PROVE  Moves(c, r) /\ UNCHANGED <<consumers, mishaps>>
<1>1. past' = past
  BY PastKept DEF storedVars
<1> QED
  BY <1>1 DEF Moves, ClientTypeOK, ownershipVars, cycleVars, dispatchVars, mapVars, storedVars, Links

\* The steps of a client that concern no link but by giving it up.
LEMMA QuietSteps ==
  ASSUME ClientInv, LogInv, NEW c \in Clients,
         \/ NextPartitionClient(c) \/ CheckClosed(c) \/ StreamFails(c)
         \/ Handle(c) \/ Drop(c) \/ Close(c) \/ CloseFails(c) \/ Reconnect(c)
  PROVE  ClientInv'
PROOF
<1> DEFINE s == client[c]
<1>1. ClientTypeOK /\ Late(c) /\ s \in ClientRecords /\ c \in DOMAIN client
  BY Numbered DEF ClientInv, Clients
<1>2. /\ s.state = "queued" => s.stream = "check"
      /\ Reading(c, "yielded") => s.event # 0
  BY <1>1 DEF ClientTypeOK
<1>3. CASE NextPartitionClient(c)
  <2> DEFINE r == [s EXCEPT !.state = "held"]
  <2>1. client' = [client EXCEPT ![c] = r] /\ s.state = "queued"
    BY <1>3 DEF NextPartitionClient
  <2>2. Follows(r, s) /\ r.last = s.last /\ ~Reading(c, "yielded")
    BY <1>1, <1>2, <2>1 DEF ClientRecords, Follows, Late, Reading
  <2>3. Moves(c, r) /\ UNCHANGED <<consumers, mishaps>>
    BY <1>1, <1>3, <2>1, OnlyMoves, Zenon DEF NextPartitionClient
  <2> HIDE DEF r
  <2> QED BY <2>2, <2>3, MovesStep
<1>4. CASE CheckClosed(c)
  <2> DEFINE r == [s EXCEPT !.stream = IF s.closed THEN "ended" ELSE "ensure"]
  <2>1. client' = [client EXCEPT ![c] = r] /\ Reading(c, "check")
    BY <1>4 DEF CheckClosed
  <2>2. Follows(r, s) /\ r.last = s.last /\ ~Reading(c, "yielded")
    BY <1>1, <2>1 DEF ClientRecords, Follows, Late, Reading
  <2>3. Moves(c, r) /\ UNCHANGED <<consumers, mishaps>>
    BY <1>1, <1>4, <2>1, OnlyMoves, Zenon DEF CheckClosed
  <2> HIDE DEF r
  <2> QED BY <2>2, <2>3, MovesStep
<1>5. CASE StreamFails(c)
  <2> DEFINE r == [s EXCEPT !.stream = "ended", !.link = 0]
  <2>1. client' = [client EXCEPT ![c] = r] /\ (Reading(c, "wait") \/ Reading(c, "ensure"))
    BY <1>5, Zenon DEF StreamFails
  <2>2. Follows(r, s) /\ r.last = s.last /\ ~Reading(c, "yielded")
    BY <1>1, <2>1, Zenon DEF ClientRecords, Follows, Late, Reading
  <2>3. Moves(c, r) /\ UNCHANGED <<consumers, mishaps>>
    BY <1>1, <1>5, <2>1, OnlyMoves, Zenon DEF StreamFails
  <2> HIDE DEF r
  <2> QED BY <2>2, <2>3, MovesStep
<1>6. CASE Handle(c)
  <2> DEFINE r == [s EXCEPT !.last = s.event, !.event = 0, !.stream = "check"]
  <2>1. client' = [client EXCEPT ![c] = r] /\ Reading(c, "yielded")
    BY <1>6, Zenon DEF Handle
  <2>2. Follows(r, s) /\ r.last = s.event
    BY <1>1, <2>1, Zenon DEF ClientRecords, Follows, Late, Reading
  <2>3. s.event \in Nat /\ s.part \in Partitions
    BY <1>1 DEF ClientRecords
  <2>4. /\ past' \in [Partitions -> SUBSET Nat]
        /\ \A p \in Partitions : past[p] \subseteq past'[p]
        /\ s.event \in past'[s.part]
    <3>1. base' = base /\ handled' = [handled EXCEPT ![s.part] = @ \cup {s.event}]
      BY <1>1, <1>6 DEF Handle
    <3>2. /\ handled' \in [Partitions -> SUBSET Nat] /\ base \in [Partitions -> Nat]
          /\ \A p \in Partitions : handled[p] \subseteq handled'[p]
          /\ s.event \in handled'[s.part]
      BY <2>3, <3>1 DEF LogInv
    <3> QED BY <2>3, <3>1, <3>2 DEF past
  <2>5. Moves(c, r) /\ UNCHANGED <<consumers, mishaps>>
    BY <1>1, <1>6, <2>1, <2>4, Zenon
    DEF Handle, Moves, ClientTypeOK, ownershipVars, cycleVars, dispatchVars, mapVars, Links
  <2> HIDE DEF r
  <2> QED BY <2>1, <2>2, <2>4, <2>5, MovesStep
<1>7. CASE Drop(c) \/ CloseFails(c)
  <2>1. client' = [client EXCEPT ![c] = Discard(s)] /\ ~Reading(c, "yielded")
    BY <1>7 DEF Drop, CloseFails, Reading
  <2>2. Moves(c, Discard(s)) /\ UNCHANGED <<consumers, mishaps>>
    BY <1>1, <1>7, <2>1, OnlyMoves, Zenon DEF Drop, CloseFails
  <2> QED BY <1>1, <2>1, <2>2, DiscardFollows, MovesStep
<1>8. CASE Close(c)
  <2> DEFINE r == [s EXCEPT !.state = "closing", !.link = 0]
  <2>1. client' = [client EXCEPT ![c] = r] /\ s.state = "held" /\ ~Reading(c, "yielded")
    BY <1>2, <1>8, Zenon DEF Close
  <2>2. Follows(r, s) /\ r.last = s.last
    BY <1>1, <2>1, Zenon DEF ClientRecords, Follows, Late
  <2>3. s.proc \in Processors /\ s.part \in Partitions
    BY <1>1 DEF ClientRecords
  <2>4. /\ cell' \in [Processors -> [Partitions -> Nat]]
        /\ \A x \in Processors, p \in Partitions : cell'[x][p] \in {0, cell[x][p]}
    BY <1>1, <1>8, <2>3 DEF Close, ClientTypeOK
  <2>p. past' = past
    BY <1>8, PastKept DEF Close, storedVars
  <2>5. Moves(c, r) /\ UNCHANGED <<consumers, mishaps>>
    BY <1>1, <1>8, <2>1, <2>4, <2>p, Zenon
    DEF Close, Moves, ClientTypeOK, ownershipVars, cycleVars, dispatchVars, mapVars, storedVars, Links
  <2> HIDE DEF r
  <2> QED BY <2>1, <2>2, <2>5, MovesStep
<1>9. CASE Reconnect(c)
  <2> DEFINE r == [s EXCEPT !.stream = "ensure", !.link = 0]
  <2>1. client' = [client EXCEPT ![c] = r] /\ Reading(c, "wait")
    BY <1>9, Zenon DEF Reconnect
  <2>2. Follows(r, s) /\ r.last = s.last /\ ~Reading(c, "yielded")
    BY <1>1, <2>1, Zenon DEF ClientRecords, Follows, Late, Reading
  <2>3. s.proc \in Processors
    BY <1>1 DEF ClientRecords
  <2>4. /\ cell' \in [Processors -> [Partitions -> Nat]]
        /\ \A x \in Processors, p \in Partitions : cell'[x][p] \in {0, cell[x][p]}
    BY <1>1, <1>9, <2>3 DEF Reconnect, ClientTypeOK, NoClients
  <2>5. /\ link' \in Seq(LinkRecords) /\ Links' = Links
        /\ \A l \in Links : link'[l] = link[l] \/ ~link'[l].up
    BY <1>1, <1>9, Disconnected DEF Reconnect, Links
  <2>p. past' = past
    BY <1>9, PastKept DEF Reconnect, storedVars
  <2>6. Moves(c, r) /\ UNCHANGED <<consumers, mishaps>>
    BY <1>1, <1>9, <2>1, <2>4, <2>5, <2>p, Zenon
    DEF Reconnect, Moves, ClientTypeOK, ownershipVars, cycleVars, dispatchVars, mapVars, storedVars
  <2> HIDE DEF r
  <2> QED BY <2>2, <2>6, MovesStep
<1> QED BY <1>3, <1>4, <1>5, <1>6, <1>7, <1>8, <1>9

\* The stream yields the next event of its link, which is nobody else's.
LEMMA ReceiveStep ==
  ASSUME ClientInv, NEW c \in Clients, Receive(c)
  PROVE  ClientInv'
PROOF
<1>0. ClientTypeOK /\ MapInv /\ ReadInv /\ (\A d \in Clients : Late(d))
  BY DEF ClientInv
<1>1. PICK l, s : l = client[c].link /\ s = client[c]
  OBVIOUS
<1>2. s \in ClientRecords /\ l \in Links /\ link[l] \in LinkRecords /\ link \in [Links -> LinkRecords]
  BY <1>0, <1>1, Numbered DEF Receive, ClientTypeOK
<1>3. Reading(c, "wait") /\ s.state = "held" /\ s.stream = "wait" /\ link[l].up /\ s.late = 0
  BY <1>0, <1>1 DEF Receive, Reading, Late
<1> DEFINE n == link[l].pos + 1
           late == IF s.closed THEN s.late + 1 ELSE s.late
           r == [s EXCEPT !.event = n, !.stream = "yielded", !.link = 0, !.late = late]
           m == [link[l] EXCEPT !.pos = n]
<1>4. n \in Nat /\ n # 0 /\ n - 1 = link[l].pos
  BY <1>2 DEF LinkRecords
<1>5. client' = [client EXCEPT ![c] = r] /\ link' = [link EXCEPT ![l] = m]
  BY <1>1, <1>2, <1>0, Numbered, Zenon DEF Receive
<1>6. UNCHANGED <<phase, consumers, toClose, listed, cell, checkpoint, past, mishaps>>
  BY PastKept DEF Receive, ownershipVars, cycleVars, dispatchVars, mapVars, storedVars
<1>l. late \in {0, 1} /\ (late # 0 => s.closed)
  BY <1>3
<1> HIDE DEF n, late
<1>7. /\ m \in LinkRecords /\ m.pos = n /\ m.up /\ m.by = link[l].by /\ m.part = link[l].part
  BY <1>2, <1>3, <1>4 DEF LinkRecords
<1>r. r \in ClientRecords
  <2>1. late \in Nat
    BY <1>l
  <2> QED BY <1>2, <1>4, <2>1, Zenon DEF ClientRecords
<1>8. /\ r.proc = s.proc /\ r.part = s.part /\ r.state = "held" /\ r.closed = s.closed
      /\ r.orphan = s.orphan /\ r.stream = "yielded" /\ r.event = n
      /\ r.start = s.start /\ r.last = s.last
      /\ r.late # 0 => r.late = 1 /\ r.closed
  BY <1>2, <1>3, <1>l DEF ClientRecords
<1> HIDE DEF r, m
<1>9. /\ client' \in Seq(ClientRecords) /\ Clients' = Clients /\ client'[c] = r
      /\ \A d \in Clients : d # c => client'[d] = client[d]
  BY <1>0, <1>5, <1>r, SetClient, Zenon
<1>10. /\ link' \in Seq(LinkRecords) /\ Links' = Links /\ link'[l] = m
       /\ \A k \in Links : k # l => link'[k] = link[k]
  <2>1. Len(link) \in Nat /\ Links = 1..Len(link)
    BY <1>0, Numbered
  <2>2. link' \in [1..Len(link) -> LinkRecords]
    BY <1>2, <1>5, <1>7, <2>1
  <2>3. link' \in Seq(LinkRecords) /\ Links' = Links
    BY <2>1, <2>2, SeqOf DEF Links
  <2> QED BY <1>2, <1>5, <2>3
<1>11. ClientTypeOK'
  <2>1. ASSUME NEW d \in Clients
        PROVE  /\ client'[d].state = "queued" => client'[d].stream = "check"
               /\ Reading(d, "wait")' => client'[d].link \in Links
               /\ Reading(d, "yielded")' => client'[d].event # 0
    <3>1. CASE d = c
      BY <1>4, <1>8, <1>9, <3>1 DEF Reading
    <3>2. CASE d # c
      BY <1>0, <1>9, <3>2, Zenon DEF ClientTypeOK, Reading
    <3> QED BY <3>1, <3>2
  <2> QED BY <1>0, <1>6, <1>9, <1>10, <2>1 DEF ClientTypeOK
<1>12. ASSUME NEW d \in Clients PROVE Late(d)'
  BY <1>0, <1>8, <1>9 DEF Late
<1>13. MapInv'
  <2>1. ASSUME NEW d \in Clients
        PROVE  /\ client'[d].proc = client[d].proc /\ client'[d].part = client[d].part
               /\ client'[d].closed => client[d].closed
               /\ client'[d].orphan => client[d].orphan
               /\ Open(d)' => Open(d)
    BY <1>1, <1>3, <1>8, <1>9 DEF Open, Alive
  <2> QED BY <1>0, <1>6, <1>9, <2>1, MapKept
<1>14. ReadInv'
  <2>1. ASSUME NEW k \in Links, link'[k].up PROVE link'[k].by # 0
    BY <1>0, <1>3, <1>7, <1>10, <2>1 DEF ReadInv
  <2>2. ASSUME "shared" \notin mishaps
        PROVE  /\ \A p \in Partitions : Covered(p, checkpoint[p])'
               /\ \A x \in Processors, p \in Partitions : Covered(p, listed[x][p])' /\ CellRead(x, p)'
               /\ \A d \in Clients : ClientRead(d)'
    <3>1. /\ \A p \in Partitions : Covered(p, checkpoint[p])
          /\ \A x \in Processors, p \in Partitions : Covered(p, listed[x][p]) /\ CellRead(x, p)
          /\ \A d \in Clients : ClientRead(d)
      BY <1>0, <2>2 DEF ReadInv
    <3>2. /\ \A p \in Partitions : Covered(p, checkpoint[p])'
          /\ \A x \in Processors, p \in Partitions : Covered(p, listed[x][p])'
      BY <1>6, <3>1 DEF Covered
    <3>3. /\ link[l].by = c /\ link[l].part = s.part /\ 1..link[l].pos \subseteq past[s.part]
          /\ 1..s.start \subseteq past[s.part] /\ 1..s.last \subseteq past[s.part]
      BY <1>1, <1>3, <3>1 DEF ClientRead, Covered
    <3>4. ASSUME NEW d \in Clients PROVE ClientRead(d)'
      <4>1. CASE d = c
        BY <1>4, <1>6, <1>8, <1>9, <3>3, <4>1 DEF ClientRead, Covered, Reading
      <4>2. CASE d # c
        <5>1. Reading(d, "wait") => client[d].link # l
          BY <1>3, <3>1, <3>3, <4>2 DEF ClientRead
        <5> QED BY <1>0, <1>6, <1>9, <1>10, <3>1, <4>2, <5>1, ClientKept DEF SameReading
      <4> QED BY <4>1, <4>2
    <3>5. ASSUME NEW x \in Processors, NEW p \in Partitions PROVE CellRead(x, p)'
      <4>1. CASE cell[x][p] = l /\ l # 0
        <5>1. link[l].part = p /\ client[c].proc = x /\ client[c].part = p
          BY <1>3, <3>1, <3>3, <4>1 DEF CellRead
        <5>2. cell'[x][p] = l /\ link'[l].part = p /\ link'[l].by = c /\ link'[l].pos = n
          BY <1>6, <1>7, <1>10, <3>3, <4>1, <5>1
        <5>3. /\ c \in Clients' /\ client'[c].proc = x /\ client'[c].part = p
              /\ client'[c].state = "held" /\ client'[c].stream = "yielded" /\ client'[c].event = n
          BY <1>1, <1>8, <1>9, <5>1
        <5> QED BY <5>2, <5>3 DEF CellRead, Reading
      <4>2. CASE cell[x][p] # l \/ l = 0
        <5>1. ASSUME NEW d \in Clients, client[d].proc = x
              PROVE  /\ d \in Clients' /\ client'[d].proc = x /\ client'[d].part = client[d].part
                     /\ Reading(d, "yielded") =>
                          Reading(d, "yielded")' /\ client'[d].event = client[d].event
          BY <1>1, <1>3, <1>8, <1>9, <5>1 DEF Reading
        <5>2. \A k \in Links : k = cell'[x][p] => link'[k] = link[k]
          BY <1>0, <1>6, <1>10, <4>2, Numbered
        <5>3. /\ cell'[x][p] \in {0, cell[x][p]} /\ CellRead(x, p)
              /\ \A q \in Partitions : past[q] \subseteq past'[q]
              /\ \A k \in Links : k = cell'[x][p] => link'[k] = link[k] \/ ~link'[k].up
          BY <1>6, <3>1, <5>2
        <5>4. \A d \in Clients : client[d].proc = x /\ cell'[x][p] # 0 =>
                /\ d \in Clients' /\ client'[d].proc = x /\ client'[d].part = client[d].part
                /\ Reading(d, "yielded") =>
                     \/ Reading(d, "yielded")' /\ client'[d].event = client[d].event
                     \/ 1..client[d].event \subseteq past'[client[d].part]
          BY <5>1, Zenon
        <5> QED BY <1>0, <5>3, <5>4, CellKept, Zenon
      <4> QED BY <4>1, <4>2
    <3> QED BY <3>2, <3>4, <3>5
  <2> QED BY <1>6, <1>9, <1>10, <2>1, <2>2 DEF ReadInv
<1> QED BY <1>9, <1>11, <1>12, <1>13, <1>14 DEF ClientInv

\* A new link is at the position its client starts at, or where reading the
\* partition then begins.
LEMMA Attached ==
  ASSUME LogInv, NEW c, client[c].part \in Partitions, client[c].start \in Starts, Attach(c)
  PROVE  /\ base' \in [Partitions -> Nat] /\ tail' \in [Partitions -> Nat]
         /\ \A p \in Partitions : base[p] <= base'[p] /\ base'[p] <= tail'[p]
         /\ \E pos \in Nat :
              /\ link' = Append(Disconnect({l \in Links : link[l].part = client[c].part}),
                               [part |-> client[c].part, pos |-> pos, up |-> TRUE, by |-> c])
              /\ pos = client[c].start \/ pos = base'[client[c].part]
PROOF
<1> DEFINE p == client[c].part
           latest == client[c].start = Latest
<1>1. PICK pos \in IF latest THEN tail[p]..limit.events ELSE {client[c].start} :
        /\ link' = Append(Disconnect({l \in Links : link[l].part = p}),
                         [part |-> p, pos |-> pos, up |-> TRUE, by |-> c])
        /\ tail' = IF latest THEN [tail EXCEPT ![p] = pos] ELSE tail
        /\ base' = IF latest THEN [base EXCEPT ![p] = pos] ELSE base
  BY DEF Attach
<1>2. pos \in Nat /\ (latest => tail[p] <= pos)
  BY <1>1 DEF LogInv, Starts, Latest
<1>3. CASE latest
  <2>1. base' = [base EXCEPT ![p] = pos] /\ tail' = [tail EXCEPT ![p] = pos]
    BY <1>1, <1>3
  <2>2. /\ base' \in [Partitions -> Nat] /\ tail' \in [Partitions -> Nat]
        /\ \A q \in Partitions : base[q] <= base'[q] /\ base'[q] <= tail'[q]
        /\ pos = base'[p]
    BY <1>2, <1>3, <2>1 DEF LogInv
  <2> QED BY <1>1, <1>2, <2>2, Zenon
<1>4. CASE ~latest
  <2>1. base' = base /\ tail' = tail /\ pos = client[c].start
    BY <1>1, <1>4
  <2>2. /\ base' \in [Partitions -> Nat] /\ tail' \in [Partitions -> Nat]
        /\ \A q \in Partitions : base[q] <= base'[q] /\ base'[q] <= tail'[q]
    BY <2>1 DEF LogInv
  <2> QED BY <1>1, <1>2, <2>1, <2>2, Zenon
<1> QED BY <1>3, <1>4

\* What need not be read only grows when reading begins later.
LEMMA PastGrows ==
  ASSUME LogInv, handled' = handled, base' \in [Partitions -> Nat],
         \A p \in Partitions : base[p] <= base'[p]
  PROVE  /\ past' \in [Partitions -> SUBSET Nat]
         /\ \A p \in Partitions : past[p] \subseteq past'[p] /\ 1..base'[p] \subseteq past'[p]
PROOF
<1>1. ASSUME NEW p \in Partitions
      PROVE  /\ handled[p] \cup (1..base[p]) \subseteq handled[p] \cup (1..base'[p])
             /\ handled[p] \cup (1..base'[p]) \in SUBSET Nat
  BY DEF LogInv
<1>2. \A p \in Partitions :
        past[p] = handled[p] \cup (1..base[p]) /\ past'[p] = handled[p] \cup (1..base'[p])
  BY DEF past
<1>3. past' = [p \in Partitions |-> past'[p]]
  BY DEF past
<1> QED BY <1>1, <1>2, <1>3

\* What ensure_receiver leaves in the cell: k, either the link that was there or
\* a new one of the client's own.
LEMMA EnsuredLink ==
  ASSUME ClientInv, LogInv, NEW c \in Clients, EnsureReceiver(c)
  PROVE  \E k \in Nat \ {0} :
           /\ link' \in Seq(LinkRecords) /\ Links \subseteq Links' /\ k \in Links'
           /\ \A l \in Links : link'[l] = link[l] \/ ~link'[l].up
           /\ \A l \in Links' : link'[l].up => link'[l].by # 0
           /\ cell' = [cell EXCEPT ![client[c].proc][client[c].part] = k]
           /\ client' = [client EXCEPT ![c].stream = "wait", ![c].link = k]
           /\ "shared" \notin mishaps' /\ link'[k].up =>
                /\ link'[k].by = c /\ link'[k].part = client[c].part
                /\ 1..link'[k].pos \subseteq past'[client[c].part]
           /\ past' \in [Partitions -> SUBSET Nat]
           /\ \A q \in Partitions : past[q] \subseteq past'[q]
PROOF
<1> DEFINE x == client[c].proc
           p == client[c].part
<1>0. ClientTypeOK /\ ReadInv /\ Reading(c, "ensure")
  BY DEF ClientInv, EnsureReceiver
<1>1. /\ x \in Processors /\ p \in Partitions /\ client[c].start \in Starts
      /\ c \in Nat \ {0} /\ cell[x][p] \in Nat
      /\ Len(link) \in Nat /\ Links = 1..Len(link) /\ link \in [Links -> LinkRecords]
      /\ link \in Seq(LinkRecords)
  <2>1. client[c] \in ClientRecords /\ c \in Nat \ {0}
    BY <1>0, Numbered
  <2>2. x \in Processors /\ p \in Partitions /\ client[c].start \in Starts
    BY <2>1 DEF ClientRecords
  <2>3. cell[x][p] \in Nat /\ link \in Seq(LinkRecords)
    BY <1>0, <2>2 DEF ClientTypeOK
  <2> QED BY <1>0, <2>1, <2>2, <2>3, Numbered
<1>2. CASE cell[x][p] # 0
  <2>1. cell[x][p] \in Links
    BY <1>0, <1>1, <1>2 DEF ClientTypeOK
  <2>2. /\ link' = link /\ cell' = cell /\ past' = past
        /\ client' = [client EXCEPT ![c].stream = "wait", ![c].link = cell[x][p]]
        /\ mishaps' = IF link[cell[x][p]].by \notin {0, c} THEN mishaps \cup {"shared"} ELSE mishaps
    BY <1>2, PastKept DEF EnsureReceiver
  <2>3. cell' = [cell EXCEPT ![x][p] = cell[x][p]]
    BY <1>0, <1>1, <2>2, Zenon DEF ClientTypeOK
  <2>4. \A l \in Links : link[l].up => link[l].by # 0
    BY <1>0 DEF ReadInv
  <2>5. ASSUME "shared" \notin mishaps', link[cell[x][p]].up
        PROVE  /\ link[cell[x][p]].by = c /\ link[cell[x][p]].part = p
               /\ Covered(p, link[cell[x][p]].pos)
    <3>1. link[cell[x][p]].by = c /\ "shared" \notin mishaps
      BY <2>1, <2>2, <2>4, <2>5, Zenon
    <3>2. CellRead(x, p)
      BY <1>0, <1>1, <3>1 DEF ReadInv
    <3>3. ~Reading(c, "yielded")
      BY <1>0 DEF Reading
    <3> QED BY <1>2, <2>5, <3>1, <3>2, <3>3, Zenon DEF CellRead
  <2>6. Links' = Links
    BY <2>2 DEF Links
  <2>7. /\ past' \in [Partitions -> SUBSET Nat] /\ \A q \in Partitions : past[q] \subseteq past'[q]
        /\ \A n : Covered(p, n) => 1..n \subseteq past'[p]
    BY <1>0, <2>2 DEF ClientTypeOK, Covered
  <2> cell[x][p] \in Nat \ {0}
    BY <1>1, <1>2
  <2> WITNESS cell[x][p] \in Nat \ {0}
  <2> QED BY <1>1, <2>1, <2>2, <2>3, <2>4, <2>5, <2>6, <2>7, Zenon
<1>3. CASE cell[x][p] = 0
  <2>a. Attach(c) /\ handled' = handled
    BY <1>3 DEF EnsureReceiver
  <2>b. /\ base' \in [Partitions -> Nat] /\ \A q \in Partitions : base[q] <= base'[q]
        /\ \E pos \in Nat :
             /\ link' = Append(Disconnect({l \in Links : link[l].part = p}),
                              [part |-> p, pos |-> pos, up |-> TRUE, by |-> c])
             /\ pos = client[c].start \/ pos = base'[p]
    BY <1>1, <2>a, Attached
  <2>c. PICK pos \in Nat :
          /\ link' = Append(Disconnect({l \in Links : link[l].part = p}),
                           [part |-> p, pos |-> pos, up |-> TRUE, by |-> c])
          /\ pos = client[c].start \/ pos = base'[p]
    BY <2>b, Zenon
  <2>d. /\ past' \in [Partitions -> SUBSET Nat]
        /\ \A q \in Partitions : past[q] \subseteq past'[q] /\ 1..base'[q] \subseteq past'[q]
    BY <2>a, <2>b, PastGrows
  <2> DEFINE others == {l \in Links : link[l].part = p}
             new == [part |-> p, pos |-> pos, up |-> TRUE, by |-> c]
             kept == Disconnect(others)
             k == Len(link) + 1
  <2>1. link' = Append(kept, new)
    BY <2>c
  <2>2. /\ kept \in Seq(LinkRecords) /\ DOMAIN kept = Links /\ Len(kept) = Len(link)
        /\ \A l \in Links : kept[l] = link[l] \/ ~kept[l].up
    BY <1>0, Disconnected
  <2>3. new \in LinkRecords
    BY <1>1 DEF LinkRecords
  <2> HIDE DEF kept, new
  <2>4. /\ link' \in Seq(LinkRecords) /\ Len(link') = k /\ DOMAIN link' = 1..k /\ link'[k] = new
        /\ \A l \in Links : link'[l] = kept[l]
    BY <1>1, <2>1, <2>2, <2>3
  <2>5. /\ cell' = [cell EXCEPT ![x][p] = Len(link')]
        /\ client' = [client EXCEPT ![c].stream = "wait", ![c].link = cell'[x][p]]
        /\ mishaps' = mishaps
    BY <1>3 DEF EnsureReceiver
  <2>6. /\ cell' = [cell EXCEPT ![x][p] = k]
        /\ client' = [client EXCEPT ![c].stream = "wait", ![c].link = k]
    BY <1>0, <1>1, <2>4, <2>5, Zenon DEF ClientTypeOK
  <2>7. /\ new.up /\ new.by = c /\ new.part = p /\ new.pos = pos
    BY DEF new
  <2>8. \A l \in Links' : l \in Links \/ l = k
    BY <1>1, <2>4 DEF Links
  <2>9. \A l \in Links' : link'[l].up => link'[l].by # 0
    BY <1>0, <1>1, <2>2, <2>4, <2>7, <2>8 DEF ReadInv
  <2>10. "shared" \notin mishaps => 1..pos \subseteq past'[p]
    <3>1. "shared" \notin mishaps => 1..client[c].start \subseteq past[p]
      BY <1>0 DEF ReadInv, ClientRead, Covered
    <3> QED BY <1>1, <2>c, <2>d, <3>1
  <2>11. Links \subseteq Links' /\ k \in Links' /\ k \in Nat \ {0}
    BY <1>1, <2>4 DEF Links
  <2> k \in Nat \ {0}
    BY <2>11
  <2> HIDE DEF k
  <2> WITNESS k \in Nat \ {0}
  <2> QED BY <2>2, <2>4, <2>5, <2>6, <2>7, <2>9, <2>10, <2>11, <2>d, Zenon
<1> QED BY <1>2, <1>3, Zenon

\* A client that attaches a link, or joins the one of its processor, waits on
\* its own link unless two clients share one.
LEMMA EnsureStep ==
  ASSUME ClientInv, LogInv, NEW c \in Clients, EnsureReceiver(c)
  PROVE  ClientInv'
PROOF
<1>0. ClientTypeOK /\ MapInv /\ ReadInv /\ (\A d \in Clients : Late(d))
  BY DEF ClientInv
<1>1. PICK s, x, p : s = client[c] /\ x = s.proc /\ p = s.part
  OBVIOUS
<1>2. /\ s \in ClientRecords /\ x \in Processors /\ p \in Partitions
      /\ s.state = "held" /\ s.stream = "ensure" /\ s.late = 0
  <2>1. s \in ClientRecords
    BY <1>0, <1>1, Numbered
  <2>2. s.state = "held" /\ s.stream = "ensure" /\ s.late = 0
    BY <1>0, <1>1, Zenon DEF EnsureReceiver, Reading, Late
  <2> QED BY <1>1, <2>1, <2>2 DEF ClientRecords
<1>3. PICK k \in Nat \ {0} :
        /\ link' \in Seq(LinkRecords) /\ Links \subseteq Links' /\ k \in Links'
        /\ \A l \in Links : link'[l] = link[l] \/ ~link'[l].up
        /\ \A l \in Links' : link'[l].up => link'[l].by # 0
        /\ cell' = [cell EXCEPT ![x][p] = k]
        /\ client' = [client EXCEPT ![c].stream = "wait", ![c].link = k]
        /\ "shared" \notin mishaps' /\ link'[k].up =>
             link'[k].by = c /\ link'[k].part = p /\ 1..link'[k].pos \subseteq past'[p]
        /\ past' \in [Partitions -> SUBSET Nat]
        /\ \A q \in Partitions : past[q] \subseteq past'[q]
  BY <1>1, EnsuredLink, Zenon
<1>4. /\ UNCHANGED <<phase, consumers, toClose, listed, checkpoint>>
      /\ mishaps \subseteq mishaps'
  BY Zenon DEF EnsureReceiver, ownershipVars, cycleVars, dispatchVars, mapVars
<1> DEFINE r == [s EXCEPT !.stream = "wait", !.link = k]
<1>5. client' = [client EXCEPT ![c] = r]
  BY <1>1, <1>3, Zenon
<1>6. /\ r \in ClientRecords
      /\ r.proc = x /\ r.part = p /\ r.state = "held" /\ r.closed = s.closed /\ r.orphan = s.orphan
      /\ r.stream = "wait" /\ r.link = k /\ r.start = s.start /\ r.last = s.last /\ r.late = 0
  BY <1>1, <1>2, Zenon DEF ClientRecords
<1> HIDE DEF r
<1>7. /\ client' \in Seq(ClientRecords) /\ Clients' = Clients /\ client'[c] = r
      /\ \A d \in Clients : d # c => client'[d] = client[d]
  BY <1>0, <1>5, <1>6, SetClient, Zenon
<1>8. /\ cell' \in [Processors -> [Partitions -> Nat]] /\ cell'[x][p] = k
      /\ \A y \in Processors, q \in Partitions : cell'[y][q] = cell[y][q] \/ (y = x /\ q = p)
  BY <1>0, <1>2, <1>3 DEF ClientTypeOK
<1>9. ClientTypeOK'
  <2>1. ASSUME NEW d \in Clients
        PROVE  /\ client'[d].state = "queued" => client'[d].stream = "check"
               /\ Reading(d, "wait")' => client'[d].link \in Links'
               /\ Reading(d, "yielded")' => client'[d].event # 0
    <3>1. CASE d = c
      BY <1>3, <1>6, <1>7, <3>1, Zenon DEF Reading
    <3>2. CASE d # c
      BY <1>0, <1>3, <1>7, <3>2, Zenon DEF ClientTypeOK, Reading
    <3> QED BY <3>1, <3>2
  <2>2. ASSUME NEW y \in Processors, NEW q \in Partitions, cell'[y][q] # 0
        PROVE  cell'[y][q] \in Links'
    <3>1. CASE cell'[y][q] = cell[y][q]
      <4>1. cell[y][q] \in Links
        BY <1>0, <2>2, <3>1, Zenon DEF ClientTypeOK
      <4> QED BY <1>3, <3>1, <4>1, Zenon
    <3>2. CASE y = x /\ q = p
      BY <1>3, <1>8, <3>2, Zenon
    <3> QED BY <1>8, <3>1, <3>2, Zenon
  <2> QED BY <1>0, <1>3, <1>4, <1>7, <1>8, <2>1, <2>2, Zenon DEF ClientTypeOK
<1>10. ASSUME NEW d \in Clients PROVE Late(d)'
  BY <1>0, <1>6, <1>7 DEF Late
<1>11. MapInv'
  <2>1. ASSUME NEW d \in Clients
        PROVE  /\ client'[d].proc = client[d].proc /\ client'[d].part = client[d].part
               /\ client'[d].closed => client[d].closed
               /\ client'[d].orphan => client[d].orphan
               /\ Open(d)' => Open(d)
    BY <1>1, <1>2, <1>6, <1>7 DEF Open, Alive
  <2> QED BY <1>0, <1>4, <1>7, <2>1, MapKept
<1>12. ReadInv'
  <2>1. ASSUME "shared" \notin mishaps'
        PROVE  /\ \A q \in Partitions : Covered(q, checkpoint[q])'
               /\ \A y \in Processors, q \in Partitions : Covered(q, listed[y][q])' /\ CellRead(y, q)'
               /\ \A d \in Clients : ClientRead(d)'
    <3>1. /\ \A q \in Partitions : Covered(q, checkpoint[q])
          /\ \A y \in Processors, q \in Partitions : Covered(q, listed[y][q]) /\ CellRead(y, q)
          /\ \A d \in Clients : ClientRead(d)
      BY <1>0, <1>4, <2>1 DEF ReadInv
    <3>2. /\ \A q \in Partitions : Covered(q, checkpoint[q])'
          /\ \A y \in Processors, q \in Partitions : Covered(q, listed[y][q])'
      BY <1>3, <1>4, <3>1, Zenon DEF Covered
    <3>3. link'[k].up =>
            link'[k].by = c /\ link'[k].part = p /\ 1..link'[k].pos \subseteq past'[p]
      BY <1>3, <2>1
    <3>4. ASSUME NEW d \in Clients PROVE ClientRead(d)'
      <4>1. CASE d = c
        <5>1. 1..s.start \subseteq past'[p] /\ 1..s.last \subseteq past'[p]
          BY <1>1, <1>2, <1>3, <3>1 DEF ClientRead, Covered
        <5> QED BY <1>6, <1>7, <3>3, <4>1, <5>1 DEF ClientRead, Covered, Reading
      <4>2. CASE d # c
        BY <1>0, <1>3, <1>4, <1>7, <3>1, <4>2, ClientKept, Zenon DEF SameReading
      <4> QED BY <4>1, <4>2
    <3>5. ASSUME NEW y \in Processors, NEW q \in Partitions PROVE CellRead(y, q)'
      <4>1. CASE y = x /\ q = p
        <5>1. cell'[x][p] = k
          BY <1>8
        <5>2. client'[c].proc = x /\ client'[c].part = p /\ c \in Clients'
          BY <1>6, <1>7
        <5>3. link'[k].up => link'[k].by = c /\ link'[k].part = p /\ Covered(p, link[k].pos)'
          BY <3>3 DEF Covered
        <5> QED BY <4>1, <5>1, <5>2, <5>3, Zenon DEF CellRead
      <4>2. CASE ~(y = x /\ q = p)
        <5>1. ASSUME NEW d \in Clients, client[d].proc = y
              PROVE  /\ d \in Clients' /\ client'[d].proc = y /\ client'[d].part = client[d].part
                     /\ Reading(d, "yielded") =>
                          Reading(d, "yielded")' /\ client'[d].event = client[d].event
          BY <1>1, <1>2, <1>6, <1>7, <5>1 DEF Reading
        <5>2. cell'[y][q] = cell[y][q]
          BY <1>8, <4>2
        <5>3. /\ cell'[y][q] \in {0, cell[y][q]} /\ CellRead(y, q)
              /\ \A w \in Partitions : past[w] \subseteq past'[w]
              /\ \A l \in Links : l = cell'[y][q] => link'[l] = link[l] \/ ~link'[l].up
          BY <1>3, <3>1, <5>2, Zenon
        <5>4. \A d \in Clients : client[d].proc = y /\ cell'[y][q] # 0 =>
                /\ d \in Clients' /\ client'[d].proc = y /\ client'[d].part = client[d].part
                /\ Reading(d, "yielded") =>
                     \/ Reading(d, "yielded")' /\ client'[d].event = client[d].event
                     \/ 1..client[d].event \subseteq past'[client[d].part]
          BY <5>1, Zenon
        <5> QED BY <1>0, <5>3, <5>4, CellKept, Zenon
      <4> QED BY <4>1, <4>2
    <3> QED BY <3>2, <3>4, <3>5
  <2> QED BY <1>3, <1>7, <2>1 DEF ReadInv
<1> QED BY <1>7, <1>9, <1>10, <1>11, <1>12 DEF ClientInv

\* A checkpoint is written with the last event processed.
LEMMA CheckpointStep ==
  ASSUME ClientInv, NEW c \in Clients, UpdateCheckpoint(c)
  PROVE  ClientInv'
PROOF
<1>0. ClientTypeOK /\ MapInv /\ ReadInv /\ (\A d \in Clients : Late(d))
  BY DEF ClientInv
<1>1. client[c].part \in Partitions /\ client[c].last \in Nat
  BY <1>0, Numbered DEF ClientRecords
<1>2. /\ checkpoint' = [checkpoint EXCEPT ![client[c].part] = client[c].last]
      /\ UNCHANGED <<phase, consumers, toClose, listed, client, cell, link, past, mishaps>>
  BY PastKept DEF UpdateCheckpoint, ownershipVars, cycleVars, dispatchVars, mapVars, clientVars
<1>3. ClientTypeOK'
  BY <1>0, <1>1, <1>2 DEF ClientTypeOK, Clients, Links, Reading
<1>4. MapInv'
  BY <1>0, <1>2, MapKept DEF Clients, Open, Alive
<1>5. ASSUME "shared" \notin mishaps, NEW p \in Partitions PROVE Covered(p, checkpoint[p])'
  <2>1. Covered(p, checkpoint[p]) /\ ClientRead(c)
    BY <1>0, <1>5 DEF ReadInv
  <2>2. checkpoint'[p] = IF p = client[c].part THEN client[c].last ELSE checkpoint[p]
    BY <1>0, <1>2 DEF ClientTypeOK
  <2> QED BY <1>2, <2>1, <2>2 DEF ClientRead, Covered
<1>6. /\ \A d \in Clients : ClientRead(d)' = ClientRead(d)
      /\ \A x \in Processors, p \in Partitions :
           (CellRead(x, p) => CellRead(x, p)') /\ Covered(p, listed[x][p])' = Covered(p, listed[x][p])
  <2>1. \A d \in Clients : ClientRead(d)' = ClientRead(d)
    BY <1>2, Zenon DEF Covered, ClientRead, Reading
  <2>2. ASSUME NEW x \in Processors, NEW p \in Partitions, CellRead(x, p) PROVE CellRead(x, p)'
    <3>1. cell' = cell /\ link' = link /\ client' = client /\ past' = past /\ Clients' = Clients
      BY <1>2 DEF Clients
    <3> QED BY <2>2, <3>1, Zenon DEF Covered, CellRead, Reading
  <2>3. \A x \in Processors, p \in Partitions : Covered(p, listed[x][p])' = Covered(p, listed[x][p])
    BY <1>2, Zenon DEF Covered
  <2> QED BY <2>1, <2>2, <2>3, Zenon
<1>7. ReadInv'
  BY <1>0, <1>2, <1>5, <1>6, Zenon DEF ReadInv, Clients, Links
<1> QED BY <1>0, <1>2, <1>3, <1>4, <1>7 DEF ClientInv, Late, Clients

\* The end of close empties the entry of the partition, its own or, as a
\* stale_close, that of its successor.
LEMMA CloseRemovesStep ==
  ASSUME ClientInv, NEW c \in Clients, CloseRemoves(c)
  PROVE  ClientInv'
PROOF
<1>0. ClientTypeOK /\ MapInv /\ client[c].state = "closing"
  BY DEF ClientInv, CloseRemoves
<1>1. PICK s, x, p : s = client[c] /\ x = s.proc /\ p = s.part
  OBVIOUS
<1>2. s \in ClientRecords /\ x \in Processors /\ p \in Partitions
  <2>1. s \in ClientRecords
    BY <1>0, <1>1, Numbered
  <2> QED BY <1>1, <2>1 DEF ClientRecords
<1>3. /\ client' = [client EXCEPT ![c] = Discard(s)]
      /\ UNCHANGED <<phase, toClose, listed, cell, link, checkpoint, past>>
      /\ mishaps \subseteq mishaps'
  BY <1>1, PastKept DEF CloseRemoves, ownershipVars, cycleVars
<1>4. /\ consumers' \in [Processors -> [Partitions -> Nat]]
      /\ \A y \in Processors, q \in Partitions : consumers'[y][q] \in {0, consumers[y][q]}
      /\ \/ consumers' = consumers
         \/ /\ consumers'[x][p] = 0
            /\ \A y \in Processors, q \in Partitions :
                 (y = x /\ q = p) \/ consumers'[y][q] = consumers[y][q]
            /\ consumers[x][p] \in {0, c} \/ "stale_close" \in mishaps'
  BY <1>0, <1>1, <1>2, Zenon DEF CloseRemoves, ClientTypeOK
<1>5. Moves(c, Discard(s))
  BY <1>0, <1>3, <1>4 DEF Moves, ClientTypeOK, Links
<1>6. Follows(Discard(s), client[c]) /\ Discard(s).last = 0 /\ ~Reading(c, "yielded")
  BY <1>0, <1>1, <1>2, DiscardFollows DEF Reading
<1>7. /\ ClientTypeOK' /\ (\A d \in Clients : Late(d)') /\ ReadInv'
      /\ Clients' = Clients /\ client'[c] = Discard(s)
      /\ \A d \in Clients : d # c => client'[d] = client[d]
  BY <1>5, <1>6, MovesRead
<1>8. ASSUME NEW d \in Clients
      PROVE  /\ client'[d].proc = client[d].proc /\ client'[d].part = client[d].part
             /\ client'[d].closed => client[d].closed
             /\ client'[d].orphan => client[d].orphan
             /\ Open(d)' => Open(d)
  BY <1>6, <1>7 DEF Follows, Open, Alive
<1>9. MapInv'
  <2>1. MapHasOpenClients'
    <3>1. ASSUME NEW y \in Processors, NEW q \in Partitions, consumers'[y][q] # 0
          PROVE  \E has \in Clients' :
                   /\ has = consumers'[y][q] /\ client'[has].proc = y /\ client'[has].part = q
                   /\ ~client'[has].closed /\ ~client'[has].orphan
      <4>1. consumers'[y][q] = consumers[y][q] /\ consumers[y][q] # 0
        BY <1>4, <3>1, Zenon
      <4>2. PICK has \in Clients :
              /\ has = consumers[y][q] /\ client[has].proc = y /\ client[has].part = q
              /\ ~client[has].closed /\ ~client[has].orphan
        <5>1. /\ consumers[y][q] \in Clients
              /\ client[consumers[y][q]].proc = y /\ client[consumers[y][q]].part = q
              /\ ~client[consumers[y][q]].closed /\ ~client[consumers[y][q]].orphan
          BY <1>0, <4>1, Mapped, Zenon
        <5> QED BY <5>1
      <4> QED BY <1>7, <1>8, <4>1, <4>2, Zenon
    <3> QED BY <3>1, Remapped, Zenon
  <2>2. ASSUME NEW y \in Processors PROVE Revoked(y)'
    <3>1. phase[y] # "closing" => toClose[y] = {}
      BY <1>0, Zenon DEF MapInv, Revoked
    <3>2. phase'[y] = phase[y] /\ toClose'[y] = toClose[y]
      BY <1>3, Zenon
    <3> QED BY <1>0, <1>4, <1>7, <1>8, <3>1, <3>2, RevokedKept, Zenon
  <2>3. ASSUME NEW d \in Clients, "stale_close" \notin mishaps', Open(d)' PROVE Placed(d)'
    <3>1. Placed(d) /\ d # c
      BY <1>0, <1>3, <1>7, <1>8, <2>3 DEF MapInv, Open, Alive
    <3>2. client[d].proc \in Processors /\ client[d].part \in Partitions
      BY <1>0, Numbered DEF ClientRecords
    <3>3. CASE consumers' = consumers
      BY <1>3, <1>8, <3>1, <3>3, Zenon DEF Placed
    <3>4. CASE client[d].proc = x /\ client[d].part = p /\ consumers[x][p] \in {0, c}
      <4>1. consumers[x][p] = d \/ (consumers[x][p] = 0 /\ d \in toClose[x])
        BY <3>1, <3>4, Zenon DEF Placed
      <4>2. consumers'[x][p] \in {0, consumers[x][p]}
        BY <1>2, <1>4, Zenon
      <4>3. consumers'[x][p] = d \/ (consumers'[x][p] = 0 /\ d \in toClose[x])
        BY <3>1, <3>4, <4>1, <4>2, Zenon
      <4>4. client'[d].proc = x /\ client'[d].part = p /\ toClose' = toClose
        BY <1>3, <1>8, <3>4, Zenon
      <4> QED BY <4>3, <4>4, Zenon DEF Placed
    <3>5. CASE consumers'[client[d].proc][client[d].part] = consumers[client[d].proc][client[d].part]
      BY <1>3, <1>8, <3>1, <3>5, Zenon DEF Placed
    <3> QED BY <1>4, <2>3, <3>2, <3>3, <3>4, <3>5
  <2> QED BY <1>7, <2>1, <2>2, <2>3 DEF MapInv
<1> QED BY <1>7, <1>9, Zenon DEF ClientInv

\* What a dispatch, or its end, does to what clients read: some clients are
\* given up with all links of their processor, others added.
LEMMA ReadKept ==
  ASSUME ClientTypeOK, ReadInv, Clients \subseteq Clients', Links' = Links,
         UNCHANGED <<checkpoint, past, mishaps>>,
         \A l \in Links : link'[l] = link[l] \/ ~link'[l].up,
         \A x \in Processors, p \in Partitions :
           /\ cell'[x][p] \in {0, cell[x][p]}
           /\ listed'[x][p] \in {0, listed[x][p], checkpoint[p]},
         \A d \in Clients :
           /\ client'[d].proc = client[d].proc /\ client'[d].part = client[d].part
           /\ \/ SameReading(client'[d], client[d])
              \/ /\ client'[d].start = 0 /\ client'[d].last = 0 /\ client'[d].state = "gone"
                 /\ \A p \in Partitions : cell'[client[d].proc][p] = 0,
         \A d \in Clients' \ Clients :
           /\ client'[d].part \in Partitions /\ client'[d].last = 0 /\ client'[d].stream = "check"
           /\ "shared" \notin mishaps => Covered(client'[d].part, client'[d].start)
  PROVE  ReadInv'
PROOF
<1>1. ASSUME NEW l \in Links, link'[l].up PROVE link'[l].by # 0
  BY <1>1, Zenon DEF ReadInv
<1>2. ASSUME "shared" \notin mishaps
      PROVE  /\ \A p \in Partitions : Covered(p, checkpoint[p])'
             /\ \A x \in Processors, p \in Partitions : Covered(p, listed[x][p])' /\ CellRead(x, p)'
             /\ \A d \in Clients' : ClientRead(d)'
  <2>1. /\ \A p \in Partitions : Covered(p, checkpoint[p])
        /\ \A x \in Processors, p \in Partitions : Covered(p, listed[x][p]) /\ CellRead(x, p)
        /\ \A d \in Clients : ClientRead(d)
    BY <1>2 DEF ReadInv
  <2>2. 1..0 = {}
    BY NoneBelow, Zenon
  <2>3. /\ \A p \in Partitions : Covered(p, checkpoint[p])'
        /\ \A x \in Processors, p \in Partitions : Covered(p, listed[x][p])'
    BY <2>1, <2>2, Zenon DEF Covered
  <2>4. ASSUME NEW d \in Clients' PROVE ClientRead(d)'
    <3>1. CASE d \notin Clients
      <4>1. Covered(client'[d].part, client'[d].start)
        BY <1>2, <3>1, Zenon
      <4> QED BY <2>2, <3>1, <4>1 DEF ClientRead, Covered, Reading
    <3>2. CASE d \in Clients /\ SameReading(client'[d], client[d])
      BY <2>1, <3>2, ClientKept, Zenon
    <3>3. CASE client'[d].start = 0 /\ client'[d].last = 0 /\ client'[d].state = "gone"
      BY <2>2, <3>3, Zenon DEF ClientRead, Covered, Reading
    <3> QED BY <3>1, <3>2, <3>3, Zenon
  <2>5. ASSUME NEW x \in Processors, NEW p \in Partitions PROVE CellRead(x, p)'
    <3>1. \A d \in Clients : client[d].proc = x /\ cell'[x][p] # 0 =>
            /\ d \in Clients' /\ client'[d].proc = x /\ client'[d].part = client[d].part
            /\ Reading(d, "yielded") =>
                 \/ Reading(d, "yielded")' /\ client'[d].event = client[d].event
                 \/ 1..client[d].event \subseteq past'[client[d].part]
      <4> SUFFICES ASSUME NEW d \in Clients, client[d].proc = x, cell'[x][p] # 0
                   PROVE  /\ d \in Clients' /\ client'[d].proc = x
                          /\ client'[d].part = client[d].part
                          /\ Reading(d, "yielded") =>
                               Reading(d, "yielded")' /\ client'[d].event = client[d].event
        BY Zenon
      <4>1. SameReading(client'[d], client[d]) /\ d \in Clients' /\ client'[d].proc = x
        BY Zenon
      <4> QED BY <4>1, Zenon DEF SameReading, Reading
    <3>2. cell'[x][p] \in {0, cell[x][p]} /\ CellRead(x, p)
      BY <2>1, Zenon
    <3>3. /\ \A q \in Partitions : past[q] \subseteq past'[q]
          /\ \A l \in Links : l = cell'[x][p] => link'[l] = link[l] \/ ~link'[l].up
      BY Zenon
    <3> QED BY <3>1, <3>2, <3>3, CellKept, Zenon
  <2> QED BY <2>3, <2>4, <2>5
<1> QED BY <1>1, <1>2, Zenon DEF ReadInv

\* The steps of a dispatch that leave the map and the clients alone, and those
\* of the store.
LEMMA RecordSteps ==
  ASSUME ClientInv, DispatchInv,
         \/ StoreNext \/ UNCHANGED vars
         \/ \E x \in Processors : Dispatch(x) \/ ListCheckpoints(x) \/ Run(x)
  PROVE  ClientInv'
PROOF
<1>0. ClientTypeOK /\ MapInv /\ ReadInv /\ (\A d \in Clients : Late(d))
  BY DEF ClientInv
<1>1. UNCHANGED <<consumers, toClose, clientVars, storedVars>>
  BY Zenon DEF StoreNext, vars, Dispatch, ListCheckpoints, Run, dispatchVars, mapVars
<1>2. UNCHANGED <<client, cell, link, checkpoint, past, mishaps>>
  BY <1>1, PastKept DEF clientVars, storedVars
<1>3. /\ listed' \in [Processors -> [Partitions -> Nat]]
      /\ \A x \in Processors, p \in Partitions : listed'[x][p] \in {listed[x][p], checkpoint[p]}
  <2>1. listed \in [Processors -> [Partitions -> Nat]] /\ checkpoint \in [Partitions -> Nat]
    BY <1>0, Zenon DEF ClientTypeOK
  <2>2. ASSUME NEW x \in Processors, ListCheckpoints(x)
        PROVE  listed' = [listed EXCEPT ![x] = checkpoint]
    BY <2>2, Zenon DEF ListCheckpoints
  <2>3. listed' = listed \/ \E x \in Processors : ListCheckpoints(x)
    BY Zenon DEF StoreNext, vars, Dispatch, Run, dispatchVars, mapVars
  <2>4. CASE listed' = listed
    BY <2>1, <2>4, Zenon
  <2>5. ASSUME NEW x \in Processors, listed' = [listed EXCEPT ![x] = checkpoint]
        PROVE  /\ listed' \in [Processors -> [Partitions -> Nat]]
               /\ \A y \in Processors, p \in Partitions : listed'[y][p] \in {listed[y][p], checkpoint[p]}
    BY <2>1, <2>5
  <2> QED BY <2>2, <2>3, <2>4, <2>5, Zenon
<1>4. \A x \in Processors : phase'[x] # "closing" => toClose[x] = {}
  <2>1. ASSUME NEW x \in Processors, phase[x] # "closing" PROVE toClose[x] = {}
    BY <1>0, <2>1 DEF MapInv, Revoked
  <2>2. phase \in [Processors -> {"stopped", "idle", "claim", "closing", "adding", "crashed"}]
    BY DEF DispatchInv
  <2>3. CASE UNCHANGED phase
    BY <2>1, <2>3, Zenon
  <2>4. ASSUME NEW x \in Processors, ListCheckpoints(x)
        PROVE  \A y \in Processors : phase'[y] # "closing" => toClose[y] = {}
    BY <2>1, <2>2, <2>4 DEF ListCheckpoints
  <2>5. ASSUME NEW x \in Processors, Dispatch(x) \/ Run(x)
        PROVE  \A y \in Processors : phase'[y] # "closing" => toClose[y] = {}
    BY <2>1, <2>2, <2>5, Zenon DEF Dispatch, Run, Start, ListOwnerships
  <2>6. StoreNext \/ UNCHANGED vars => UNCHANGED phase
    BY Zenon DEF StoreNext, ClaimGranted, ClaimLost, ClaimUnacknowledged, Expire, cycleVars, vars, ownershipVars
  <2> QED BY <2>3, <2>4, <2>5, <2>6, Zenon
<1>5. ClientTypeOK'
  BY <1>0, <1>1, <1>2, <1>3, Zenon DEF ClientTypeOK, Clients, Links, Reading
<1>6. MapInv'
  <2>1. MapHasOpenClients' /\ ("stale_close" \notin mishaps' => \A c \in Clients : Open(c)' => Placed(c)')
    <3>1. MapHasOpenClients'
      <4>1. consumers' = consumers /\ client' = client /\ Clients' = Clients
        BY <1>1, <1>2 DEF Clients
      <4>2. MapHasOpenClients
        BY <1>0 DEF MapInv
      <4> QED BY <4>1, <4>2 DEF MapHasOpenClients
    <3>2. "stale_close" \notin mishaps' => \A c \in Clients : Open(c)' => Placed(c)'
      BY <1>0, <1>1, <1>2, Zenon DEF MapInv, Open, Alive, Placed
    <3> QED BY <3>1, <3>2
  <2>2. ASSUME NEW x \in Processors PROVE Revoked(x)'
    <3>1. Revoked(x) /\ (phase'[x] # "closing" => toClose[x] = {})
      BY <1>0, <1>4 DEF MapInv
    <3>2. consumers' = consumers /\ toClose' = toClose /\ client' = client /\ Clients' = Clients
      BY <1>1, <1>2 DEF Clients
    <3> QED BY <3>1, <3>2 DEF Revoked
  <2> QED BY <1>2, <2>1, <2>2 DEF MapInv, Clients
<1>7. ReadInv'
  <2>1. \A d \in Clients : SameReading(client'[d], client[d])
    BY <1>2 DEF SameReading
  <2>2. Clients' = Clients /\ Links' = Links
    BY <1>2 DEF Clients, Links
  <2> QED BY <1>0, <1>2, <1>3, <2>1, <2>2, ReadKept
<1> QED BY <1>0, <1>2, <1>5, <1>6, <1>7, Zenon DEF ClientInv, Late, Clients

\* The entries of partitions that were not granted leave the map; their clients
\* are to be closed.
LEMMA RevokeStep ==
  ASSUME ClientInv, DispatchInv, NEW x \in Processors, Revoke(x)
  PROVE  ClientInv'
PROOF
<1>0. ClientTypeOK /\ MapInv /\ ReadInv /\ (\A d \in Clients : Late(d))
  BY DEF ClientInv
<1> DEFINE stolen == {p \in Partitions \ won[x] : consumers[x][p] # 0}
<1>1. /\ UNCHANGED <<listed, client, cell, link, checkpoint, past, mishaps>>
      /\ phase' = [phase EXCEPT ![x] = "closing"] /\ phase[x] = "claim"
      /\ consumers' = [consumers EXCEPT ![x] =
                         [p \in Partitions |-> IF p \in stolen THEN 0 ELSE consumers[x][p]]]
      /\ toClose' = [toClose EXCEPT ![x] = {c \in {consumers[x][p] : p \in stolen} : Alive(c)}]
  BY PastKept, Zenon DEF Revoke, clientVars, storedVars
<1>2. Clients' = Clients /\ Links' = Links
  BY <1>1 DEF Clients, Links
<1>3. /\ consumers' \in [Processors -> [Partitions -> Nat]]
      /\ \A p \in Partitions : consumers'[x][p] = IF p \in stolen THEN 0 ELSE consumers[x][p]
      /\ \A y \in Processors : y # x => consumers'[y] = consumers[y]
  BY <1>0, <1>1 DEF ClientTypeOK
<1>4. /\ toClose' \in [Processors -> SUBSET Nat]
      /\ \A c : c \in toClose'[x] <=> Alive(c) /\ \E p \in stolen : c = consumers[x][p]
      /\ \A y \in Processors : y # x => toClose'[y] = toClose[y]
  <2> DEFINE closing == {c \in {consumers[x][p] : p \in stolen} : Alive(c)}
  <2>1. toClose \in [Processors -> SUBSET Nat] /\ consumers \in [Processors -> [Partitions -> Nat]]
    BY <1>0 DEF ClientTypeOK
  <2>2. closing \subseteq Nat
    BY <2>1
  <2>3. \A c : c \in closing <=> Alive(c) /\ \E p \in stolen : c = consumers[x][p]
    OBVIOUS
  <2>4. toClose' = [toClose EXCEPT ![x] = closing]
    BY <1>1
  <2> HIDE DEF closing
  <2>5. toClose'[x] = closing /\ \A y \in Processors : y # x => toClose'[y] = toClose[y]
    BY <2>1, <2>4
  <2>6. toClose' \in [Processors -> SUBSET Nat]
    BY <2>1, <2>2, <2>4
  <2> QED BY <2>3, <2>5, <2>6, Zenon
<1>5. ClientTypeOK'
  BY <1>0, <1>1, <1>2, <1>3, <1>4, Zenon DEF ClientTypeOK, Reading
<1>6. ReadInv'
  <2>1. \A d \in Clients : SameReading(client'[d], client[d])
    BY <1>1, Zenon DEF SameReading
  <2> QED BY <1>0, <1>1, <1>2, <2>1, ReadKept, Zenon
<1>7. \A p \in Partitions : consumers[x][p] # 0 =>
        /\ consumers[x][p] \in Clients /\ client[consumers[x][p]].proc = x
        /\ client[consumers[x][p]].part = p
  BY <1>0, Zenon DEF MapInv, MapHasOpenClients
<1>8. MapInv'
  <2>1. MapHasOpenClients'
    <3>1. ASSUME NEW y \in Processors, NEW q \in Partitions, consumers'[y][q] # 0
          PROVE  \E has \in Clients' :
                   /\ has = consumers'[y][q] /\ client'[has].proc = y /\ client'[has].part = q
                   /\ ~client'[has].closed /\ ~client'[has].orphan
      <4>1. consumers'[y][q] = consumers[y][q] /\ consumers[y][q] # 0
        <5>1. CASE y = x
          BY <1>3, <3>1, <5>1
        <5>2. CASE y # x
          BY <1>3, <3>1, <5>2
        <5> QED BY <5>1, <5>2
      <4>2. PICK has \in Clients :
              /\ has = consumers[y][q] /\ client[has].proc = y /\ client[has].part = q
              /\ ~client[has].closed /\ ~client[has].orphan
        <5>1. /\ consumers[y][q] \in Clients
              /\ client[consumers[y][q]].proc = y /\ client[consumers[y][q]].part = q
              /\ ~client[consumers[y][q]].closed /\ ~client[consumers[y][q]].orphan
          BY <1>0, <4>1, Mapped, Zenon
        <5> QED BY <5>1
      <4> QED BY <1>1, <1>2, <4>1, <4>2, Zenon
    <3> QED BY <3>1, Remapped, Zenon
  <2>2. ASSUME NEW y \in Processors PROVE Revoked(y)'
    <3>1. CASE y # x
      <4>1. phase'[y] = phase[y]
        BY <1>1, <3>1 DEF DispatchInv
      <4>2. consumers'[y] = consumers[y] /\ toClose'[y] = toClose[y]
        BY <1>3, <1>4, <3>1, Zenon
      <4>3. phase[y] # "closing" => toClose[y] = {}
        BY <1>0, Zenon DEF MapInv, Revoked
      <4> QED BY <1>0, <1>1, <1>2, <4>1, <4>2, <4>3, RevokedKept, Zenon
    <3>2. CASE y = x
      <4>1. phase'[x] = "closing"
        BY <1>1 DEF DispatchInv
      <4>2. ASSUME NEW c \in toClose'[x]
            PROVE  /\ c \in Clients /\ client[c].proc = x
                   /\ \A p \in Partitions : consumers'[x][p] # c
                   /\ \A d \in toClose'[x] : client[d].part = client[c].part => d = c
        <5>1. PICK p \in stolen : c = consumers[x][p]
          BY <1>4, <4>2
        <5>2. c \in Clients /\ client[c].proc = x /\ client[c].part = p /\ c # 0
          BY <1>7, <5>1
        <5>3. ASSUME NEW q \in Partitions PROVE consumers'[x][q] # c
          BY <1>3, <1>7, <5>1, <5>2
        <5>4. ASSUME NEW d \in toClose'[x], client[d].part = client[c].part PROVE d = c
          BY <1>4, <1>7, <5>1, <5>2, <5>4
        <5> QED BY <5>2, <5>3, <5>4
      <4>3. client' = client /\ Clients' = Clients
        BY <1>1, <1>2
      <4>4. ASSUME NEW c \in toClose'[x]
            PROVE  /\ c \in Clients' /\ client'[c].proc = x
                   /\ \A p \in Partitions : consumers'[x][p] # c
                   /\ \A d \in toClose'[x] : client'[d].part = client'[c].part => d = c
        BY <4>2, <4>3, <4>4
      <4>5. Revoked(x)'
        BY <4>1, <4>4, Zenon DEF Revoked
      <4> QED BY <3>2, <4>5
    <3> QED BY <3>1, <3>2
  <2>3. ASSUME NEW c \in Clients, "stale_close" \notin mishaps, Open(c) PROVE Placed(c)'
    <3>1. client[c].proc \in Processors /\ client[c].part \in Partitions
      BY <1>0, Numbered DEF ClientRecords
    <3>2. Placed(c) /\ Alive(c) /\ c # 0
      BY <1>0, <2>3, Numbered DEF MapInv, Open
    <3>3. toClose[x] = {}
      BY <1>0, <1>1 DEF MapInv, Revoked
    <3>4. CASE client[c].proc # x
      BY <1>1, <1>3, <1>4, <3>1, <3>2, <3>4, Zenon DEF Placed
    <3>5. CASE client[c].proc = x
      <4>1. consumers[x][client[c].part] = c
        BY <3>2, <3>3, <3>5 DEF Placed
      <4> QED BY <1>1, <1>3, <1>4, <3>1, <3>2, <3>5, <4>1, Zenon DEF Placed
    <3> QED BY <3>4, <3>5
  <2> QED BY <1>1, <1>2, <2>1, <2>2, <2>3, Zenon DEF MapInv, Open, Alive
<1> QED BY <1>0, <1>1, <1>2, <1>5, <1>6, <1>8 DEF ClientInv, Late

\* A revoked client is told to stop; it is in no map.
LEMMA CloseRevokedStep ==
  ASSUME ClientInv, NEW x \in Processors, NEW c \in Clients, CloseRevoked(x, c)
  PROVE  ClientInv'
PROOF
<1>0. ClientTypeOK /\ MapInv /\ ReadInv /\ (\A d \in Clients : Late(d))
  BY DEF ClientInv
<1>1. PICK s : s = client[c]
  OBVIOUS
<1> DEFINE r == [s EXCEPT !.closed = TRUE]
<1>2. /\ UNCHANGED <<phase, consumers, listed, link, checkpoint, past, mishaps>>
      /\ toClose' = [toClose EXCEPT ![x] = @ \ {c}] /\ c \in toClose[x]
      /\ client' = [client EXCEPT ![c] = r]
      /\ cell' = [cell EXCEPT ![x][s.part] = 0]
  BY <1>1, PastKept DEF CloseRevoked, ownershipVars, cycleVars, storedVars
<1>3. s \in ClientRecords /\ s.part \in Partitions
  BY <1>0, <1>1, Numbered DEF ClientRecords
<1>4. /\ r \in ClientRecords /\ SameReading(r, s)
      /\ r.proc = s.proc /\ r.orphan = s.orphan /\ r.late = s.late /\ r.closed
  BY <1>3, Zenon DEF ClientRecords, SameReading
<1> HIDE DEF r
<1>5. /\ client' \in Seq(ClientRecords) /\ Clients' = Clients /\ client'[c] = r
      /\ \A d \in Clients : d # c => client'[d] = client[d]
  BY <1>0, <1>2, <1>4, SetClient, Zenon
<1>6. /\ cell' \in [Processors -> [Partitions -> Nat]]
      /\ \A y \in Processors, q \in Partitions : cell'[y][q] \in {0, cell[y][q]}
  BY <1>0, <1>2, <1>3 DEF ClientTypeOK
<1>7. /\ toClose' \in [Processors -> SUBSET Nat] /\ toClose'[x] = toClose[x] \ {c}
      /\ \A y \in Processors : y # x => toClose'[y] = toClose[y]
  BY <1>0, <1>2 DEF ClientTypeOK
<1>8. ASSUME NEW d \in Clients
      PROVE  SameReading(client'[d], client[d]) /\ client'[d].proc = client[d].proc
  BY <1>1, <1>4, <1>5 DEF SameReading
<1>9. Links' = Links
  BY <1>2 DEF Links
<1>10. ClientTypeOK'
  <2>1. ASSUME NEW d \in Clients
        PROVE  /\ client'[d].state = "queued" => client'[d].stream = "check"
               /\ Reading(d, "wait")' => client'[d].link \in Links
               /\ Reading(d, "yielded")' => client'[d].event # 0
    BY <1>0, <1>8, SameTyped, Zenon
  <2>2. ASSUME NEW y \in Processors, NEW q \in Partitions, cell'[y][q] # 0
        PROVE  cell'[y][q] \in Links
    BY <1>0, <1>6, <2>2, Zenon DEF ClientTypeOK
  <2>3. /\ consumers' \in [Processors -> [Partitions -> Nat]] /\ listed' \in [Processors -> [Partitions -> Nat]]
        /\ link' \in Seq(LinkRecords)
        /\ checkpoint' \in [Partitions -> Nat] /\ past' \in [Partitions -> SUBSET Nat]
    BY <1>0, <1>2 DEF ClientTypeOK
  <2> QED BY <1>5, <1>6, <1>7, <1>9, <2>1, <2>2, <2>3, Zenon DEF ClientTypeOK
<1>11. ASSUME NEW d \in Clients PROVE Late(d)'
  <2>1. CASE d = c
    BY <1>0, <1>1, <1>4, <1>5, <2>1 DEF Late, SameReading
  <2>2. CASE d # c
    BY <1>0, <1>5, <2>2 DEF Late
  <2> QED BY <2>1, <2>2
<1>12. ReadInv'
  <2>1. \A d \in Clients : client'[d].part = client[d].part
    BY <1>8 DEF SameReading
  <2> QED BY <1>0, <1>2, <1>5, <1>6, <1>8, <1>9, <2>1, ReadKept, Zenon
<1>13. MapInv'
  <2>1. client[c].proc = x /\ \A p \in Partitions : consumers[x][p] # c
    BY <1>0, <1>2 DEF MapInv, Revoked
  <2>2. MapHasOpenClients'
    <3>1. ASSUME NEW y \in Processors, NEW q \in Partitions, consumers'[y][q] # 0
          PROVE  \E has \in Clients' :
                   /\ has = consumers'[y][q] /\ client'[has].proc = y /\ client'[has].part = q
                   /\ ~client'[has].closed /\ ~client'[has].orphan
      <4>1. consumers'[y][q] = consumers[y][q] /\ consumers[y][q] # 0
        BY <1>2, <3>1, Zenon
      <4>2. PICK has \in Clients :
              /\ has = consumers[y][q] /\ client[has].proc = y /\ client[has].part = q
              /\ ~client[has].closed /\ ~client[has].orphan
        <5>1. /\ consumers[y][q] \in Clients
              /\ client[consumers[y][q]].proc = y /\ client[consumers[y][q]].part = q
              /\ ~client[consumers[y][q]].closed /\ ~client[consumers[y][q]].orphan
          BY <1>0, <4>1, Mapped, Zenon
        <5> QED BY <5>1
      <4>3. has # c
        BY <2>1, <4>2, Zenon
      <4> QED BY <1>5, <4>1, <4>2, <4>3, Zenon
    <3> QED BY <3>1, Remapped, Zenon
  <2>3. ASSUME NEW y \in Processors PROVE Revoked(y)'
    <3>1. toClose'[y] \subseteq toClose[y] /\ phase'[y] = phase[y] /\ consumers'[y] = consumers[y]
      BY <1>2, <1>7
    <3>2. phase[y] # "closing" => toClose[y] = {}
      BY <1>0, Zenon DEF MapInv, Revoked
    <3>3. \A d \in Clients : client'[d].proc = client[d].proc /\ client'[d].part = client[d].part
      BY <1>8, Zenon DEF SameReading
    <3>4. phase'[y] # "closing" => toClose'[y] = {}
      BY <3>1, <3>2
    <3> QED BY <1>0, <1>5, <3>1, <3>3, <3>4, RevokedKept, Zenon
  <2>4. ASSUME NEW d \in Clients, "stale_close" \notin mishaps, Open(d)' PROVE Placed(d)'
    <3>1. d # c
      BY <1>4, <1>5, <2>4 DEF Open
    <3>2. client'[d] = client[d] /\ client[d].proc \in Processors
      BY <1>0, <1>5, <3>1, Numbered DEF ClientRecords
    <3>3. Placed(d)
      BY <1>0, <2>4, <3>2 DEF MapInv, Open, Alive
    <3> QED BY <1>2, <1>7, <3>1, <3>2, <3>3 DEF Placed
  <2> QED BY <1>2, <1>5, <2>2, <2>3, <2>4 DEF MapInv
<1> QED BY <1>5, <1>10, <1>11, <1>12, <1>13 DEF ClientInv

\* run() ends, or the whole process: the map is gone, and with it every claim on
\* the clients it had.
LEMMA EndStep ==
  ASSUME ClientInv, DispatchInv, NEW x \in Processors, RunReturns(x) \/ Crash(x)
  PROVE  ClientInv'
PROOF
<1>0. ClientTypeOK /\ MapInv /\ ReadInv /\ (\A d \in Clients : Late(d))
  BY DEF ClientInv
<1>1. /\ consumers' = [consumers EXCEPT ![x] = NoClients] /\ toClose' = [toClose EXCEPT ![x] = {}]
      /\ listed' = [listed EXCEPT ![x] = NoClients]
      /\ \E next \in {"stopped", "crashed"} : phase' = [phase EXCEPT ![x] = next]
      /\ UNCHANGED <<checkpoint, past, mishaps>>
  BY PastKept DEF RunReturns, Crash, EndRun, storedVars
<1>2. /\ consumers' \in [Processors -> [Partitions -> Nat]]
      /\ toClose' \in [Processors -> SUBSET Nat] /\ toClose'[x] = {}
      /\ listed' \in [Processors -> [Partitions -> Nat]]
      /\ \A p \in Partitions : consumers'[x][p] = 0 /\ listed'[x][p] = 0
      /\ \A y \in Processors : y # x =>
           consumers'[y] = consumers[y] /\ toClose'[y] = toClose[y] /\ listed'[y] = listed[y]
      /\ \A y \in Processors : y # x => phase'[y] = phase[y]
  BY <1>0, <1>1, Zenon DEF ClientTypeOK, NoClients, DispatchInv
<1>3. Len(client) \in Nat /\ Clients = 1..Len(client) /\ client \in [Clients -> ClientRecords]
  BY <1>0, Numbered
\* What becomes of the clients: those of x are marked or gone.
<1>4. /\ \A d \in Clients :
           /\ client'[d].proc = client[d].proc /\ client'[d].part = client[d].part
           /\ client[d].proc # x => client'[d] = client[d]
           /\ client[d].proc = x => client'[d].orphan \/ client'[d].state = "gone"
           /\ client'[d].late # 0 =>
                client'[d].late = client[d].late /\ client'[d].closed = client[d].closed
           /\ \/ SameReading(client'[d], client[d])
              \/ /\ client'[d].start = 0 /\ client'[d].last = 0 /\ client'[d].state = "gone"
                 /\ client[d].proc = x /\ client'[d].late = 0 /\ Crash(x)
      /\ client' \in [Clients -> ClientRecords]
  <2>1. CASE RunReturns(x)
    <3>1. client' = [c \in Clients |->
                       [client[c] EXCEPT !.orphan =
                          @ \/ (client[c].proc = x /\ client[c].state # "gone")]]
      BY <2>1 DEF RunReturns
    <3>2. ASSUME NEW d \in Clients
          PROVE  /\ client'[d] \in ClientRecords
                 /\ client'[d].proc = client[d].proc /\ client'[d].late = client[d].late
                 /\ client'[d].closed = client[d].closed /\ SameReading(client'[d], client[d])
                 /\ client[d].proc # x => client'[d] = client[d]
                 /\ client[d].proc = x => client'[d].orphan \/ client'[d].state = "gone"
      <4>1. PICK s : s = client[d] /\ s \in ClientRecords
        BY <1>3
      <4> DEFINE o == s.orphan \/ (s.proc = x /\ s.state # "gone")
                 r == [s EXCEPT !.orphan = o]
      <4>2. client'[d] = r
        BY <3>1, <4>1
      <4>3. o \in BOOLEAN /\ (s.proc # x => o = s.orphan) /\ (s.proc = x => o \/ s.state = "gone")
        BY <4>1, Zenon DEF ClientRecords
      <4> HIDE DEF o
      <4>4. r \in ClientRecords /\ r.orphan = o /\ (o = s.orphan => r = s)
        BY <4>1, <4>3 DEF ClientRecords
      <4>5. r.proc = s.proc /\ r.late = s.late /\ r.closed = s.closed /\ SameReading(r, s)
        BY <4>1 DEF ClientRecords, SameReading
      <4> QED BY <4>1, <4>2, <4>3, <4>4, <4>5 DEF SameReading
    <3>3. client' \in [Clients -> ClientRecords]
      BY <3>1, <3>2
    <3> QED BY <3>2, <3>3, Zenon DEF SameReading
  <2>2. CASE Crash(x)
    <3>1. client' = [c \in Clients |-> IF client[c].proc = x THEN Discard(client[c]) ELSE client[c]]
      BY <2>2, Zenon DEF Crash
    <3>2. ASSUME NEW d \in Clients, client[d].proc = x
          PROVE  /\ client'[d] = Discard(client[d]) /\ Discard(client[d]) \in ClientRecords
                 /\ client'[d].proc = x /\ client'[d].part = client[d].part
                 /\ client'[d].state = "gone" /\ client'[d].late = 0
                 /\ client'[d].start = 0 /\ client'[d].last = 0
      BY <1>3, <3>1, <3>2, DiscardFollows
    <3>3. ASSUME NEW d \in Clients, client[d].proc # x
          PROVE  client'[d] = client[d]
      BY <3>1, <3>3
    <3>4. client' \in [Clients -> ClientRecords]
      BY <1>3, <3>1, <3>2
    <3> QED BY <2>2, <3>2, <3>3, <3>4, Zenon DEF SameReading
  <2> QED BY <2>1, <2>2, Zenon
<1>5. client' \in Seq(ClientRecords) /\ Clients' = Clients
  BY <1>3, <1>4, SeqOf DEF Clients
<1>6. /\ link' \in Seq(LinkRecords) /\ Links' = Links
      /\ \A l \in Links : link'[l] = link[l] \/ ~link'[l].up
      /\ cell' \in [Processors -> [Partitions -> Nat]]
      /\ \A y \in Processors, q \in Partitions : cell'[y][q] \in {0, cell[y][q]}
      /\ Crash(x) => \A q \in Partitions : cell'[x][q] = 0
  <2>1. CASE RunReturns(x)
    <3>1. link' = link /\ cell' = cell /\ Links' = Links
      BY <2>1 DEF RunReturns, Links
    <3>2. ~Crash(x) \/ \A q \in Partitions : cell'[x][q] = 0
      <4>1. Crash(x) => cell' = [cell EXCEPT ![x] = NoClients]
        BY Zenon DEF Crash
      <4>2. cell \in [Processors -> [Partitions -> Nat]]
        BY <1>0 DEF ClientTypeOK
      <4>3. cell' = [cell EXCEPT ![x] = NoClients] => cell'[x] = NoClients
        BY <4>2
      <4>4. \A q \in Partitions : NoClients[q] = 0
        BY DEF NoClients
      <4> QED BY <4>1, <4>3, <4>4, Zenon
    <3> QED BY <1>0, <3>1, <3>2 DEF ClientTypeOK
  <2>2. CASE Crash(x)
    <3>1. /\ link' \in Seq(LinkRecords) /\ Links' = Links
          /\ \A l \in Links : link'[l] = link[l] \/ ~link'[l].up
      BY <1>0, <2>2, Disconnected, Zenon DEF Crash, Links
    <3>2. cell' = [cell EXCEPT ![x] = NoClients]
      BY <2>2, Zenon DEF Crash
    <3> QED BY <1>0, <3>1, <3>2, Zenon DEF ClientTypeOK, NoClients
  <2> QED BY <2>1, <2>2, Zenon
<1>7. ClientTypeOK'
  <2>1. ASSUME NEW d \in Clients
        PROVE  /\ client'[d].state = "queued" => client'[d].stream = "check"
               /\ Reading(d, "wait")' => client'[d].link \in Links
               /\ Reading(d, "yielded")' => client'[d].event # 0
    <3>1. CASE SameReading(client'[d], client[d])
      BY <1>0, <3>1, SameTyped, Zenon
    <3>2. CASE client'[d].state = "gone"
      BY <3>2, Zenon DEF Reading
    <3> QED BY <1>4, <3>1, <3>2, Zenon
  <2>2. ASSUME NEW y \in Processors, NEW q \in Partitions, cell'[y][q] # 0
        PROVE  cell'[y][q] \in Links
    BY <1>0, <1>6, <2>2 DEF ClientTypeOK
  <2> QED BY <1>0, <1>1, <1>2, <1>5, <1>6, <2>1, <2>2, Zenon DEF ClientTypeOK
<1>8. ASSUME NEW d \in Clients PROVE Late(d)'
  <2>1. client'[d].late # 0 =>
          /\ client'[d].late = client[d].late /\ client'[d].closed = client[d].closed
          /\ SameReading(client'[d], client[d])
    BY <1>4, Zenon
  <2>2. Late(d)
    BY <1>0, Zenon
  <2> QED BY <2>1, <2>2, Zenon DEF Late, SameReading
<1>9. ReadInv'
  <2>1. Clients \subseteq Clients' /\ Clients' \ Clients = {}
    BY <1>5
  <2>2. \A y \in Processors, p \in Partitions :
          /\ cell'[y][p] \in {0, cell[y][p]}
          /\ listed'[y][p] \in {0, listed[y][p], checkpoint[p]}
    <3>1. ASSUME NEW y \in Processors, NEW p \in Partitions PROVE listed'[y][p] \in {0, listed[y][p]}
      BY <1>2
    <3> QED BY <1>6, <3>1
  <2>3. \A d \in Clients :
          /\ client'[d].proc = client[d].proc /\ client'[d].part = client[d].part
          /\ \/ SameReading(client'[d], client[d])
             \/ /\ client'[d].start = 0 /\ client'[d].last = 0 /\ client'[d].state = "gone"
                /\ \A p \in Partitions : cell'[client[d].proc][p] = 0
    BY <1>4, <1>6, Zenon
  <2> QED BY <1>0, <1>1, <1>6, <2>1, <2>2, <2>3, ReadKept, Zenon
<1>10. MapInv'
  <2>1. MapHasOpenClients'
    <3>1. ASSUME NEW y \in Processors, NEW q \in Partitions, consumers'[y][q] # 0
          PROVE  \E has \in Clients' :
                   /\ has = consumers'[y][q] /\ client'[has].proc = y /\ client'[has].part = q
                   /\ ~client'[has].closed /\ ~client'[has].orphan
      <4>1. y # x /\ consumers'[y][q] = consumers[y][q] /\ consumers[y][q] # 0
        BY <1>2, <3>1, Zenon
      <4>2. PICK has \in Clients :
              /\ has = consumers[y][q] /\ client[has].proc = y /\ client[has].part = q
              /\ ~client[has].closed /\ ~client[has].orphan
        <5>1. /\ consumers[y][q] \in Clients
              /\ client[consumers[y][q]].proc = y /\ client[consumers[y][q]].part = q
              /\ ~client[consumers[y][q]].closed /\ ~client[consumers[y][q]].orphan
          BY <1>0, <4>1, Mapped, Zenon
        <5> QED BY <5>1
      <4>3. client'[has] = client[has]
        BY <1>4, <4>1, <4>2, Zenon
      <4> QED BY <1>5, <4>1, <4>2, <4>3, Zenon
    <3> QED BY <3>1, Remapped, Zenon
  <2>2. ASSUME NEW y \in Processors PROVE Revoked(y)'
    <3>1. CASE y = x
      BY <1>2, <3>1 DEF Revoked
    <3>2. CASE y # x
      <4>1. consumers'[y] = consumers[y] /\ toClose'[y] = toClose[y] /\ phase'[y] = phase[y]
        BY <1>2, <3>2
      <4>2. \A d \in Clients : client'[d].proc = client[d].proc /\ client'[d].part = client[d].part
        BY <1>4, Zenon
      <4>3. phase[y] # "closing" => toClose[y] = {}
        BY <1>0, Zenon DEF MapInv, Revoked
      <4> QED BY <1>0, <1>5, <4>1, <4>2, <4>3, RevokedKept, Zenon
    <3> QED BY <3>1, <3>2
  <2>3. ASSUME NEW d \in Clients, "stale_close" \notin mishaps, Open(d)' PROVE Placed(d)'
    <3>1. client[d].proc # x /\ client'[d] = client[d]
      <4>1. ~client'[d].orphan /\ client'[d].state # "gone"
        BY <2>3 DEF Open, Alive
      <4> QED BY <1>4, <4>1
    <3>2. Placed(d)
      BY <1>0, <2>3, <3>1 DEF MapInv, Open, Alive
    <3>3. client[d].proc \in Processors
      BY <1>3 DEF ClientRecords
    <3>4. consumers'[client[d].proc] = consumers[client[d].proc] /\ toClose'[client[d].proc] = toClose[client[d].proc]
      BY <1>2, <3>1, <3>3, Zenon
    <3> QED BY <3>1, <3>2, <3>4, PlacedKept, Zenon
  <2> QED BY <1>1, <1>5, <2>1, <2>2, <2>3 DEF MapInv
<1> QED BY <1>5, <1>7, <1>8, <1>9, <1>10 DEF ClientInv

\* The clients that a dispatch adds have the numbers after all others, one for
\* each new partition, and the map has them.
LEMMA Installed ==
  ASSUME Enumerable, ClientTypeOK, NEW x \in Processors, NEW new \in SUBSET Partitions,
         NEW start \in [Partitions -> Starts], InstallClients(x, new, start)
  PROVE  /\ client' \in Seq(ClientRecords) /\ Clients \subseteq Clients'
         /\ \A d \in Clients : client'[d] = client[d]
         /\ \A d \in Clients' \ Clients :
              \E p \in new : client'[d] = NewClient(x, p, start[p]) /\ consumers'[x][p] = d
         /\ \A p \in new : /\ consumers'[x][p] \in Clients' \ Clients
                           /\ client'[consumers'[x][p]] = NewClient(x, p, start[p])
         /\ \A p \in Partitions \ new : consumers'[x][p] = consumers[x][p]
         /\ \A y \in Processors : y # x => consumers'[y] = consumers[y]
         /\ consumers' \in [Processors -> [Partitions -> Nat]]
PROOF
<1> DEFINE size == Cardinality(new)
           before == Len(client)
           seq == CHOOSE s \in Bijection(1..size, new) : TRUE
           added == [num \in DOMAIN seq |-> NewClient(x, seq[num], start[seq[num]])]
           index(p) == CHOOSE num \in DOMAIN seq : seq[num] = p
<1>1. /\ client' = client \o added
      /\ consumers' = [consumers EXCEPT ![x] =
           [p \in Partitions |-> IF p \in new THEN before + index(p) ELSE consumers[x][p]]]
  BY DEF InstallClients
<1>2. size \in Nat /\ seq \in Bijection(1..size, new)
  BY DEF Enumerable, ExistsBijection
<1> HIDE DEF size, seq
<1>3. /\ seq \in [1..size -> new] /\ DOMAIN seq = 1..size
      /\ \A num, oth \in 1..size : seq[num] = seq[oth] => num = oth
      /\ \A p \in new : \E num \in 1..size : seq[num] = p
  <2>1. seq \in Injection(1..size, new) /\ seq \in Surjection(1..size, new)
    BY <1>2 DEF Bijection
  <2>2. seq \in [1..size -> new] /\ \A num, oth \in 1..size : seq[num] = seq[oth] => num = oth
    BY <2>1 DEF Injection, IsInjective
  <2>3. \A p \in new : \E num \in 1..size : seq[num] = p
    BY <2>1 DEF Surjection
  <2> QED BY <2>2, <2>3
<1>4. \A p \in new : index(p) \in 1..size /\ seq[index(p)] = p
  BY <1>3
<1>5. \A num \in 1..size : index(seq[num]) = num
  BY <1>3, <1>4
<1> HIDE DEF index
<1>6. ASSUME NEW p \in Partitions PROVE NewClient(x, p, start[p]) \in ClientRecords
  BY DEF NewClient, ClientRecords
<1>7. added \in [1..size -> ClientRecords] /\ \A num \in 1..size : added[num] = NewClient(x, seq[num], start[seq[num]])
  BY <1>3, <1>6
<1> HIDE DEF added
<1>8. before \in Nat /\ Clients = 1..before /\ client \in Seq(ClientRecords)
  BY Numbered DEF ClientTypeOK
<1>9. added \in Seq(ClientRecords) /\ Len(added) = size
  BY <1>2, <1>7, SeqOf
<1>10. /\ client' \in Seq(ClientRecords) /\ Clients' = 1..(before + size)
       /\ \A num \in 1..before : client'[num] = client[num]
       /\ \A num \in 1..size : client'[before + num] = added[num]
  <2>1. client' \in Seq(ClientRecords) /\ Len(client') = before + size
    <3>1. \A s, t \in Seq(ClientRecords) :
            s \o t \in Seq(ClientRecords) /\ Len(s \o t) = Len(s) + Len(t)
      OBVIOUS
    <3> QED BY <1>1, <1>8, <1>9, <3>1, Zenon
  <2>2. Clients' = 1..(before + size)
    BY <1>2, <1>8, <2>1 DEF Clients
  <2>3. \A num \in 1..before : client'[num] = client[num]
    BY <1>1, <1>2, <1>8, <1>9
  <2>4. \A num \in 1..size : client'[before + num] = added[num]
    BY <1>1, <1>2, <1>8, <1>9
  <2> QED BY <2>1, <2>2, <2>3, <2>4
<1> HIDE DEF before
<1>11. /\ \A p \in new : consumers'[x][p] = before + index(p)
       /\ \A p \in Partitions \ new : consumers'[x][p] = consumers[x][p]
       /\ \A y \in Processors : y # x => consumers'[y] = consumers[y]
  BY <1>1 DEF ClientTypeOK
<1>12. consumers' \in [Processors -> [Partitions -> Nat]]
  <2>1. \A p \in new : before + index(p) \in Nat
    BY <1>2, <1>4, <1>8
  <2> QED BY <1>1, <2>1 DEF ClientTypeOK
<1>13. ASSUME NEW d \in Clients' \ Clients
       PROVE  \E p \in new : client'[d] = NewClient(x, p, start[p]) /\ consumers'[x][p] = d
  <2>1. PICK num \in 1..size : d = before + num
    <3>1. d \in 1..(before + size) /\ d \notin 1..before
      BY <1>8, <1>10, Zenon
    <3>2. d - before \in 1..size /\ d = before + (d - before)
      BY <1>2, <1>8, <3>1
    <3> QED BY <3>2
  <2>2. client'[d] = NewClient(x, seq[num], start[seq[num]]) /\ seq[num] \in new
    BY <1>3, <1>7, <1>10, <2>1
  <2>3. consumers'[x][seq[num]] = d
    BY <1>5, <1>11, <2>1, <2>2
  <2> QED BY <2>2, <2>3
<1>14. ASSUME NEW p \in new
       PROVE  /\ consumers'[x][p] \in Clients' \ Clients
              /\ client'[consumers'[x][p]] = NewClient(x, p, start[p])
  <2>1. before + index(p) \in 1..(before + size) /\ before + index(p) \notin 1..before
    BY <1>2, <1>4, <1>8
  <2>2. consumers'[x][p] \in Clients' \ Clients
    BY <1>8, <1>10, <1>11, <2>1, Zenon
  <2>3. client'[before + index(p)] = added[index(p)]
    BY <1>4, <1>10, Zenon
  <2>4. added[index(p)] = NewClient(x, p, start[p])
    BY <1>4, <1>7, Zenon
  <2> QED BY <1>11, <2>2, <2>3, <2>4, Zenon
<1>15. Clients \subseteq Clients'
  BY <1>2, <1>8, <1>10
<1> QED BY <1>8, <1>10, <1>11, <1>12, <1>13, <1>14, <1>15, Zenon

\* A dispatch adds clients for partitions that have none.
LEMMA AddStep ==
  ASSUME Enumerable, ClientInv, LogInv, DispatchInv, NEW x \in Processors, AddPartitionClients(x)
  PROVE  ClientInv'
PROOF
<1>0. ClientTypeOK /\ MapInv /\ ReadInv /\ (\A d \in Clients : Late(d))
  BY DEF ClientInv
<1> DEFINE new == {p \in won[x] : consumers[x][p] = 0}
           from == [p \in Partitions |-> StartPosition(p, listed[x][p])]
<1>1. /\ InstallClients(x, new, from) /\ phase[x] = "adding"
      /\ phase' = [phase EXCEPT ![x] = "idle"]
      /\ listed' = [listed EXCEPT ![x] = NoClients]
      /\ UNCHANGED <<toClose, cell, link, checkpoint, past, mishaps>>
  BY PastKept DEF AddPartitionClients, Sleep, storedVars
<1>2. new \in SUBSET Partitions /\ from \in [Partitions -> Starts]
  <2>1. new \in SUBSET Partitions /\ listed[x] \in [Partitions -> Nat]
    BY <1>0, Zenon DEF DispatchInv, ClientTypeOK
  <2> QED BY <2>1 DEF StartPosition, LogInv, Starts
<1>3. \A p \in new : consumers[x][p] = 0
  OBVIOUS
<1>s. ASSUME "shared" \notin mishaps, NEW p \in Partitions PROVE Covered(p, from[p])
  <2>1. Covered(p, listed[x][p]) /\ from[p] = StartPosition(p, listed[x][p])
    BY <1>0, <1>s DEF ReadInv
  <2>2. CASE listed[x][p] # 0
    BY <2>1, <2>2 DEF StartPosition
  <2>3. CASE listed[x][p] = 0
    <3>1. from[p] = origin[p]
      BY <2>1, <2>3 DEF StartPosition
    <3>2. 1..origin[p] \subseteq 1..base[p]
      BY DEF LogInv, Starts, Latest
    <3>3. 1..base[p] \subseteq past[p]
      BY DEF past
    <3> QED BY <3>1, <3>2, <3>3 DEF Covered
  <2> QED BY <2>2, <2>3
<1> HIDE DEF new, from
<1>4. /\ client' \in Seq(ClientRecords) /\ Clients \subseteq Clients'
      /\ \A d \in Clients : client'[d] = client[d]
      /\ \A d \in Clients' \ Clients :
           \E p \in new : client'[d] = NewClient(x, p, from[p]) /\ consumers'[x][p] = d
      /\ \A p \in new : /\ consumers'[x][p] \in Clients' \ Clients
                        /\ client'[consumers'[x][p]] = NewClient(x, p, from[p])
      /\ \A p \in Partitions \ new : consumers'[x][p] = consumers[x][p]
      /\ \A y \in Processors : y # x => consumers'[y] = consumers[y]
      /\ consumers' \in [Processors -> [Partitions -> Nat]]
  BY <1>0, <1>1, <1>2, Installed, Zenon
<1>5. \A p, n : LET r == NewClient(x, p, n)
                IN  /\ r.proc = x /\ r.part = p /\ r.start = n /\ r.state = "queued" /\ ~r.closed
                    /\ ~r.orphan /\ r.stream = "check" /\ r.last = 0 /\ r.late = 0
  BY DEF NewClient
<1>6. ASSUME NEW d \in Clients' \ Clients
      PROVE  /\ client'[d].proc = x /\ client'[d].part \in new
             /\ client'[d].state = "queued" /\ ~client'[d].closed /\ ~client'[d].orphan
             /\ client'[d].start = from[client'[d].part] /\ client'[d].stream = "check"
             /\ client'[d].last = 0 /\ client'[d].late = 0
             /\ consumers'[x][client'[d].part] = d
  <2>1. PICK p \in new : client'[d] = NewClient(x, p, from[p]) /\ consumers'[x][p] = d
    BY <1>4, Zenon
  <2>2. LET r == NewClient(x, p, from[p])
        IN  /\ r.proc = x /\ r.part = p /\ r.start = from[p] /\ r.state = "queued" /\ ~r.closed
            /\ ~r.orphan /\ r.stream = "check" /\ r.last = 0 /\ r.late = 0
    BY DEF NewClient
  <2> QED BY <2>1, <2>2, Zenon
<1>7. toClose[x] = {}
  BY <1>0, <1>1, Zenon DEF MapInv, Revoked
<1>8. /\ listed' \in [Processors -> [Partitions -> Nat]]
      /\ \A y \in Processors, p \in Partitions : listed'[y][p] \in {0, listed[y][p]}
  BY <1>0, <1>1, Zenon DEF ClientTypeOK, NoClients
<1>9. Links' = Links
  BY <1>1 DEF Links
<1>10. ClientTypeOK'
  <2>1. ASSUME NEW d \in Clients'
        PROVE  /\ client'[d].state = "queued" => client'[d].stream = "check"
               /\ Reading(d, "wait")' => client'[d].link \in Links
               /\ Reading(d, "yielded")' => client'[d].event # 0
    <3>1. CASE d \in Clients
      BY <1>0, <1>4, <3>1, Zenon DEF ClientTypeOK, Reading
    <3>2. CASE d \notin Clients
      BY <1>6, <3>2, Zenon DEF Reading
    <3> QED BY <3>1, <3>2
  <2> QED BY <1>0, <1>1, <1>4, <1>8, <1>9, <2>1, Zenon DEF ClientTypeOK
<1>11. ASSUME NEW d \in Clients' PROVE Late(d)'
  <2>1. CASE d \in Clients
    BY <1>0, <1>4, <2>1, Zenon DEF Late
  <2>2. CASE d \notin Clients
    BY <1>6, <2>2, Zenon DEF Late
  <2> QED BY <2>1, <2>2
<1>12. ReadInv'
  <2>1. \A d \in Clients : SameReading(client'[d], client[d])
    BY <1>4, Zenon DEF SameReading
  <2>2. ASSUME NEW d \in Clients' \ Clients
        PROVE  /\ client'[d].part \in Partitions /\ client'[d].last = 0 /\ client'[d].stream = "check"
               /\ "shared" \notin mishaps => Covered(client'[d].part, client'[d].start)
    BY <1>2, <1>6, <1>s
  <2> QED BY <1>0, <1>1, <1>4, <1>8, <1>9, <2>1, <2>2, ReadKept, Zenon
<1>13. MapInv'
  <2>1. MapHasOpenClients'
    <3>1. ASSUME NEW y \in Processors, NEW q \in Partitions, consumers'[y][q] # 0
          PROVE  \E has \in Clients' :
                   /\ has = consumers'[y][q] /\ client'[has].proc = y /\ client'[has].part = q
                   /\ ~client'[has].closed /\ ~client'[has].orphan
      <4>1. CASE y = x /\ q \in new
        <5>1. PICK has \in Clients' \ Clients : has = consumers'[x][q]
          BY <1>4, <4>1, Zenon
        <5>2. client'[has] = NewClient(x, q, from[q])
          BY <1>4, <4>1, <5>1, Zenon
        <5>3. NewClient(x, q, from[q]).part = q
          BY DEF NewClient
        <5>4. client'[has].part = q
          BY <5>2, <5>3
        <5> QED BY <1>6, <4>1, <5>1, <5>4, Zenon
      <4>2. CASE ~(y = x /\ q \in new)
        <5>1. consumers'[y][q] = consumers[y][q]
          <6>1. CASE y # x
            BY <1>4, <6>1, Zenon
          <6>2. CASE y = x /\ q \notin new
            BY <1>4, <6>2, Zenon
          <6> QED BY <4>2, <6>1, <6>2
        <5>2. consumers[y][q] # 0
          BY <3>1, <5>1, Zenon
        <5>3. PICK has \in Clients :
                /\ has = consumers[y][q] /\ client[has].proc = y /\ client[has].part = q
                /\ ~client[has].closed /\ ~client[has].orphan
          <6>1. /\ consumers[y][q] \in Clients
                /\ client[consumers[y][q]].proc = y /\ client[consumers[y][q]].part = q
                /\ ~client[consumers[y][q]].closed /\ ~client[consumers[y][q]].orphan
            BY <1>0, <5>2, Mapped, Zenon
          <6> QED BY <6>1
        <5> QED BY <1>4, <5>1, <5>3, Zenon
      <4> QED BY <4>1, <4>2, Zenon
    <3> QED BY <3>1, Remapped, Zenon
  <2>2. ASSUME NEW y \in Processors PROVE Revoked(y)'
    <3>1. CASE y = x
      <4>1. toClose'[x] = {}
        BY <1>1, <1>7, Zenon
      <4> QED BY <3>1, <4>1, Zenon DEF Revoked
    <3>2. CASE y # x
      <4>1. phase'[y] = phase[y] /\ consumers'[y] = consumers[y] /\ toClose'[y] = toClose[y]
        BY <1>1, <1>4, <3>2, Zenon DEF DispatchInv
      <4>2. phase[y] # "closing" => toClose[y] = {}
        BY <1>0, Zenon DEF MapInv, Revoked
      <4> QED BY <1>0, <1>4, <4>1, <4>2, RevokedKept, Zenon
    <3> QED BY <3>1, <3>2
  <2>3. ASSUME NEW d \in Clients', "stale_close" \notin mishaps, Open(d)' PROVE Placed(d)'
    <3>1. CASE d \notin Clients
      BY <1>6, <3>1, Zenon DEF Placed
    <3>2. CASE d \in Clients
      <4>0. client'[d] = client[d] /\ d # 0
        <5>1. d # 0
          BY <1>0, <3>2, Numbered
        <5> QED BY <1>4, <3>2, <5>1, Zenon
      <4>1. Placed(d)
        <5>1. Open(d)
          BY <2>3, <4>0, Zenon DEF Open, Alive
        <5> QED BY <1>0, <2>3, <3>2, <5>1, Zenon DEF MapInv
      <4>2. client[d].proc \in Processors /\ client[d].part \in Partitions
        BY <1>0, <3>2, Numbered DEF ClientRecords
      <4>3. ASSUME client[d].proc = x, client[d].part \in new PROVE FALSE
        <5>1. consumers[x][client[d].part] = 0
          BY <1>3, <4>3, Zenon
        <5>2. d \in toClose[x]
          BY <4>0, <4>1, <4>3, <5>1, Zenon DEF Placed
        <5> QED BY <1>7, <5>2, Zenon
      <4>4. consumers'[client[d].proc][client[d].part] = consumers[client[d].proc][client[d].part]
        <5>1. CASE client[d].proc = x
          BY <1>4, <4>2, <4>3, <5>1, Zenon
        <5>2. CASE client[d].proc # x
          BY <1>4, <4>2, <5>2, Zenon
        <5> QED BY <5>1, <5>2
      <4>5. toClose'[client[d].proc] = toClose[client[d].proc]
        BY <1>1, Zenon
      <4> QED BY <3>2, <4>0, <4>1, <4>4, <4>5, PlacedKept, Zenon
    <3> QED BY <3>1, <3>2
  <2> QED BY <1>1, <2>1, <2>2, <2>3 DEF MapInv
<1> QED BY <1>10, <1>11, <1>12, <1>13 DEF ClientInv

LEMMA ClientInit == Init => ClientInv /\ LogInv
PROOF
<1> SUFFICES ASSUME Init PROVE ClientInv /\ LogInv
  OBVIOUS
<1>1. client = <<>> /\ link = <<>> /\ Clients = {} /\ Links = {}
  BY DEF Init, Clients, Links
<1>l. LogInv
  <2>1. origin \in [Partitions -> Starts]
    <3>1. limit.origins \in SUBSET Starts
      BY LimitsAssumption DEF Init
    <3>2. origin \in [Partitions -> limit.origins]
      BY DEF Init
    <3> QED BY <3>1, <3>2
  <2>2. \A p \in Partitions : origin[p] \in Nat \/ origin[p] = -1
    BY <2>1 DEF Starts, Latest
  <2>3. /\ base = [p \in Partitions |-> IF origin[p] = -1 THEN 0 ELSE origin[p]] /\ tail = base
        /\ handled = [p \in Partitions |-> {}]
    BY DEF Init, Latest
  <2>4. base \in [Partitions -> Nat] /\ \A p \in Partitions : origin[p] <= base[p] /\ base[p] <= tail[p]
    BY <2>2, <2>3
  <2> QED BY <2>1, <2>3, <2>4 DEF LogInv
<1>p. past \in [Partitions -> SUBSET Nat]
  BY <1>l DEF LogInv, past
<1>2. ClientTypeOK
  <2>1. NoClients \in [Partitions -> Nat] /\ \A p \in Partitions : NoClients[p] = 0
    BY DEF NoClients
  <2>2. /\ consumers \in [Processors -> [Partitions -> Nat]]
        /\ listed \in [Processors -> [Partitions -> Nat]]
        /\ cell \in [Processors -> [Partitions -> Nat]]
        /\ \A x \in Processors, p \in Partitions : cell[x][p] = 0
    BY <2>1 DEF Init
  <2>3. toClose \in [Processors -> SUBSET Nat] /\ checkpoint \in [Partitions -> Nat]
    BY DEF Init
  <2>4. client \in Seq(ClientRecords) /\ link \in Seq(LinkRecords)
    BY <1>1
  <2> QED BY <1>1, <1>p, <2>2, <2>3, <2>4 DEF ClientTypeOK
<1>3. \A p \in Partitions : Covered(p, 0)
  BY DEF Covered
<1>4. ReadInv
  BY <1>1, <1>3, Zenon DEF ReadInv, CellRead, Init, NoClients
<1>5. MapInv
  BY <1>1 DEF MapInv, MapHasOpenClients, Revoked, Init, NoClients
<1> QED BY <1>1, <1>2, <1>4, <1>5, <1>l DEF ClientInv

\* Every step keeps what is known of the partitions.
LEMMA LogStep == ClientInv /\ LogInv /\ [Next]_vars => LogInv'
PROOF
<1> SUFFICES ASSUME ClientInv, LogInv, [Next]_vars PROVE LogInv'
  OBVIOUS
<1>0. ASSUME NEW c \in Clients
      PROVE  /\ client[c].part \in Partitions /\ client[c].start \in Starts
             /\ client[c].event \in Nat
             /\ Reading(c, "wait") => link[client[c].link].pos \in Nat
  <2>1. ClientTypeOK /\ client[c] \in ClientRecords
    BY Numbered DEF ClientInv
  <2>2. Reading(c, "wait") => link[client[c].link] \in LinkRecords
    BY <2>1, Numbered DEF ClientTypeOK
  <2> QED BY <2>1, <2>2 DEF ClientRecords, LinkRecords
<1>q. ASSUME UNCHANGED <<origin, storedVars>> PROVE LogInv'
  BY <1>q DEF LogInv, storedVars
<1>k. ASSUME UNCHANGED <<origin, handled, tail, base>> PROVE LogInv'
  BY <1>k DEF LogInv
<1>1. CASE StoreNext \/ UNCHANGED vars
  BY <1>1, <1>q DEF StoreNext, vars, dispatchVars
<1>2. ASSUME NEW x \in Processors, DispatchNext(x) PROVE LogInv'
  <2>1. UNCHANGED <<origin, storedVars>>
    BY <1>2
    DEF DispatchNext, Dispatch, Revoke, CloseRevoked, ListCheckpoints, AddPartitionClients, Sleep,
        RunReturns, Crash, Run, dispatchVars
  <2> QED BY <2>1, <1>q
<1>3. ASSUME NEW c \in Clients, EnsureReceiver(c) PROVE LogInv'
  <2>1. origin' = origin /\ handled' = handled
    BY <1>3 DEF EnsureReceiver, dispatchVars
  <2>2. CASE UNCHANGED <<tail, base>>
    BY <2>1, <2>2, <1>k
  <2>3. CASE Attach(c)
    <3>1. /\ base' \in [Partitions -> Nat] /\ tail' \in [Partitions -> Nat]
          /\ \A p \in Partitions : base[p] <= base'[p] /\ base'[p] <= tail'[p]
      BY <1>0, <2>3, Attached
    <3>2. \A p \in Partitions : origin[p] \in Int /\ base[p] \in Int /\ base'[p] \in Int
      BY <3>1 DEF LogInv, Starts, Latest
    <3> QED BY <2>1, <3>1, <3>2 DEF LogInv
  <2> QED BY <1>3, <2>2, <2>3 DEF EnsureReceiver
<1>4. ASSUME NEW c \in Clients, Receive(c) PROVE LogInv'
  <2>1. /\ UNCHANGED <<origin, handled, base>>
        /\ tail' = [tail EXCEPT ![client[c].part] =
                      IF @ < link[client[c].link].pos + 1 THEN link[client[c].link].pos + 1 ELSE @]
    BY <1>4 DEF Receive, dispatchVars
  <2>2. client[c].part \in Partitions /\ link[client[c].link].pos \in Nat
    BY <1>0, <1>4 DEF Receive
  <2> DEFINE n == link[client[c].link].pos + 1
             end == IF tail[client[c].part] < n THEN n ELSE tail[client[c].part]
  <2>t. tail \in [Partitions -> Nat]
    BY DEF LogInv
  <2>n. end \in Nat /\ tail[client[c].part] <= end
    <3>1. n \in Nat /\ tail[client[c].part] \in Nat
      BY <2>2, <2>t
    <3> HIDE DEF n
    <3> QED BY <3>1
  <2>e. tail' = [tail EXCEPT ![client[c].part] = end]
    BY <2>1
  <2> HIDE DEF end
  <2>3. tail' \in [Partitions -> Nat] /\ \A p \in Partitions : tail[p] <= tail'[p]
    <3>1. \A p \in Partitions : tail'[p] = IF p = client[c].part THEN end ELSE tail[p]
      BY <2>2, <2>t, <2>e
    <3>2. \A p \in Partitions : tail[p] \in Nat /\ tail[p] <= tail'[p]
      BY <2>t, <2>n, <3>1
    <3> QED BY <2>2, <2>t, <2>n, <2>e, <3>2
  <2>4. \A p \in Partitions : base[p] <= tail'[p]
    BY <2>3 DEF LogInv
  <2> QED BY <2>1, <2>3, <2>4 DEF LogInv
<1>5. ASSUME NEW c \in Clients, Handle(c) PROVE LogInv'
  <2>1. /\ UNCHANGED <<origin, tail, base>>
        /\ handled' = [handled EXCEPT ![client[c].part] = @ \cup {client[c].event}]
    BY <1>5 DEF Handle, dispatchVars
  <2>2. handled' \in [Partitions -> SUBSET Nat]
    BY <1>0, <2>1 DEF LogInv
  <2> QED BY <2>1, <2>2 DEF LogInv
<1>6. ASSUME NEW c \in Clients, ClientNext(c), ~EnsureReceiver(c), ~Receive(c), ~Handle(c)
      PROVE  LogInv'
  <2>1. UNCHANGED <<origin, handled, tail, base>>
    BY <1>6
    DEF ClientNext, NextPartitionClient, CheckClosed, Reconnect, StreamFails, UpdateCheckpoint,
        Drop, Close, CloseRemoves, CloseFails, dispatchVars, storedVars
  <2> QED BY <2>1, <1>k
<1> QED BY <1>1, <1>2, <1>3, <1>4, <1>5, <1>6 DEF Next

\* Every step of a processor or a client keeps the invariant.
LEMMA ClientStep == Enumerable /\ ClientInv /\ LogInv /\ DispatchInv /\ [Next]_vars => ClientInv'
PROOF
<1> SUFFICES ASSUME Enumerable, ClientInv, LogInv, DispatchInv, [Next]_vars PROVE ClientInv'
  OBVIOUS
<1>1. CASE StoreNext \/ UNCHANGED vars
  BY <1>1, RecordSteps
<1>2. ASSUME NEW x \in Processors, DispatchNext(x) PROVE ClientInv'
  <2>1. CASE Dispatch(x) \/ ListCheckpoints(x) \/ Run(x)
    BY <2>1, RecordSteps
  <2>2. CASE Revoke(x)
    BY <2>2, RevokeStep
  <2>3. CASE AddPartitionClients(x)
    BY <2>3, AddStep
  <2>4. CASE \E c \in Clients : CloseRevoked(x, c)
    BY <2>4, CloseRevokedStep
  <2>5. CASE RunReturns(x) \/ Crash(x)
    BY <2>5, EndStep
  <2> QED BY <1>2, <2>1, <2>2, <2>3, <2>4, <2>5 DEF DispatchNext
<1>3. ASSUME NEW c \in Clients, ClientNext(c) PROVE ClientInv'
  <2>1. CASE EnsureReceiver(c)
    BY <2>1, EnsureStep
  <2>2. CASE Receive(c)
    BY <2>2, ReceiveStep
  <2>3. CASE UpdateCheckpoint(c)
    BY <2>3, CheckpointStep
  <2>4. CASE CloseRemoves(c)
    BY <2>4, CloseRemovesStep
  <2>5. CASE \/ NextPartitionClient(c) \/ CheckClosed(c) \/ StreamFails(c)
             \/ Handle(c) \/ Drop(c) \/ Close(c) \/ CloseFails(c) \/ Reconnect(c)
    BY <2>5, QuietSteps
  <2> QED BY <1>3, <2>1, <2>2, <2>3, <2>4, <2>5 DEF ClientNext
<1> QED BY <1>1, <1>2, <1>3 DEF Next
=============================================================================
