--------------------------- MODULE EventProcessor ---------------------------
(***************************************************************************)
(* Event processors, the partition clients they hand to the application,   *)
(* the AMQP links those clients read from, and the checkpoints they write. *)
(* The claim phase of a dispatch is module Ownership; this module adds the *)
(* rest of EventProcessor::dispatch, the life of a PartitionClient and its *)
(* event stream, and the broker's rule that attaching to a partition       *)
(* displaces the link attached before (all links have owner level 0).      *)
(*                                                                         *)
(* Events of a partition are numbered 1, 2, ...; a position is the number  *)
(* of the last event passed, 0 before the first.  No checkpoint is         *)
(* position 0; where reading starts then is configured, for a group of     *)
(* processors that are configured alike: a position, or the end of the     *)
(* partition as it is when a link attaches.                                *)
(***************************************************************************)
EXTENDS Ownership, Integers, Sequences, Functions

CONSTANT Limits  \* bounds to explore: every behaviour keeps to one of them

\* StartLocation::Latest, which is not a position.
Latest == -1
Starts == Nat \cup {Latest}

ASSUME LimitsAssumption ==
  Limits \subseteq
    [changes : 0..MaxChanges,  \* starts and stops of run()
     cycles  : Nat,            \* dispatches of all processors
     events  : Nat,            \* events per partition
     origins : SUBSET Starts,  \* configured start positions
     clients : Nat,            \* partition clients a processor ever creates
     links   : Nat]            \* links ever attached

VARIABLES
  limit,       \* the bounds this behaviour keeps to
  origin,      \* origin[p]: start_positions, p's own or the default
  cycles,      \* dispatches so far
  consumers,   \* consumers[x][p]: the client ProcessorConsumersMap has, or 0
  toClose,     \* toClose[x]: revoked clients whose receivers are to be closed
  listed,      \* listed[x][p]: the checkpoint x listed in this dispatch
  client,      \* the partition clients, by number of creation
  cell,        \* cell[x][p]: the link in x's receiver_instances, or 0
  link,        \* the AMQP links, by number of attachment
  checkpoint,  \* checkpoint[p]: the position in the store
  handled,     \* handled[p]: the events applications have processed
  tail,        \* tail[p]: so many events are known to be in the partition
  base,        \* history: reading began here, and anew at every attach at Latest
  mishaps      \* history: "shared" once two clients read from one link,
               \* "stale_close" once a close took a successor's map entry

clientVars == <<client, cell, link>>
storedVars == <<checkpoint, handled, tail, base, mishaps>>
mapVars == <<consumers, toClose, listed>>
dispatchVars == <<limit, origin, cycles, mapVars>>
vars == <<ownershipVars, dispatchVars, clientVars, storedVars>>

\* client and link are sequences: their numbers are their indices, 0 is none.
Clients == DOMAIN client
Links   == DOMAIN link

NoClients == [p \in Partitions |-> 0]

Init ==
  /\ OwnershipInit
  /\ limit \in Limits
  /\ origin \in [Partitions -> limit.origins]
  /\ cycles     = 0
  /\ consumers  = [x \in Processors |-> NoClients]
  /\ toClose    = [x \in Processors |-> {}]
  /\ listed     = [x \in Processors |-> NoClients]
  /\ client     = <<>>
  /\ cell       = [x \in Processors |-> NoClients]
  /\ link       = <<>>
  /\ checkpoint = [p \in Partitions |-> 0]
  /\ handled    = [p \in Partitions |-> {}]
  /\ base       = [p \in Partitions |-> IF origin[p] = Latest THEN 0 ELSE origin[p]]
  /\ tail       = base
  /\ mishaps    = {}

-----------------------------------------------------------------------------
(* The rest of a dispatch *)

\* Links in S are gone; where they were no longer matters.
Disconnect(S) ==
  [l \in Links |-> IF l \in S THEN [link[l] EXCEPT !.up = FALSE, !.pos = 0, !.by = 0]
                  ELSE link[l]]

Alive(c) == client[c].state \in {"queued", "held"}

\* A dispatch begins.
Dispatch(x) ==
  /\ cycles < limit.cycles
  /\ cycles' = cycles + 1
  /\ ListOwnerships(x)
  /\ UNCHANGED <<limit, origin, mapVars, clientVars, storedVars>>

\* Faulty variant of Revoke: the entries stay in the map.
RevokeKeepsEntries(x) ==
  LET stolen == {p \in Partitions \ won[x] : consumers[x][p] # 0}
  IN  /\ phase[x] = "claim" /\ todo[x] = {}
      /\ phase' = [phase EXCEPT ![x] = "closing"]
      /\ ForgetListing(x)
      /\ toClose' = [toClose EXCEPT ![x] =
                       {c \in {consumers[x][p] : p \in stolen} : Alive(c)}]
      /\ UNCHANGED <<owner, expired, todo, won, changes, limit, origin, cycles,
                     consumers, listed, clientVars, storedVars>>

\* The part of dispatch after load_balance: entries of partitions that were
\* not granted leave the map, and those of their clients that somebody still
\* holds (Weak::upgrade) are to be closed.
Revoke(x) ==
  LET stolen == {p \in Partitions \ won[x] : consumers[x][p] # 0}
  IN  /\ phase[x] = "claim" /\ todo[x] = {}
      /\ phase' = [phase EXCEPT ![x] = "closing"]
      /\ ForgetListing(x)
      /\ consumers' = [consumers EXCEPT ![x] =
                         [p \in Partitions |-> IF p \in stolen THEN 0 ELSE @[p]]]
      /\ toClose' = [toClose EXCEPT ![x] =
                       {c \in {consumers[x][p] : p \in stolen} : Alive(c)}]
      /\ UNCHANGED <<owner, expired, todo, won, changes, limit, origin, cycles,
                     listed, clientVars, storedVars>>

\* request_close_receiver: the flag first, then close_receiver takes the cell
\* out of the connection.  A receive in flight keeps its link.
CloseRevoked(x, c) ==
  /\ phase[x] = "closing" /\ c \in toClose[x]
  /\ toClose' = [toClose EXCEPT ![x] = @ \ {c}]
  /\ client' = [client EXCEPT ![c].closed = TRUE]
  /\ cell'   = [cell EXCEPT ![x][client[c].part] = 0]
  /\ UNCHANGED <<ownershipVars, limit, origin, cycles, consumers, listed, link,
                 storedVars>>

\* get_checkpoint_map.
ListCheckpoints(x) ==
  /\ phase[x] = "closing" /\ toClose[x] = {}
  /\ phase'  = [phase EXCEPT ![x] = "adding"]
  /\ listed' = [listed EXCEPT ![x] = checkpoint]
  /\ UNCHANGED <<storeVars, todo, won, changes, limit, origin, cycles, consumers,
                 toClose, clientVars, storedVars>>

\* Nobody has client r any more: what it was doing no longer matters.
Discard(r) ==
  [r EXCEPT !.state = "gone", !.stream = "ended", !.link = 0, !.event = 0,
            !.last = 0, !.start = 0, !.late = 0, !.closed = FALSE,
            !.orphan = FALSE]

\* get_start_position: after the checkpoint, or else where it is configured.
StartPosition(p, position) == IF position # 0 THEN position ELSE origin[p]

NewClient(x, p, start) ==
  [proc |-> x, part |-> p, start |-> start, state |-> "queued",
   closed |-> FALSE, orphan |-> FALSE,
   stream |-> "check", link |-> 0, event |-> 0, last |-> 0, late |-> 0]

\* Clients for the partitions in new: entries are made in the map and the
\* clients sent to the channel of next_partition_client.  Opening a receiver
\* does not attach a link.
InstallClients(x, new, start) ==
  LET seq   == CHOOSE s \in Bijection(1..Cardinality(new), new) : TRUE
      added == [i \in DOMAIN seq |-> NewClient(x, seq[i], start[seq[i]])]
      index(p) == CHOOSE i \in DOMAIN seq : seq[i] = p
  IN  /\ Cardinality({c \in Clients : client[c].proc = x}) + Len(seq)
           <= limit.clients
      /\ client'    = client \o added
      /\ consumers' = [consumers EXCEPT ![x] =
           [p \in Partitions |-> IF p \in new THEN Len(client) + index(p) ELSE @[p]]]

\* run() goes to sleep.
Sleep(x) ==
  /\ phase'  = [phase EXCEPT ![x] = "idle"]
  /\ won'    = [won EXCEPT ![x] = {}]
  /\ listed' = [listed EXCEPT ![x] = NoClients]
  /\ UNCHANGED <<storeVars, todo, changes, limit, origin, cycles, toClose, cell, link,
                 storedVars>>

\* Faulty variant of AddPartitionClients: the map is not consulted.
AddPartitionClientsAlways(x) ==
  /\ phase[x] = "adding"
  /\ InstallClients(x, won[x],
                    [p \in Partitions |-> StartPosition(p, listed[x][p])])
  /\ Sleep(x)

\* Faulty variant of AddPartitionClients: reading starts one event too late.
AddPartitionClientsAfter(x) ==
  /\ phase[x] = "adding"
  /\ InstallClients(x, {p \in won[x] : consumers[x][p] = 0},
                    [p \in Partitions |-> StartPosition(p, listed[x][p] + 1)])
  /\ Sleep(x)

\* add_partition_client and get_start_position for all that was granted; none
\* of it suspends.  A partition that has an entry in the map is skipped,
\* whether or not the client still exists.
AddPartitionClients(x) ==
  /\ phase[x] = "adding"
  /\ InstallClients(x, {p \in won[x] : consumers[x][p] = 0},
                    [p \in Partitions |-> StartPosition(p, listed[x][p])])
  /\ Sleep(x)

\* Faulty variant of EndRun: what was left to claim is claimed all the same.
EndRunKeepsClaims(x, next) ==
  /\ changes < limit.changes
  /\ changes'   = IF phase[x] = "stopped" THEN changes ELSE changes + 1
  /\ phase'     = [phase EXCEPT ![x] = next]
  /\ won'       = [won EXCEPT ![x] = {}]
  /\ consumers' = [consumers EXCEPT ![x] = NoClients]
  /\ toClose'   = [toClose EXCEPT ![x] = {}]
  /\ listed'    = [listed EXCEPT ![x] = NoClients]
  /\ ForgetListing(x)
  /\ UNCHANGED todo

\* What is lost when run() ends: everything local to it, the map included.
EndRun(x, next) ==
  /\ changes < limit.changes
  /\ changes'   = IF phase[x] = "stopped" THEN changes ELSE changes + 1
  /\ phase'     = [phase EXCEPT ![x] = next]
  /\ todo'      = [todo EXCEPT ![x] = {}]
  /\ won'       = [won EXCEPT ![x] = {}]
  /\ consumers' = [consumers EXCEPT ![x] = NoClients]
  /\ toClose'   = [toClose EXCEPT ![x] = {}]
  /\ listed'    = [listed EXCEPT ![x] = NoClients]
  /\ ForgetListing(x)

\* shutdown() noticed after the sleep, or a store request of the dispatch
\* failed.  The clients the application has live on, without a map.
RunReturns(x) ==
  /\ phase[x] \in {"idle", "claim", "closing"}
  /\ EndRun(x, "stopped")
  /\ client' = [c \in Clients |->
                  [client[c] EXCEPT !.orphan =
                     @ \/ (client[c].proc = x /\ client[c].state # "gone")]]
  /\ UNCHANGED <<owner, expired, limit, origin, cycles, cell, link, storedVars>>

\* The process of x dies with all its clients and links.  A new process has
\* another client id: it is another processor.
Crash(x) ==
  /\ phase[x] # "crashed"
  /\ EndRun(x, "crashed")
  /\ client' = [c \in Clients |->
                  IF client[c].proc = x
                  THEN Discard(client[c]) ELSE client[c]]
  /\ cell' = [cell EXCEPT ![x] = NoClients]
  /\ link' = Disconnect({cell[x][p] : p \in Partitions}
                          \cup {client[c].link : c \in {d \in Clients : client[d].proc = x}})
  /\ UNCHANGED <<owner, expired, limit, origin, cycles, storedVars>>

\* run(), for the first time or again.
Run(x) ==
  /\ changes < limit.changes
  /\ Start(x)
  /\ UNCHANGED <<dispatchVars, clientVars, storedVars>>

-----------------------------------------------------------------------------
(* A partition client and its event stream *)

\* next_partition_client; the application starts reading.
NextPartitionClient(c) ==
  /\ client[c].state = "queued"
  /\ client' = [client EXCEPT ![c].state = "held"]
  /\ UNCHANGED <<ownershipVars, dispatchVars, cell, link, storedVars>>

Reading(c, where) == client[c].state = "held" /\ client[c].stream = where

\* Faulty variant of CheckClosed: the stream goes on whatever the flag says.
CheckNothing(c) ==
  /\ Reading(c, "check")
  /\ client' = [client EXCEPT ![c].stream = "ensure"]
  /\ UNCHANGED <<ownershipVars, dispatchVars, cell, link, storedVars>>

\* The head of stream_events' loop.
CheckClosed(c) ==
  /\ Reading(c, "check")
  /\ client' = [client EXCEPT ![c].stream =
                  IF client[c].closed THEN "ended" ELSE "ensure"]
  /\ UNCHANGED <<ownershipVars, dispatchVars, cell, link, storedVars>>

\* A new link for client c: the broker disconnects whoever was attached to the
\* partition.  It starts where this client does, every time, which is the end
\* of the partition as it is now for a client that starts at Latest.
Attach(c) ==
  LET p == client[c].part
      latest == client[c].start = Latest
      others == {l \in Links : link[l].part = p}
  IN  \E pos \in IF latest THEN tail[p]..limit.events ELSE {client[c].start} :
        /\ link' = Append(Disconnect(others),
                          [part |-> p, pos |-> pos, up |-> TRUE, by |-> c])
        /\ tail' = IF latest THEN [tail EXCEPT ![p] = pos] ELSE tail
        /\ base' = IF latest THEN [base EXCEPT ![p] = pos] ELSE base

\* ensure_receiver: the link in the cell of the partition, which all clients
\* of the processor share, or else a new one.
EnsureReceiver(c) ==
  LET x == client[c].proc
      p == client[c].part
      have == cell[x][p] # 0
  IN  /\ Reading(c, "ensure")
      /\ \/ have /\ UNCHANGED <<link, cell, tail, base>>
         \/ /\ ~have /\ Len(link) < limit.links
            /\ Attach(c)
            /\ cell' = [cell EXCEPT ![x][p] = Len(link')]
      /\ client' = [client EXCEPT ![c].stream = "wait", ![c].link = cell'[x][p]]
      /\ mishaps' = IF have /\ link[cell[x][p]].by \notin {0, c}
                    THEN mishaps \cup {"shared"} ELSE mishaps
      /\ UNCHANGED <<ownershipVars, dispatchVars, checkpoint, handled>>

\* receive_delivery returns the next event of the link, and it is yielded.
Receive(c) ==
  LET l == client[c].link
      p == client[c].part
      e == link[l].pos + 1
  IN  /\ Reading(c, "wait") /\ link[l].up /\ e <= limit.events
      /\ link' = [link EXCEPT ![l].pos = e]
      /\ tail' = [tail EXCEPT ![p] = IF @ < e THEN e ELSE @]
      /\ client' = [client EXCEPT ![c].event = e,
                                  ![c].stream = "yielded", ![c].link = 0,
                                  ![c].late = IF client[c].closed THEN @ + 1 ELSE @]
      /\ UNCHANGED <<ownershipVars, dispatchVars, cell, checkpoint, handled, base,
                     mishaps>>

\* The link fails in a way that asks for a reconnect: recover_from_error drops
\* all receivers of the connection, and receive_delivery tries again.
Reconnect(c) ==
  /\ Reading(c, "wait")
  /\ link' = Disconnect({client[c].link})
  /\ cell' = [cell EXCEPT ![client[c].proc] = NoClients]
  /\ client' = [client EXCEPT ![c].stream = "ensure", ![c].link = 0]
  /\ UNCHANGED <<ownershipVars, dispatchVars, storedVars>>

\* The link is stolen, the attach rejected, or the retries are exhausted: the
\* stream ends with the error.  The cell keeps the link.
StreamFails(c) ==
  /\ Reading(c, "wait") \/ Reading(c, "ensure")
  /\ client' = [client EXCEPT ![c].stream = "ended", ![c].link = 0]
  /\ UNCHANGED <<ownershipVars, dispatchVars, cell, link, storedVars>>

\* The application processes the event and polls the stream again.
Handle(c) ==
  /\ Reading(c, "yielded")
  /\ handled' = [handled EXCEPT ![client[c].part] = @ \cup {client[c].event}]
  /\ client'  = [client EXCEPT ![c].last = client[c].event, ![c].event = 0,
                               ![c].stream = "check"]
  /\ UNCHANGED <<ownershipVars, dispatchVars, cell, link, checkpoint, tail, base,
                 mishaps>>

\* update_checkpoint with the last processed event: an unconditional write.
UpdateCheckpoint(c) ==
  /\ client[c].state = "held" /\ client[c].last # 0
  /\ checkpoint' = [checkpoint EXCEPT ![client[c].part] = client[c].last]
  /\ UNCHANGED <<ownershipVars, dispatchVars, clientVars, handled, tail, base, mishaps>>

\* The application drops a client whose stream has ended.
Drop(c) ==
  /\ Reading(c, "ended")
  /\ client' = [client EXCEPT ![c] = Discard(@)]
  /\ UNCHANGED <<ownershipVars, dispatchVars, cell, link, storedVars>>

\* PartitionClient::close, up to the detach.
Close(c) ==
  /\ client[c].state = "held" /\ client[c].event = 0
  /\ cell' = [cell EXCEPT ![client[c].proc][client[c].part] = 0]
  /\ client' = [client EXCEPT ![c].state = "closing", ![c].link = 0]
  /\ UNCHANGED <<ownershipVars, dispatchVars, link, storedVars>>

\* The rest of close: the partition's entry leaves the map, if there is one.
CloseRemoves(c) ==
  /\ client[c].state = "closing"
  /\ client' = [client EXCEPT ![c] = Discard(@)]
  /\ consumers' = IF client[c].orphan THEN consumers
                  ELSE [consumers EXCEPT ![client[c].proc][client[c].part] = 0]
  /\ mishaps' = IF /\ ~client[c].orphan
                   /\ consumers[client[c].proc][client[c].part] \notin {0, c}
                THEN mishaps \cup {"stale_close"} ELSE mishaps
  /\ UNCHANGED <<ownershipVars, limit, origin, cycles, toClose, listed, cell, link,
                 checkpoint, handled, tail, base>>

\* The detach failed: close returns before it reaches the map.
CloseFails(c) ==
  /\ client[c].state = "closing"
  /\ client' = [client EXCEPT ![c] = Discard(@)]
  /\ UNCHANGED <<ownershipVars, dispatchVars, cell, link, storedVars>>

ClientNext(c) ==
  \/ NextPartitionClient(c) \/ CheckClosed(c) \/ EnsureReceiver(c)
  \/ Receive(c) \/ Reconnect(c) \/ StreamFails(c) \/ Handle(c)
  \/ UpdateCheckpoint(c) \/ Drop(c)
  \/ Close(c) \/ CloseRemoves(c) \/ CloseFails(c)

StoreNext ==
  /\ \/ \E x \in Processors :
          \E p \in Partitions :
            \/ ClaimGranted(x, p) \/ ClaimLost(x, p)
            \/ ClaimUnacknowledged(x, p)
     \/ \E p \in Partitions : Expire(p)
  /\ UNCHANGED <<dispatchVars, clientVars, storedVars>>

DispatchNext(x) ==
  \/ Dispatch(x) \/ Revoke(x) \/ ListCheckpoints(x) \/ AddPartitionClients(x)
  \/ \E c \in Clients : CloseRevoked(x, c)
  \/ RunReturns(x) \/ Crash(x) \/ Run(x)

Next ==
  \/ StoreNext
  \/ \E x \in Processors : DispatchNext(x)
  \/ \E c \in Clients : ClientNext(c)

Spec == Init /\ [][Next]_vars

-----------------------------------------------------------------------------
(* What the processors promise *)

\* "We can only have a single EventReceiver on a partition"
\* (processor.rs:433): within one run a processor has at most one open client
\* for a partition, and whoever holds an older one has been told, by the
\* closed flag, to stop reading - unless closing a revoked client took the
\* map entry of its successor.
OneOpenClient ==
  \A c, d \in Clients :
    /\ "stale_close" \notin mishaps
    /\ client[c].proc = client[d].proc /\ client[c].part = client[d].part
    /\ Alive(c) /\ ~client[c].closed /\ ~client[c].orphan
    /\ Alive(d) /\ ~client[d].closed /\ ~client[d].orphan
    => c = d

\* What the map has for a partition is a client of this processor for this
\* partition that has not been told to stop: a revoked client cannot be
\* mistaken for a current one.
MapHasOpenClients ==
  \A x \in Processors, p \in Partitions :
    consumers[x][p] # 0 =>
      LET c == consumers[x][p]
      IN  /\ c \in Clients
          /\ client[c].proc = x /\ client[c].part = p
          /\ ~client[c].closed /\ ~client[c].orphan

\* A revoked stream yields at most the one event it was already waiting for.
RevokedYieldsOnce == \A c \in Clients : client[c].late <= 1

\* Of the events after the place where reading began, a checkpoint covers only
\* such that some application has processed, so whoever continues from it skips
\* none of them - as long as no two clients have read from one link, whatever
\* clients displace each other, reconnect, crash and write checkpoints late.
\* Reading began at the configured start position; at StartLocation::Latest it
\* begins anew wherever a link attaches that no checkpoint tells where to start.
NoEventSkipped ==
  "shared" \notin mishaps
    => \A p \in Partitions : (base[p] + 1)..checkpoint[p] \subseteq handled[p]

\* A dispatch leaves every partition it was granted with a client that has
\* been or will be handed to the application and can read.
WonIsServed ==
  [][\A x \in Processors, p \in Partitions :
       AddPartitionClients(x) /\ p \in won[x] =>
         LET c == consumers'[x][p]
         IN  client'[c].state # "gone" /\ ~client'[c].closed]_vars
=============================================================================
