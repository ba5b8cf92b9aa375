# A TLA+ model of the Azure SDK for Rust

The repository is a set of client libraries. Most of it is generated clients,
data types and sequential request building, for which a model checker has
little to say. Its difficult part is what the libraries keep *between*
requests and share *among* them: caches filled by whoever comes first,
routing state that background loops and operations rewrite without locks,
leases on partitions that several processes compete for, tokens that expire
while they are used, a queue between an async runtime and foreign threads. These
modules model that part.

Contents: [the system](#the-system), [modules and code](#modules-and-code),
[runs](#runs), [bounds](#bounds), [fairness](#fairness), [proofs](#proofs),
[where code and documentation disagree](#where-code-and-documentation-disagree),
[what is not modelled](#what-is-not-modelled), [running it](#running-it).

File names below are relative to these directories of `src/sdk/`:

| short | directory |
|---|---|
| `cosmos:` | `cosmos/azure_data_cosmos_driver/src/driver/` |
| `eh:` | `eventhubs/azure_messaging_eventhubs/src/` |
| `blobstore:` | `eventhubs/azure_messaging_eventhubs_checkpointstore_blob/src/` |
| `core:` | `core/azure_core/src/` |
| `native:` | `cosmos/azure_data_cosmos_driver_native/src/` |

## The system

| part | state it keeps | operations | who interacts | what is hard | modelled |
|---|---|---|---|---|---|
| Cosmos `AsyncCache`, `AsyncLazy` (`cosmos:cache/`) | a map of lazy cells, each behind a lock | get, get_or_insert_with, get_or_refresh_with, invalidate, invalidate_if_same | all operations of a client | single flight; a caller dropped at an await; replaced cells still in use | `AsyncCache` |
| Cosmos `LocationStateStore`: pointers (`cosmos:routing/location_state_store.rs`) | two atomic pointers, a version, a cached snapshot | apply_account, apply_partition, snapshot | operations and background loops, without locks | lost updates, stale snapshots | `LocationSnapshot` |
| the same: account refresh and probes | last synced ETag and Arc, the Gateway 2.0 gate, proven regions, marks on endpoints | refresh, connectivity probe, sync_account_properties, endpoint failback | refresh timer, probe loop, every operation | two fast paths that skip work; old answers; overlapping syncs | `AccountSync` |
| Cosmos per-partition circuit breaker (`cosmos:routing/routing_systems.rs`) with the operation pipeline (`cosmos:pipeline/`) | failure counts and an override per partition, consecutive hedge wins | mark, move on, sweep, probe, clean up; attempt, retry, hedge | operations, failback loop | counters at thresholds, races of hedges, probes against new failures | `CircuitBreaker` |
| Cosmos PATCH (`cosmos:pipeline/patch_handler.rs`) and session tokens (`session_manager.rs`, `session_container.rs`) | the effective token of a call, the driver's token cache | Read, merge, conditional Replace, retry on 412; capture, resolve | calls of this driver, other clients, lagging regions | lost updates, lost responses, stale reads | `PatchHandler` |
| Cosmos native driver (`native:completion.rs`, `submit.rs`) | completion queue, operation handles | submit, cancel, enqueue, wait, wait_writable, shutdown | host threads, runtime tasks | shutdown races, lost wake-ups, capacity | `CompletionQueue`, `Delivery` |
| Cosmos container and partition key range caches, sharded transport, query dataflow | see `PROJECT.json` | | | | no |
| Event Hubs load balancer (`eh:event_processor/load_balancer.rs`) | none: a decision on a listing | load_balance | all processors of a consumer group | convergence, thrashing, rounding | `LoadBalancer`, `Rebalance` |
| Event Hubs blob checkpoint store (`blobstore:checkpoint_store.rs`) | ownership and checkpoint blobs with ETags | list, claim_ownership, update_checkpoint | processors in different processes | stale listings, lost responses | `Ownership`, `EventProcessor` |
| Event Hubs processor, partition clients, receivers (`eh:event_processor/`, `eh:consumer/`, `eh:common/recoverable/`) | consumers map, channel of clients, receiver cells | run, dispatch, next_partition_client, stream_events, update_checkpoint, close | processors, application, broker | revocation against reading, displacement of links, crashes | `EventProcessor` |
| `azure_core` bearer token policy (`core:http/policies/auth/bearer_token_policy.rs`) | one cached token | authorize, invalidate_cache, send | concurrent requests | double check, writer preference, challenges | `BearerToken` |
| Pager and poller, retry policies, Event Hubs authorizer, storage transfers, Service Bus, Key Vault, Identity, generated clients | see `PROJECT.json` | | | | no |

The parts meet in these places, which the compositions follow:

* `AccountSync` stands on the other two Cosmos modules. Its metadata cache is
  an `AsyncCache` with one key, of which it uses get_or_insert_with and the
  two steps of get_or_refresh_with (`Observe`, `Replace`). Its account pointer
  is one of the two of `LocationSnapshot`, reduced to the question whether
  somebody has replaced it since it was loaded (`watch`).
* `Ownership` and `Rebalance` both extend `LoadBalancer`: the same decision,
  once with every store request a step and once with a whole cycle a step.
* `EventProcessor` extends `Ownership`: the claim phase of a dispatch *is* the
  `Ownership` actions, followed by the rest of the dispatch and the clients.
  With the phases after the claims mapped to "idle" it implements the records'
  specification (`ProcessorRecords`), which brings what is proved of claims to
  the whole processor.
* `CircuitBreaker` is the other pointer of `LocationSnapshot`: each of its
  changes is one `apply_partition`, whose closure sees the current state. It
  composes the breaker with the pipeline of several operations.
* `CompletionQueue` implements `Delivery`, the promise to the host.

## Modules and code

`PROJECT.json` maps every definition to its lines. A faulty variant of an
action stands before it; each is a way the code could plausibly be wrong and is
there to confirm that a property would notice.

**AsyncCache** (`cosmos:cache/async_cache.rs`, `async_lazy.rs`). State: the
map, the cells with the number of completed initializers, the holder of each
cell's write lock, and for each task where its call is. A critical section of
the map lock contains no await and is one step. A cell's write lock is held
across the initializer's await, so acquiring it, the double check and the
completion are three steps. `Cancel` drops a future at any await; a guard it
held is released. A cell, and the Arc in it, is named by its order of
creation, so that `Arc::ptr_eq` is equality and "older" is "<".

**LocationSnapshot** (`cosmos:routing/location_state_store.rs`). A pointer's
content is the set of writes whose effect it holds. `apply_*` is load,
compare-and-swap with retry, bump of the version; `snapshot` is load of the
version, lookup in the cached snapshot, the two pointer reads, the conditional
save. Each is its own step.

**AccountSync** (same file, with `cosmos:transport/connectivity_probe.rs` and
`cosmos:cache/account_metadata_cache.rs`). Each task walks through the refresh
(`Refresh`, `Fetched`, `Observe`, `Replace`), the probe of Gateway 2.0 regions
(`Delta`, `Answer`, `SwapGate`, `ClearEtag`) and the sync (`SamePointer`,
`SameEtag`, `KeepPointer`, `Build`, `Install`, `StoreEtag`, `StoreProps`,
`SetFlags`); an operation that merely syncs enters at the last part with the
cached Arc (`Operate`). The endpoint-probe loop is `CollectDue`,
`ProbeEndpoint`, `Reachable`, `Unreachable`. Arcs are named by age, which
keeps the state finite and lets a name be reused as an address can be. A
version may come without an ETag (`tagged`): it is then rebuilt for every new
Arc, and the ETag of an earlier sync stays remembered.

**LoadBalancer** (`eh:event_processor/load_balancer.rs`). Operators only:
`Claims(view, me, strategy)` is the set of outcomes of `load_balance` for a
listing, over all random choices.

**Rebalance**. Processors apply `Claims` in whole cycles while processors
start, stop without releasing anything, and ownerships expire.

**Ownership** (`blobstore:checkpoint_store.rs` and `load_balance`). A cycle is
a listing and then one conditional write per partition. An ETag matters only
in whether it still is the record's: `fresh[x]`. `ClaimUnacknowledged` is the
write that is applied, whose response is lost, and whose repetition by the
transport then fails its precondition. `Stop` may come between any two
requests.

**EventProcessor** (`eh:event_processor/processor.rs`, `partition_client.rs`,
`eh:consumer/event_receiver.rs`, `eh:common/recoverable/`). After the claims, a
dispatch removes map entries of partitions it was not granted (`Revoke`), closes
their clients one by one (`CloseRevoked`), lists the checkpoints and adds
clients. These start after the listed checkpoint or, without one, where the
processor is configured to (`origin`): at a position, or at `Latest`, the end of
the partition at the moment a link attaches. A client's stream is the loop of
`stream_events`: check of the closed flag, `ensure_receiver`, receive, yield.
Attaching a link displaces the one attached to the partition before, as the
broker does for links without an owner level; every new link of a client starts
where the client did (`Attach`). Checkpoints are unconditional writes. Crashes,
reconnects, errors that end a stream, dropped and closed clients, and `run()`
called again can happen at any time.

**BearerToken** (`core:http/policies/auth/bearer_token_policy.rs`). Requests
authorize themselves under an async read-write lock that prefers writers,
are sent, and on a 401 empty the cache and may answer a challenge with other
options. A request may be dropped at any await (`Dropped`), which gives its guard
or its place among the waiters back. `needs` counts the events that leave the
cache without a fresh token, among them a fetch that was dropped.

**CompletionQueue** (`native:completion.rs`, `submit.rs`). Every function of the
queue holds its mutex except while parked, so an action is the stretch from
entry, or from a wake-up, to return or parking. Threads park, are notified, wake
spuriously or time out; the task of an operation finishes, reads the cancel
permit, and posts (`Finish`, `Enqueue`), while `cancel` sets the flag and the
permit in two steps. **Delivery** is the abstract queue: admitted operations are
settled once, by `Deliver` or, only in a bounded queue that owes the host a full
capacity of other operations, by `Drop`; the queue is done from the step that
settles the last one.

**PatchHandler** (`cosmos:pipeline/patch_handler.rs`, `session_manager.rs`,
`session_container.rs`). The number of a version of the item is its ETag and its
LSN; the content of a version counts how often each writer's change is in it.
`ReadItem` is served by any region whose copy satisfies the resolved token.
`Commit` and the response are two steps: `LoseResponse` lets the pipeline repeat
a Replace that was applied. The response has a body or none and an ETag header
or none, from which `synthesize_post_image_body` makes the caller's answer.
`RaceLost` is the 412 with its token.

**CircuitBreaker** (`cosmos:routing/routing_systems.rs`,
`partition_endpoint_state.rs`, `cosmos:pipeline/operation_pipeline.rs`,
`retry_evaluation.rs`). `breaker` is the range's entry: status, current and
first failed region, regions it has left, counts. The functions keep their names
(`mark_partition_unavailable`, `try_move_next_endpoint`,
`expire_partition_overrides`, ...). An attempt is routed (`Send`), answered
(`Succeed`, `Fail`) and retried in the next region; a hedged read races two
regions (`PrimaryWins`, `AlternateWins`, `FirstLegFails`, `SecondLegFails`).
`try_cleanup_probe_candidate` looks at the entry twice, which is why `Succeed`
and `Cleanup` are two steps. `sync_account_properties` is a refresh of the
account that turns the breaker on or off and so discards the entry. Regions fail
and recover until `Calms`.

## Runs

| run | shows | distinct states |
|---|---|---|
| `async_cache` | Three callers with every operation, dropped at any await. A cell is initialized at most once (`InitOnce`); one initializer runs per key until somebody invalidates unconditionally (`SingleIOPerKey`); no result is older than what was cached when the call began (`FreshResult`); until somebody is dropped, a caller that polls an empty cell has somebody who fills it (`SpinnerHasInitializer`) and every call returns (`CallsReturn`). `BaseInv` is the inductive base of the proofs. | 72,847 |
| `location_snapshot` | Three tasks, three writes, three snapshots: no returned write is lost (`NoLostUpdate`), and a snapshot holds every write that had returned when it was asked for, although the cached one is reused and the two pointers are read apart (`SnapshotCurrent`). | 1,228,608 |
| `account_sync` | Timer, operation and probe loop: a mark goes only after a probe that began later than it (`MarksSurvive`); with or without ETags, routing catches up with the account and the gate although unchanged versions are skipped, unless two syncs, or a sync and a change of the gate, have overlapped, or routing is by a version without an ETag while another's is remembered (`RoutingCatchesUp`); the ETag that lets a sync be skipped is, outside a half-done rebuild and unless there was an overlap, that of the version operations route by, or these route by one without an ETag, and the flags and the gate are in force (`SkipsAreSound`); the types hold (`TypeOK`). | 749,262 |
| `rebalance` | Three processors, each of either strategy, and four partitions: the group becomes balanced and stays so (`Converges`), a balanced group is left alone (`NoThrash`), theft makes the group more even (`StealsFromRicher`). | 26,340 |
| `ownership` | Two processors, three partitions, interleaved requests: an unexpired ownership changes hands only as decided on a listing that still holds for it (`TakesExpiredOrRicher`), with the two invariants that explain it (`FreshInv`, `TodoInv`). | 572,518 |
| `event_processor` | A partition passes between two processors: from where reading began, a checkpoint never covers an event nobody processed (`NoEventSkipped`), a revoked stream yields at most one more event (`RevokedYieldsOnce`), a processor has one open client per partition (`OneOpenClient`) and never takes a revoked one for current (`MapHasOpenClients`); what crashes, restarts and clients add leaves the claims those of `Ownership` (`KeepsToOwnership`, a refinement). | 1,188,315 |
| `bearer_token` | Two requests, dropped at any await: `get_token` is called at most once per event that leaves no fresh token (`NoStampede`), the lock protects what it should (`LockInv`), every request that is not dropped finishes (`RequestsComplete`). | 24,206 |
| `completion_queue` | Two operations, two producers, one consumer, unbounded and bounded: the count of operations in flight is exact (`InFlightInv`), shutdown strands nothing (`UnboundedLosesNothing`), nobody stays parked with something to do (`NoStuckThread`), a cancelled completion says it was asked for (`CancelledWasRequested`), the queue implements `Delivery`, so that it settles each operation once and drops a completion only when it is bounded and full of others (`Delivers`), drains (`DrainCompletes`) and lets blocked calls go after shutdown (`CallsReturn`). | 132,660 |
| `patch` | Two calls, another client, a lagging region, lost responses: the item has every change exactly as often as a Replace was applied (`EveryWriteCounts`), a success returns the version it made, under its ETag if the service named one and else under that of the version it replaced (`ReturnsPostImage`); under session consistency attempts are lost only to writes (`ConflictsAreRaces`) and no Read goes behind what was seen (`ReadsAdvance`). | 1,659,183 |
| `circuit_breaker` | Two callers on two accounts, with and without hedging: the override never returns to a region it has left (`OverrideAvoidsFailed`), is removed only as a probe candidate, when all regions have failed or when a refresh turns the breaker on or off (`RemovedForCause`), and goes for good once the regions are well and unhedged operations keep coming (`FailsBack`). | 367,436 |

Two more runs, `won_served` and `circuit_breaker_hedged`, end in a violation on
purpose; see [below](#where-code-and-documentation-disagree).

Several properties have a condition that a history variable records: `mishaps`
in `AsyncCache` and `EventProcessor`, `overlap` in `AccountSync`. Without the
condition each is false of the code
([why](#where-code-and-documentation-disagree)); with it, the run shows that
nothing *else* breaks the property.

## Bounds

* Three tasks in `AsyncCache` are one that initializes, one that waits and
  one that replaces what they hold; four calls let one of them come twice.
  Keys do not interact, so there is one.
* `LocationSnapshot` needs two writers and a reader between them, or two
  readers and a writer; three writes and three snapshots give the cached
  snapshot a chance to be both older and newer than a reader's version.
* `AccountSync` explores three profiles (`Limits`): the account changes while
  every endpoint is reachable, its first version with or without an ETag; it
  changes and any version may be without one, with no Gateway 2.0 regions; or an
  endpoint fails while the account stays as it is. Marks and versions meet only
  in the account pointer, whose compare-and-swap all of them exercise: in the
  third, a change of the gate makes a sync rebuild an unchanged version while
  marks come and go.
* Four partitions and three processors are the smallest group with a remainder
  and a processor that may not take the extra partition; two starts or stops
  let one leave and another come.
* `Ownership` uses the balanced strategy, three partitions and two processors:
  theft needs a difference of two.
* `EventProcessor` explores five profiles of one partition, described in
  `MCEventProcessor`: reading on after a crash, reading only new events over
  three links, restarts of `run()` with reading from the second event on, losing
  the partition, and losing and regaining it. One partition suffices since
  clients of different partitions share only the reconnect, which drops all
  cells.
* `BearerToken` needs no bound: a request is rejected once at most, and the
  counters are then bounded by the requests.
* `CompletionQueue` needs two operations for one to be queued while the other
  runs, and two producers for one notification to reach one of them. Capacity 1
  makes completions overflow; 2 can be filled but not overflowed.
* `PatchHandler`: two calls and one foreign write make every kind of conflict;
  with three attempts a call can exhaust them. A response may be lost as often
  as a Replace is applied, so the versions are bounded by the attempts.
* `CircuitBreaker` explores two accounts, described in `MCCircuitBreaker`: three
  regions, so that an override can move on twice and be exhausted, and two
  regions with thresholds of two for failed reads and for alternate wins. Counts
  stop at their thresholds, since only the comparison with the threshold is
  used. A refresh may turn the breaker on or off at any time.

Deadlock is checked in `completion_queue` and in the `circuit_breaker` runs. It
is off in the others, whose modules have bounds that let them stop or, like the
processors, really may stop. Progress is stated as liveness where it is claimed.
Symmetry is used in safety runs only.

## Fairness

* `AsyncCache`: weak fairness of each task's `Continue`. An executor polls
  woken tasks, and initializers are requests with a deadline. Nobody has to
  start a call or drop one. `AsyncLazy::get` yields and polls again; its step is
  enabled when the poll would succeed.
* `Rebalance`: weak fairness of each running processor's cycle (`run()` loops
  with a sleep) and of expiry (time passes). Starting and stopping are not fair.
* `BearerToken`: weak fairness of each request's steps: the lock wakes its
  waiters, the credential and the service answer. Which of several waiting
  writers is next is left open. Nobody has to drop a request.
* `AccountSync`: weak fairness of tasks that have started and of the timer;
  strong fairness of the timer's fetch succeeding and of the timer winning its
  compare-and-swap. The last two are assumptions about the environment: the
  service does not refuse the account for ever, and operations do not
  overtake the timer between load and swap for ever. Without them nothing
  would ever be refreshed, and the property would be false for a reason that
  is not in the code.
* `CompletionQueue`: weak fairness of an operation's task (the runtime polls it;
  the driver future ends), of threads that were woken, and of the consumer
  waiting again, which is the receive loop the native README prescribes. Nobody
  has to submit, cancel, shut down or wait for room.
* `CircuitBreaker`: weak fairness of each caller (it calls again, its attempt is
  answered) and of the failback sweep, a loop on a timer. Regions need not
  recover; `FailsBack` is conditional on their having done so.

`LocationSnapshot`, `Ownership`, `EventProcessor` and `PatchHandler` claim safety
only. In the first three the compare-and-swap loops and claims are lock-free,
not wait-free; a PATCH ends because its attempts do.

## Proofs

Each theorem holds for every value of the constants that satisfies the named
`ASSUME`s: any number of tasks, keys, partitions, processors, calls or requests,
and any bound. The assumptions say that sentinels differ from real values
(`PatchesAssumption`: another client is not one of the calls), that bounds are
numbers, and that the sets that are counted are finite. `ConfigAssumption` of
`CircuitBreaker` says what an account is: at least two preferred regions, none
twice, positive thresholds. Every safety property that a passing run checks has
a theorem; eight modules hold them.

* **AsyncCacheProof.** The base is `BaseInv`: types; a cell's lock is held just
  by the caller between acquiring and releasing it (`LockInv`); callers hold
  created cells (`CellInv`); an initializer runs on an empty cell (`OnceInv`).
  `BaseTheorem` is its invariance and `InitOnceTheorem` follows. Single flight
  is not inductive alone: a caller
  might hold a cell that was replaced while empty. `CurrentInv` says why not:
  who replaces a cell has seen it full, so until an eviction an empty cell in
  use is the current one of its key, and `LockInv` leaves one runner
  (`SingleIOTheorem`). `FloorInv`, that a caller's cell is no older than what
  its key held at the start, gives `FreshResultTheorem`, and `FillerInv`, that
  every created empty cell has a caller inside `get_or_init`, gives
  `SpinnerTheorem`.
* **AccountSyncProof**, on `AccountSync` and `LocationSnapshot`, the two modules
  of one file. `TypeTheorem`: whoever is past the fetch has a version, hence
  every account state that is installed is that of one. Its one non-trivial fact
  is that renaming Arcs by age yields numbers, which needs the tasks to be
  finite. `MarksSurviveTheorem` rests on `MarkInv`: whoever can still win the
  compare-and-swap carries exactly the marks that are there, and a mark the
  probe loop still recognizes was not set during the probe. `SkipsTheorem` rests
  on `SkipInv`: without an overlap one task at a time rebuilds, what it is going
  to install has the gate in force, and except between the exchange and
  `StoreEtag` a remembered ETag is that of the account pointer's version if this
  one has an ETag; the gate is that of the pointer unless somebody is about to
  clear the ETag or none is remembered. It is the safety half of
  `RoutingCatchesUp`. For the pointers, `SnapInv` has four parts. A write is in
  its pointer from the exchange on, and pointers only grow (`WriteInv`): this is
  `NoLostUpdateTheorem`. A version stands for the writes that had returned when
  it was current (`VersionInv`); the cached snapshot holds what its version
  stands for (`CacheInv`); a reader between its two reads will find in the
  second pointer what the first did not have (`ReaderInv`). Together they are
  `SnapshotTheorem`. The order of the code, bump *after* the exchange and
  version loaded *before* the pointers, is what the first two need.
* **EventProcessorProof**, on `LoadBalancer`, `Ownership`, `Rebalance` and
  `EventProcessor`. The lemmas on `Claims` bound what is taken from whom by the
  integer division of `MinimumRequired`. `StealsTheorem` applies them to a step
  of the group; `NoThrashTheorem` uses the same bound: what a cycle claims is
  the processor's own, free, or of a processor that owns two more, and a
  balanced group has neither of the last two. `FreshTheorem`: a matching ETag
  means that the listed owner is still the owner, or that the record has been
  expired since before the listing. `TodoTheorem`: what is going to be claimed
  is one's own, free, or a richer processor's in the listing (by the lemmas on
  `Claims`). Both include the type invariant. `TakesTheorem` is their
  conjunction read off a granted claim. These are about `Ownership` alone;
  `ProcessorsKeepToOwnership` is the refinement that carries them over: every
  step of a processor with its dispatches, clients, crashes and restarts is, for
  the records, a step of `Ownership` or none. It needs `DispatchInv`: a
  processor whose `run()` has ended holds no listing and has nothing left to
  claim.
* **ClientProof** has the inductive invariant of the clients, `ClientInv`, and a
  lemma per action; `RevokedTheorem`, `MapTheorem`, `OneOpenTheorem` and
  `NoEventSkippedTheorem`, in EventProcessorProof, are read off it. What the run
  checks is not inductive in four ways. A revoked stream yields once more
  because its loop then meets the closed flag (`Late`). The map has open clients
  because what a dispatch is going to close is out of the map before the first
  is closed (`Revoked`). There is one open client because each is in the map or
  in that list, and the list is emptied before clients are added (`Placed`). And
  a checkpoint skips nothing because every position from which anyone may read
  is covered by `past`, the processed events and those before `base`, where
  reading began: the listed checkpoint, the client's start and last event, the
  position of a link, where the link may be one event ahead while its client
  processes it (`ClientRead`, `CellRead`). A link attached at `Latest` moves
  `base` to its own position, and `LogInv`, that `base` is neither before the
  configured start nor after the known end of the partition (`tail`), makes this
  a move forward: `past` only grows, and what was covered stays so.
* **PatchHandlerProof.** `PatchInv` adds to `EveryWriteCounts`, which is
  inductive together with the types, what a call knows (`ItemInv`: the version
  it read and the one it wrote exist, the latter is the former with its change
  and comes directly after it), from which `PostImageTheorem` follows for every
  kind of answer, and what the tokens bound under session consistency
  (`SessionInv`: every race lost moves the token up by at least one version, so
  that the losses are bounded by the writes since the call began, and a Read is
  bounded from below by the token or by the cache). These are `ConflictsTheorem`
  and `ReadsAdvanceTheorem`.
* **CircuitBreakerProof.** `OverrideAvoidsFailed` needs that the regions an
  operation is sent to are regions of the account (`BreakerInv`), since
  `try_move_next_endpoint` takes the first preferred region that has not failed.
  `OverrideTheorem` and `RemovedTheorem` follow; the latter looks at every step
  that can discard an entry, among them the refresh that turns the breaker on or
  off, and needs no more.
* **CompletionQueueProof.** `CountExact`: `in_flight` is the number of running
  operations and of queued ones; the work is in counting a set that loses the
  element the queue gains. It is needed by `DrainInv`, that a queue is drained
  exactly when it is shut down and nothing is in flight, from which
  `NothingLost` (a drained queue gets no more completions), `NobodyStuck` and
  `DrainedExactly` (the safety half of `DrainCompletes`: a queue that is shut
  down and not drained still has an operation that runs or waits to be popped)
  follow. `CancelInv`, the permit follows the flag, gives `CancelIsRequested`.
  `QueueDelivers` is the refinement of `Delivery`, by one step per action. It
  counts twice: nothing is owed exactly when `in_flight` is 0, and a completion
  that finds the deque full is owed besides a full capacity of others.
* **BearerTokenProof.** `LockTheorem` from types and lock. `NoStampede` is not
  inductive: `DueInv` adds that while nobody fetches and no token is fresh one
  more call is due, and `SeenInv` that the token a request has found stale is
  not a fresh one later. `StampedeTheorem` follows. A dropped fetch makes one
  more call due, and is counted as the event that left the cache without a
  token.

Only model-checked are the liveness properties, since the prover has no rule for
fairness: `CallsReturn` of the cache and of the queue, `Converges`,
`RoutingCatchesUp`, `RequestsComplete`, `DrainCompletes` and `FailsBack`.

## Where code and documentation disagree

The runs that end in a violation state what a comment or a document says.

| run | statement | what happens |
|---|---|---|
| `won_served` | "Re-acquire via `EventProcessor::next_partition_client`" (`partition_client.rs:26-27`) | the map entry of a dropped client stays; the partition is owned, renewed and never handed out again |
| `circuit_breaker_hedged` | "a single probe request is sent. Success removes the entry" (`ErrorCodesAndRetries.md:206`; likewise `PARTITION_LEVEL_FAILOVER_SPEC.md:1620`) | a hedged read returns from the race before the code that removes a probed override (`operation_pipeline.rs:484`), so with hedged reads alone the partition stays a probe candidate for ever; `FailsBack` shows that any unhedged operation ends this |

Further disagreements were met and are kept as conditions of properties or as
hazards in `PROJECT.json`:

* A refresh is said to keep "the old value available" (`async_cache.rs:139-141`);
  an empty cell replaces the full one before the new value is computed, and
  meanwhile `get` finds nothing.
* The closed flag is said to stop a revoked stream "from reattaching on its next
  poll" (`connection.rs:503-506`); it is checked once per loop, and a stream
  past the check attaches a new link and displaces the new owner.
* A token is acquired "for the provided scopes and options"
  (`bearer_token_policy.rs:161`); the cache has one slot, and the answer to a
  challenge may carry a token another request acquired with other options.
* The next sync "rebuilds the snapshot even when the server returned an unchanged
  etag" (`location_state_store.rs:634-637`); an operation that syncs the new Arc
  during the probe makes the refresh's own sync return at the pointer
  comparison, and the gate is applied only at the next refresh: part of the
  condition `overlap`.
* `wait_writable` is to "block until the queue has room" (`completion.rs:1158`);
  with several producers one notification per pop may reach a producer that does
  not submit, and another stays parked although there is room.
* While an override is a probe candidate *every* request is routed as a probe,
  not the "next single request" (`partition_endpoint_state.rs:100`), and the
  success of a request that was sent to another region before also removes the
  entry.
* Under consistency levels without session tokens a lagging region can use up
  all attempts of a PATCH without any competing writer; `ConflictsAreRaces` is
  about session consistency. A Replace whose response is lost may be applied
  twice, as `PATCH_HANDLER_SPEC.md:232-247` says.
* A caller in `AsyncLazy::get` polls for ever when the caller that was to fill
  the cell is dropped (`async_lazy.rs:77-81`): the condition "dropped".
* `invalidate` removes a cell whose initializer runs, and the next caller runs
  another (`async_cache.rs:95`): the condition "evicted".
* Two clients of one processor, an orphan of an earlier `run()` and its
  successor, read alternate events from the one receiver of their partition, and
  a checkpoint of one covers events of the other: the condition "shared".
* Closing a revoked client removes the map entry of its successor
  (`processor.rs:129`): the condition "stale_close", which `OneOpenClient`
  excludes.
* A displaced client moves the checkpoint back (`partition_client.rs:155`).
  Events are then processed again; none after `base` is skipped.
* Until there is a checkpoint, a client that starts at `StartLocation::Latest`,
  the default (`consumer/mod.rs:459-461`), attaches at the end of the partition
  again whenever its link is replaced, since `ensure_receiver` keeps the options
  it was opened with. Events that arrived in between are read by nobody:
  `NoEventSkipped` is about the events after `base`, which such an attach moves.
  A client that starts at a position re-reads events instead.
* "Every async submission eventually produces exactly one completion record"
  (`NATIVE_WRAPPER_SPEC.md:751`, also `:1442`), and "there is no "silent drop"
  path" (`ASYNC_INVOCATION_ARCHITECTURE.md:252-253`). A bounded queue drops the
  completion that finds it full; `Delivers` says exactly when, and
  `UnboundedLosesNothing` that an unbounded one does not.
* Shutdown is said to cancel the operations in flight
  (`NATIVE_WRAPPER_SPEC.md:433,600,944,1526,1827`,
  `ASYNC_INVOCATION_ARCHITECTURE.md:367`); the code lets them finish and
  hands their completions over. `DrainCompletes` is about that.
* The failback loop "removes the entry" of a partition whose threshold was never
  reached (`PARTITION_LEVEL_FAILOVER_SPEC.md:844,858`); the code's sweep makes
  every elapsed entry a probe candidate, and `RemovedForCause` has no such cause.
* A successful PATCH whose Replace is answered with neither a body nor an ETag
  header returns the ETag of the Read, that of the version it replaced
  (`synthesize_post_image_body`, whose comment says so): a conditional write with
  it fails. `ReturnsPostImage` states both cases.
* A sync is skipped for the "same server version, properties unchanged"
  (`location_state_store.rs:757-758`). A version without an ETag does not replace
  the remembered one, so when such a version is synced late, after a newer one,
  every sync of the newer one is skipped while operations route by the older:
  `Skewed` in `RoutingCatchesUp`.
* A request fails with an empty cache when another's 401 empties it between
  fetch and use (`bearer_token_policy.rs:242-248`): the step "empty".
* Two overlapping syncs may leave the older version in the account pointer
  while the newer ETag is stored: the condition `overlap`. The routing properties
  exclude it, so none of them covers this hazard.
* The Event Hubs `RetryOptions` documentation and `Default` differ
  (`eh:common/retry.rs:37-58`); nothing here depends on the numbers.

## What is not modelled

* Pure data: JSON, RNTBD frames, blob names and metadata, URLs, headers,
  diagnostics, tracing. Generated clients and builders.
* Clocks as numbers. Expiry, cooldowns and refresh windows are events that may
  happen whenever the code allows them; the rate limit of the account refresh is
  left out, which adds behaviours.
* Weak memory. Atomic accesses are sequentially consistent here; the code uses
  acquire and release orderings and epoch-based reclamation, which is external.
* The AMQP library, the broker and the blob service, except for what the code
  relies on: displacement of links, conditional writes, lost responses.
* In `EventProcessor`, prefetched events and the classes of errors are merged,
  and `shutdown()` before `run()` is left out. All processors are configured
  alike. The `inclusive` flag of a start position, which reads the event at the
  position once more, and events the service did not annotate with an offset or a
  sequence number, whose checkpoints say nothing, are left out.
* In `PatchHandler`, multi-write accounts, failover of the write region,
  re-creation of the container and splits of the range; JSON evaluation of the
  operations is a success or a failure.
* In `CircuitBreaker`, single-write accounts (PPAF and the hub region cache,
  which follow what the service answers after a failover of its own), marks on
  whole endpoints and excluded regions, changes of topology, unknown ranges. A
  hedge decided at the first attempt is not upgraded later.
* In `CompletionQueue`, more than one consumer, which the contract excludes;
  freeing of handles and the conversion of results to C structures.
* The container and partition key range caches add interval arithmetic to
  `AsyncCache`; the sharded transport, the Event Hubs authorizer and the retry
  policies are about load and real time; query dataflow, pager, poller and
  storage transfers belong to one caller each; Service Bus, Key Vault and the
  generated clients keep no shared state of their own. `PROJECT.json` gives the
  reason for each component.

## Running it

To check a module, run `tlc -config <cfg> <MC module>` and
`tlapm <proof module>` in this directory.
