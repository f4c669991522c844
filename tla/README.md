# A TLA+ model of starshard

starshard is a concurrent hash map for Rust. It spreads entries over shards,
each behind its own lock, creates shards on first use, serves snapshots from a
cache validated by a write epoch, and changes its shard count online while
readers and writers continue. Around the map it has supervised workers for
resharding and for eviction, and quorum replication. This directory models the
synchronous map (`src/core/sync_impl.rs` and what it calls), the asynchronous map over
Tokio locks (`src/core/async_impl.rs`), the supervision of resharding in both maps,
replicated writes, capacity eviction and the eviction scheduler. It checks them with
TLC, and proves with TLAPS, for every instance, every safety property a passing run checks
and both refinements; only liveness is model-checked alone. File paths below are relative
to the repository root.

## The system

| Component | State | Operations | What is hard |
|---|---|---|---|
| Synchronous map (`core/sync_impl.rs`, `core/mutation.rs`, `core/helpers.rs`) | active and previous shard directories, two counts, `total_len`, `write_epoch` | get, insert, remove, get-or-insert, compute, CAS, compare-and-remove | lookups against promotion, lazily created slots, user code that panics under a lock |
| Snapshots (`capture_snapshot`, `snapshot_view`) | one cached `(epoch, items)`, a builder gate | snapshot, view | a cache hit takes no map lock at all |
| Transactions (`execute_transaction`) | none of their own | multi-key write sets | lock order, atomicity across shards and generations |
| Bulk removal (`retain`, `clear`, `drain`) | none of their own | sweep both generations | ending a migration under way, panics halfway |
| Rebalance (`core/sync_impl/rebalance_impl.rs`, `rebalance.rs`) | tracker: generation, progress, pause, worker lease | start, advance a batch, stop-the-world, spawn/cancel/join | entries live in two generations; worker against manual use |
| Batch operations | none of their own | grouped insert/remove/get | partial effects, lock order |
| Eviction (`eviction/engine.rs`, `eviction_impl.rs`) | ranking metadata per key, tickets, pending and dirty epochs | record read/insert/remove, choose and validate victims, reconcile | metadata lags the shards; limits under concurrent writers |
| Eviction scheduler (`eviction/scheduler.rs`) | registry, control block, owner count | start, stop, tick, drop | stale workers, stop reasons |
| Replication (`core/replication.rs`) | per-map order, replica list | replicate to a quorum | timeouts, late acknowledgements |
| Asynchronous map (`core/async_impl.rs`, `core/async_impl/`) | as the synchronous map, Tokio locks, a rebalance lock | as above, batches included | a call may be dropped at every await; fair locks queue readers behind writers |
| Entry API, serde, constructors, statistics | none or read-only | wrappers | - |

Interaction: every call first takes `routing_lock` (shared for calls that use
indices, exclusive for sweeps and layout changes), then the directory, then
active shards, then previous shards. The snapshot gate is taken before routing.
A writer publishes its length and epoch change while it still holds its shard
(`ShardMutation::drop`); a snapshot loads the epoch while it holds every shard.

What makes each component correct:

- key operations, transactions, sweeps: linearizable; `len` exact at rest;
- the asynchronous map also when calls are dropped: no half effect, no lock kept, no
  circle of waiting tasks;
- snapshots: a version names one contents, a cache hit is the current contents;
- rebalance: no entry is lost, duplicated or unreachable at any moment;
- worker, scheduler: one at a time, stops when told, wakes when resumed, and says
  truthfully how it ended;
- eviction: evicts in the configured order, returns below its limits or says that work
  is left, survives panics of user code; replication: a success means a quorum
  acknowledged *this* write, and replicas see one order.

## Modules

| Module | Models |
|---|---|
| `MapCalls` | the calls of the public interface and the contract of each |
| `MapSpec` | the abstract map: every call takes effect at one instant |
| `ShardState` | the variables of `ShardedHashMap`, its locks, routing of keys to slots, promotion, publication |
| `KeyAccess` | the single-key methods, step by step |
| `Snapshots` | `capture_snapshot`, `snapshot_view`, `collect_with`, the cache |
| `Transactions` | `execute_transaction` |
| `Sweeps` | `retain`, `clear`, `drain` |
| `Migration` | `start_rebalance_online`, `advance_rebalance_inner`, `rebalance_to` |
| `ShardedMap` | the composition, its invariants, and the refinement of `MapSpec` |
| `Rebalance` | `RebalanceTracker`, the supervised worker as thread or task, its handle, cooperative batches |
| `Replication` | `insert_replicated`, `remove_replicated`, the coordinator, the replicas |
| `EvictionScheduler` | the registration of the periodic eviction worker, its control block, handle and owner |
| `Eviction` | the ranking metadata, the hooks that keep it, maintenance by shard and under exclusive routing |
| `AsyncCalls` | the calls of the asynchronous map, on top of `MapCalls` |
| `AsyncMapSpec` | the abstract asynchronous map, whose calls may be dropped |
| `AsyncState` | the variables of `AsyncShardedHashMap`, Tokio's fair locks, the eviction epochs, the drop of a future |
| `AsyncKeys` | the single-key methods and the batches |
| `AsyncBulk` | snapshots, transactions, `retain`, `clear`, `drain` |
| `AsyncMigration` | `start_rebalance_online`, `advance_rebalance_inner`, `rebalance_to` |
| `AsyncEviction` | maintenance by shard and under exclusive routing |
| `AsyncMap` | the composition, its invariants, and the refinement of `AsyncMapSpec` |
| `ShardedMap_proofs` | TLAPS proofs about `ShardedMap`: layout, locks, length, versions; refinement of `MapSpec` |
| `AsyncMap_proofs`, `AsyncData_proofs`, `AsyncLinearizability_proofs` | TLAPS proofs about `AsyncMap`: locks and queues; entries, length, cache, metadata and limits; refinement of `AsyncMapSpec` |
| `Rebalance_proofs`, `Replication_proofs`, `EvictionScheduler_proofs`, `Eviction_proofs` | TLAPS proofs about these modules |
| `MCShardedMap`, `MCRebalance`, `MCReplication`, `MCEvictionScheduler`, `MCEviction`, `MCAsyncMap` | constants of the TLC instances |

`MapCalls` to `Migration` are parts of `ShardedMap`, `AsyncCalls` to `AsyncEviction`
parts of `AsyncMap`. `Rebalance`, `Replication`, `EvictionScheduler` and `Eviction`
stand alone and meet the maps at one interface each: `Rebalance` decides when a batch
may run, `Migration` and `AsyncMigration` what it moves; `Replication` applies a write
to the local map in one step; `EvictionScheduler` calls a tick, which is the call
`enforce` of `Eviction` and `AsyncEviction`; `Eviction` keeps of the map which keys are
stored, their shard and the locks. `Rebalance` and the batches of the two migration
modules overlap in `migrating` and the number of slots drained.

### The map

State corresponds to fields one to one (`shards`, `previous_shards`,
`shard_count`, `previous_shard_count`, `total_len`, `write_epoch`,
`snapshot_cache`); `migrating` and `moved_shards` are the part of the tracker the
layout depends on. `readers` and `writer` say who holds which lock. Each thread
has a `pc` (the step of its method), its `call`, its `reply`, the transaction
operation it is `at`, and the epoch a snapshot builder has loaded (`cut`).

`preimage` is the only history variable: from a store until the storing thread
drops its shard guards it remembers what the key held before. It defines
`Visible`, the value the outside may know, and thereby the linearization point:
a write takes effect when its guards drop, not when the map is assigned.

Merged into one step, and why that is sound:

- A lock taken and dropped around a single access is one step.
- `previous_shards` has a directory lock of its own. Only holders of exclusive
  routing write it and everybody else holds routing shared, so nobody can wait
  for it; it is left out.
- An operation inside a transaction, and one removal inside a sweep, stores and
  publishes in one step: every shard involved is locked (or routing is
  exclusive), and the only thread that can look between, a reader of the snapshot
  cache, is served only before the first publication.
- Layout changes run under exclusive routing and publish neither length nor
  epoch. A batch is any number of `MigrateEntry` steps, so budgets, pauses,
  cancellation and panics between turns are included.
- A copy-on-write builder clones after its guards drop, from allocations no
  writer touches any more; it yields the items of its cut.

User panics (`Hash`, `Eq`, `Clone`, `Drop`, callbacks) are steps: `Unwind`,
`TxnAbort`, `TxnUnwind`, `SweepUnwind`, `SnapshotUnwind`. Poisoned locks are recovered
by the code (`helpers.rs`), so a lock is never lost.

### The asynchronous map

The state is that of the synchronous map; each task has a `pc` (the await it is at), its
`call` and its locals (`frame`). Tasks of one runtime or of several run in parallel, but a
task runs from one await to the next in one step: between two awaits it holds every
guard under which it reads or writes, or is alone under exclusive routing. In particular
the change of the data, the length, the epoch and the eviction hook are one step.

- Tokio's locks are fair. A task that cannot have a lock queues (`Enqueue`), a queued
  writer keeps later readers out (`Obstacles`), and a dropped future leaves its queue.
  This is modelled from how the map uses `tokio::sync`, which is not part of the
  repository.
- `Drop` removes a future at any await: while it waits for a lock, queued or not, and at
  the awaits under exclusive routing, whose locks are left out because nobody can hold
  them (`RoutingExcludes`). Tickets of the eviction engine are dropped with it. A pass of
  maintenance whose last section has no await is dropped before or after it.
- `previous_shards` has a lock nobody waits for, as in the synchronous map. The
  others are there: `snapshot_build_lock`, `rebalance_lock`, `routing_lock`, the
  directory and every shard.
- `Glance` reads the dirty flag and the length in one step; the code loads them one after
  the other. A map that becomes dirty in between stays due for maintenance whatever is
  acknowledged, and the length read last counts everything stored before.
- The epochs of the eviction engine are compared for equality only, so `dirty`, `work`
  and the set `current` of tasks whose observed epoch still stands replace them.
- A pass evicts any choice of victims: ranks, weights and memory budgets are the subject
  of `Eviction`. Limits on entries and on the entries of a shard are kept, zero included.
- Panics of user code are in the models of the synchronous map; workers, pauses and
  `rebalance_to` in the background are in `Rebalance`.

`AsyncMapSpec` lets a call take effect at one instant, a batch and `retain` a few keys at
a time (nobody sees a `retain` half done unless it was dropped), and a dropped call not at
all or as far as it got. A bounded map may lose any entries.

### Rebalance

`generation`, `migrating`, `paused`, `complete`, `completed_shards`, `moved_entries` and
`worker_generation` are the fields of `Progress`; `sources` stands for the previous
directory, as the number of entries left in each slot. A worker's `pc` follows
`spawn_rebalance`: it claims the lease, is spawned (or not), waits in `wait_ready` or
`wait_ready_async`, runs a batch under exclusive routing, adapts its batch size, and
reports and releases. `woken` is the state of its condition variable or `Notified`,
`cancelled` its `WorkerControl`. `finished` is a history variable: the generations
that no later one replaced before their end.

- The tracker's mutex is held over a step only between a thread's check and its wait
  (`state_lock`), the one place where a notification could fall between; everywhere
  else a field update and its notification are one step. `cancel` is two steps,
  because it stores its flag without the mutex.
- A batch holds routing exclusively from its first check to its last update. Moves
  are separate steps (`Turn`), as a panic, an expired time budget or an exhausted
  entry budget can end it after each.
- The async map's `rebalance_lock` is left out: it is taken outside exclusive routing
  by the same calls and excludes nobody routing does not exclude.
- Spurious wake-ups are left out: every wait is a loop around its check.

### Replication

`order` and `queue` are the fair Tokio mutex that gives writes their turn; `worker` is
the stored abort handle, `worker_lock` the mutex around it. A call's `pc` has one label
per await of `insert_replicated`, and `CallerGone` may drop its future at each;
`expired` is its deadline. `co` is the coordinator task of `replicate_to_quorum`, `task`
its `JoinSet`, `acks` what it counted, `reply` the oneshot channel. Replicas may apply
and answer, apply and fail, fail, panic, or never answer. `clock`, `stamp` and `log`
are history: the primary's order and what each replica applied. Contents are left
out; they do not influence any step. Not modelled: a runtime that shuts down while
other runtimes keep using the map.

### Eviction scheduler

`generation`, `active`, `last` are `Registration`; `gen`, `running`, `stop` the control
block of each worker; `pc`, `phase` its place in the loop of `start_sync_with` or
`start_async`, where each await of a task is enable, check, poll. `rung` and `bells`
separate the store of a stop reason from the notification after it. `exit` says how
the thread or task ended: it returned, panicked, was dropped, or was dropped by a
thread that unwinds for another reason, in which case the lease also reports
`Panicked`. `owner` and `found` are `SchedulerOwner::drop`. The constructor's automatic
start and explicit starts follow the same actions. What a tick evicts is left out.

### Eviction

`data`, `total_len`, `layout`, `stable` are what eviction sees of the map. `meta`,
`sequence`, `epoch` and the four epochs are `LifecycleState`; `frame` holds a thread's
call and its locals. A mutation takes its guards and a `MutationTicket` (`Begin`),
changes the shard (`Store`), runs its hook, drops ticket and guards (`Record`), and
runs maintenance as its last step. User code may panic at any of these points
(`Unwind`): an unfinished ticket and `OperationUnwind` mark the metadata dirty.
`retain`, `clear` and `drain` do the same shard by shard under exclusive routing.
`run_eviction` reads the work epoch (`Observe`), looks without a lock whether anything
is to do (`Acknowledge`, `Choose`), then trims the shards one at a time under shared
routing (`Share` to `RetryExclusive`) or repairs, plans and evicts alone (`Exclude` to
`Done`). Several atomics read in one step are those nobody else changes at that point,
or whose change in between gives a state that another order of the same steps gives.
`since` is a history variable: the stamps around the use or the insertion a key's rank
stands for, and nothing where a panic leaves that open. Callbacks, metrics and the
freeing of retired keys are left out.

## Runs

| Run | Instance | Checks |
|---|---|---|
| `keys` | 2 threads, get, insert, remove and every read-modify-write method | `TypeOK`, `OneHome`, `LenExact`, `MigrationState`, `Linearizable` |
| `txns` | 2 threads, two- and three-step transactions, get, snapshot, view | `VersionNamesContents`, `Linearizable` |
| `sweeps` | 2 threads, clear, retain, cached snapshots, inserts and a removal | `LenExact`, `CacheCoherent`, `Linearizable` |
| `callers` | a thread worker, a caller, spawns that fail, 2 generations, fair | `BatchAdmitted`, `PauseHolds`, `CancelEnds`, `CoopReturns` |
| `tasks` | two task workers, 2 generations | `LeaseMatches`, `OutcomeTruthful` |
| `tasks_live` | a task worker, fair | `CancelEnds`, `WorkerEnds` |
| `oneworker` | three thread workers, spawns that fail | `OneWorker`: violated |
| `replication` | two writes, two replicas, both valid quorums, fair | `SuccessHasQuorum`, `FailureIsFinal`, `ReplicasFollow`, `WorkIsTracked`, `CallEnds`, `TurnPasses`, `DropCancels` |
| `scheduler` | two starts, threads or tasks, automatic or not, fair | `LeaseMatches`, `JoinedIsReleased`, `FirstReasonKept`, `CancelEnds`, `OwnersEnd` |
| `running` | as `scheduler` | `RunningMeansRegistered`: violated |
| `eviction` | 2 threads: insert, remove, read, retain, clear, evict_lru; limits on entries (Lru), per shard (Fifo), on weight (Lfu); a panic or a new layout | `TypeOK`, `MetadataExact`, `LimitsOrPending`, `PassEnforces`, `OldestGoesFirst` |
| `async` | 3 tasks, nine small maps, each with the calls that meet there; a call dropped at any await | `NoWedge`, `RoutingExcludes`, `MapWhole`, `LimitsOrPending`, `Linearizable` |

The runs of the maps use one or two shards with a hash that puts both keys in one
shard of the first layout and apart in the second, so that promotion, split and
merge all happen. Those of the synchronous map check for deadlock. `OneHome`,
`MigrationState` and `OutcomeTruthful` are proved, so one run of each suffices. The other
runs do not check for deadlock: users may simply make no further call, and a bound stops
them; `NoWedge` says of the asynchronous map what a deadlock check would, and more.

The properties of the map:

- `Linearizable`: the map implements `MapSpec`. It catches a lookup that misses a
  key being promoted, a stale cached snapshot, a partly visible transaction.
- `OneHome`: every entry is in the slot its key is routed to, in one generation.
- `LenExact`: `total_len` is the number of stored keys, up to mutations not
  dropped yet.
- `CacheCoherent`: a cached snapshot with the current epoch is the current contents.
- `VersionNamesContents`: two snapshots of one epoch have equal items.
- `MigrationState`: tracker, counts and directories agree; drained slots are gone.

Of the asynchronous map:

- `Linearizable`: it implements `AsyncMapSpec`, whichever call is dropped and where.
- `NoWedge`: among the tasks that wait there is always one that waits for none of them,
  queued writers counted, and neither a returned nor a dropped call holds a lock or a place
  in a queue. With locks that are given back this is why every call returns; that it
  does return (liveness) is not checked.
- `RoutingExcludes`: nobody holds a shard or the directory without routing, which is
  what the steps under exclusive routing rely on.
- `MapWhole`: every entry has one home, the length and the tracker are exact, a current
  cached snapshot is the contents, and the eviction engine knows exactly what is stored, in
  every state and not only at rest.
- `LimitsOrPending`: a map nobody is in is within its limits or will be maintained.

Of resharding: a batch commits only to the migration its worker was spawned for,
running and not paused (`BatchAdmitted`); after `pause_rebalance` returns nothing
moves (`PauseHolds`); outcomes say what happened (`OutcomeTruthful`); the lease names
the one live worker (`LeaseMatches`); a cancelled worker ends (`CancelEnds`), and a
worker ends once nobody pauses its migration (`WorkerEnds`). `rebalance_to` in the
background returns once nobody pauses a migration or starts one to another target
(`CoopReturns`), also if what it waits for was paused and is never resumed by anyone else.

Of replication: a success has its quorum; a failure is not overtaken by late
acknowledgements; replicas apply each write at most once and in the primary's order;
the stored handle is that of the coordinator with work left; calls end by their
deadline, the turn is passed on, and dropping the map ends the replica calls.

Of the scheduler: the registry names exactly the worker with the lease; `join` returns
after the registration is free; the first stop reason stays unless a panic replaces
it; whoever is told to stop ends; the last owner's drop ends every worker.

Of eviction: metadata that is not marked dirty names exactly what is stored; when nobody
is in a call the map is within its limits or `pending` says that it may not be; an
exclusive pass that nothing disturbed leaves the limits and its target met; victims go
in the configured order as callers could observe it.

### What the two violations show

`oneworker`: when the thread cannot be created, `spawn_rebalance` releases the lease
twice, once by the guard inside the closure `Builder::spawn` drops and once in its error
arm. Between the two another caller may claim the lease for the same generation; the
second release frees it under that worker, and a third caller gets a second worker.
Both then run batches. Routing still keeps each batch correct (`BatchAdmitted` is
proved with failing spawns), so what is broken is the promise of a single worker.

`running`: `WorkerLease::finish` clears `running` in the control block before it clears
the registration. In between `status()` says the worker does not run while a start is
refused because it does.

### Bounds

`MaxEpoch` stops new mutating calls once that many publications have happened (calls
under way still finish); `Counts`, `Keys`, `Vals` and `Threads` are the sets in the cfg
files. Two keys suffice for all pairwise effects between keys (a shared slot, separate
slots, one promoted and one not), two shards for every route between generations, two
threads for each pair of methods. Threads are symmetric.

`config.calls` (2 or 3 by map) bounds the calls of the `async` run, `MaxDrops` (1) those
dropped. Three tasks make a reader queue behind a writer that queues behind a reader, the
shortest circle that fairness adds. The nine maps (`SmallMaps`) are a map in the middle of
a migration or not, with limits or without, each with the calls that contend there: a
product of all calls with all maps is out of reach and adds pairs that share no lock.

`MaxEntries` bounds the entries of a slot, `MaxGen` the migrations users start;
`Unlimited` stands for `usize::MAX`. Two generations are needed for a worker to be
superseded, two entries with a batch size of two for a batch to end in the middle
of a slot and for the adaptive batch size to shrink (`tasks_live`; one entry suffices
where a caller competes), three workers for the failed spawn, its rival and the one
admitted by mistake.

Two writes are needed for one to overtake the other, two replicas for a majority that
does not need everybody, and the quorums of a primary with two replicas are 2 and 3.
Two workers are needed for a late lease to meet a successor.

`MaxCalls` bounds the calls of the `eviction` run, `MaxTroubles` its panics and changes
of the layout together. Two keys and a limit of one make every second insertion
overshoot; three calls of two threads suffice for a replacement or a read to fall
between an insertion and the pass that must choose a victim.

Atomics are modelled as sequentially consistent. The map publishes epochs with
Release under the shard lock and reads them with Acquire, and reads its counts
with Relaxed only under routing, which orders them.

### Fairness

- Rebalance: strong fairness for each worker's and caller's step and for the second
  half of `cancel`: a thread or task that can run again and again is scheduled, and
  the locks it needs are held for bounded times and not withheld from a waiter for
  ever. Users are free to start, pause, resume and cancel, or not. `WorkerEnds` therefore
  assumes that pauses cease, and `CoopReturns`, for each caller, that pauses and
  migrations to other targets than its own (`Diverts`) cease. No fairness replaces the
  latter. The loop of `rebalance_to` (`src/core/sync_impl/rebalance_impl.rs:334`) leaves
  only when it finds the layout at its target and nothing migrating. Another such call
  with a different target may take routing first whenever a migration has ended and start
  its own, after which the first call does the same to it: both can go on for ever with
  nobody pausing and every thread running. Users who keep calling `start_rebalance_online`
  with another target have the same effect. TLC does not show this: each round is a new
  generation, so the behaviour never comes back to a state, and two such calls have
  infinitely many states. The run `callers` has one call; users divert it with
  `start_rebalance_online`, stop-the-world and `spawn_rebalance` as far as `MaxGen` goes.
- Replication: weak fairness for deadlines, calls that are polled, coordinators and the
  removal of aborted replica calls. Replicas need never answer, but they must yield:
  a Tokio task can only be aborted at an await.
- Eviction scheduler: weak fairness for each worker's own steps, for the notification
  of a `cancel` under way, and for the drop of the owner. No clock is fair: an
  interval may be arbitrarily long. A thread's tick is assumed to end.

## Proofs

`ShardedMap_proofs` proves for every set of threads, keys and values, every hash
function and every set of shard counts:

- `TypeCorrect`: `Spec => []TypeOK`, which includes that indices stay inside
  their directory;
- `EntriesHaveOneHome`: `Spec => []OneHome`;
- `MigrationTracked`: `Spec => []MigrationState`.

All three follow from `HomeAlways`, the invariance of `HomeInv`. Neither `TypeOK`
nor `OneHome` is inductive alone. A writer that reaches its store assumes the key
has already left the previous generation (`Emptied`); that stays true only
because the writer holds routing shared and every layout change needs it
exclusively (`RoutingHeld`); dropping the last source slot is harmless only
because all earlier ones are gone (`MigrationState`); and steps are well defined
only if a thread runs the steps of its own call (`CallMatches`). `HomeInv` is the
conjunction. Interestingly it does not mention shard locks: homes are safe by
routing alone, and the shard locks are what linearizability needs.

The proof has one lemma per action. `LayoutKept` covers all steps that change slots
and not the counts, `ThreadMoves` all moves of a thread, `QuietStep` all steps that
leave the directories alone. Assumptions: the named `ASSUME`s of `MapCalls` and
`ShardState` (at least one shard, natural hashes, finitely many keys, distinct
markers).

The second half of the module proves `LenCorrect` (`LenExact`), `CacheNeverStale`
(`CacheCoherent`) and `VersionsNameContents` (`VersionNamesContents`) under the same
assumptions, from `ConsistentAlways`, the invariance of `HomeInv /\ LocksHeld /\ ValueInv`.
`LocksHeld` says which locks a thread holds at each step and what it knows of the slots it
reached through them: a writer keeps its shard's guard from `LockActive` to `Release`, a
transaction the guards of all its shards, a builder those of every shard it has passed.
`ValueInv` adds that an unfinished change is in the hands of a thread that has the key's
shard (`DirtyOwned`, `Marked`), that what was captured at the current epoch is the contents
(`CapturedCurrent`), that a change which is published but not yet visible has made every
captured snapshot outdated (`Settled`), and that a builder with all guards has the current
epoch (`CutCurrent`). None of the three properties is inductive without the locks: a builder's
copy is consistent only because nobody can be between a store and its publication in a
shard whose guard the builder has.

It also proves `MapLinearizable`: `Spec => Linearizable`, the refinement of `MapSpec`. Its
invariant `RefineInv` says what a thread that has stored, but not yet dropped its guards,
will have done when it drops them. One lemma per action shows which step of `MapSpec` it
is: `ReadActive`, `ReadPrevious` and a removal that finds nothing are `DoKey`; `Release`
is `DoKey`, or `DoPanic` after a panic; `TxnCommit` is `DoTxn`, `TxnAbort` and `TxnUnwind`
are `DoPanic`; a cache hit and `Collect` are `DoSnapshot`; `SweepFinish` is `DoSweep`,
`SweepUnwind` is `DoPanic`; `Invoke` and `Return` are themselves; everything else,
promotion and migration included, leaves the visible contents alone.

`Rebalance_proofs` proves for any number of workers and callers, any counts, batch size
and bounds, threads or tasks:

- `BatchesAreAdmitted`, `OutcomesAreTruthful`, `PauseIsHonoured`, also with failing
  spawns;
- `LeaseIsExclusive`: `LeaseMatches`, provided threads can always be created. The
  condition is needed: `oneworker` is the counterexample without it.

They follow from `CoreAlways`. `Core` adds to the properties that a generation is
finished or under way, never both (`Generations`), and that a worker about to report
has one of the reasons there are to stop (`Reasons`): `OutcomeTruthful` speaks of the
moment of the report, while the reason was seen steps before, under a lock given back
since. `LeaseIsExclusive` needs `Core` beside `LeaseMatches`.

`Replication_proofs` proves for any number of calls, any finite set of replicas and every
valid quorum: `SuccessMeansQuorum`, `FailuresAreFinal`, `ReplicasKeepOrder`,
`HandleIsCurrent`. The invariant (`ReplicationInvariant`) ties the ordering mutex to the
stage of a call (`Turns`), says that the write being replicated is the primary's latest
(`Stamps`), what an answer says of the replica's log (`Fans`), and how many answers
can still come (`Verdicts`, with cardinalities): a failure is final because the replica
calls left cannot reach the quorum, not only because they have not yet.

`EvictionScheduler_proofs` proves for any number of starts `LeaseIsRegistered`,
`JoinWaitsForRelease` and `ReasonsAreKept`. The invariant adds to `LeaseMatches` what each
step of a worker says of its control block (`Lifecycle`); the generation test in `finish`
then always succeeds.

`Eviction_proofs` proves for every set of threads and keys, all weights, limits, policies
and layouts: `TypesCorrect`, `MetadataNeverLies` (`MetadataExact`), `LimitsKept`
(`LimitsOrPending`), `PassesEnforce` (`PassEnforces`), `OldestEvictedFirst`
(`OldestGoesFirst`). The invariant has three layers, each inductive relative to the ones
before:

- `Base`: types, which call is at which step, which steps exclude each other, the order of
  the epochs, and that no two entries share a stamp;
- `Records`: the length counts what is stored or was before an unrecorded change; clean
  metadata is exact; the candidates of a pass are still what they were, since its locks
  keep others away; a key's stamp lies in the span its history gives it;
- `Limits`: what each pass has achieved. Entries of a shard being trimmed are among the
  candidates (`TrimCovers`); what an exclusive pass is done with is not in excess, or one
  candidate is taken for the one entry too many (`PassCovers`); shards a pass is done with
  rest until new work is announced (`ShardsDone`); and a map over its limits, with
  maintenance up to date, has somebody who is going to look (`SomebodyLooks`).

Weights are added up by the library's fold, a recursive function on sets. What the proof
needs of the sum (it exists, is monotone, and is zero for zeros) is shown by a least
counterexample: sets of natural numbers have least members, so no induction principle
with an operator as its parameter is needed. An attempt to prove an earlier form of
`OldestGoesFirst` showed that it spoke of every removal made while a pass is running, a
caller's own removal in another shard included, of which it does not hold; it is now about
what the pass itself removes.

`AsyncMap_proofs` proves for every set of tasks, keys and values, every hash, every mix of
calls and any number of dropped futures:

- `LockTableKept`, the invariant `Base`: what a task has in hand at each await
  (`CallFits`), and the table of the locks it may and must hold there (`MayHold`,
  `HeldBy`). A task in the middle of a plan holds only shards below what is left of it;
- `RoutingAlwaysExcludes` (`RoutingExcludes`), which follows from the table;
- `NobodyWedged` (`NoWedge`). `Queues` adds that those ahead of a waiting task want the
  same lock, are waiting themselves, and have nobody ahead that it has not. Locks have a
  `Rank`, gate, rebalance, routing, directory, active shards and previous shards ascending,
  and whoever waits for a lock holds only lower ones (`HoldsBelow`). Of a set of
  waiting tasks take those that want the highest lock, and among these one with as few
  ahead as possible: it waits for nobody in the set (`SomebodyMoves`). Queued writers, the
  danger of fair locks, want the same lock and are covered by the second choice.

`AsyncData_proofs` adds two layers on the same terms:

- `MapStaysWhole` (`MapWhole`). `Data` says of each task what its guards let it rely on
  (`Fits`): the shards of the keys in hand exist (`Housed`), during a migration it
  has one key in hand (`Handful`), a builder has a guard on every shard there is or still
  plans to (`Freezing`), a migration is under way or not as each step of resharding expects
  (`Moving`), and items collected at an epoch that still stands are the contents
  (`Filling`), which is what makes it safe to fill the cache after the guards are gone. It
  holds although any of these tasks may be dropped, since each step leaves the data, the
  length, the epoch and the metadata in agreement;
- `LimitsStayPending` (`LimitsOrPending`). `Limits` holds in every state, not only when
  nobody is in the map: it is within its limits, or `dirty` or `work`. Growth comes
  with a new generation of work (`Announced`), which makes every pass under way obsolete.
  `Surveyed` says what a pass knows as long as its generation is the latest: shards it
  has neither to inspect, nor picked, nor locked have room. Only a glance without a limit
  per shard, a global pass and the end of a pass by shards forget work, and each of them
  has then seen that there is none.

`AsyncLinearizability_proofs` proves `AsyncMapLinearizable` (`Linearizable`): the map
implements `AsyncMapSpec`. `Owing` relates what a call has left to do, and has answered,
to where it is. `Due` says that at the awaits before its effect a call owes all of its
keys, and none after it. `Missed`: the active shard of a lookup that goes on to the
previous generation stays without its key, because the lookup keeps that shard's guard, or
the directory while the slot is empty. `Guarding`: whoever is to write has the active
shard of every key or still plans to lock it, so no promotion gets past such a lookup.
`Sifting`: what is still stored while `retain` goes from shard to shard is kept or in a
shard to come. `Hidden`: while a `retain` is half done no snapshot carries the current
epoch, cached or about to be cached, so that a cache hit, which asks for no lock, cannot
show it. Each step that changes what callers see is then a step of `AsyncMapSpec`
(`Effect`, from what `Deals` says of it), by kind of call: `AccessSimulated`,
`SnapshotSimulated`, `BulkSimulated`, `EvictionSimulated`, `CallSimulated`; all others are
invisible (`SilentSimulated`).

Assumed of a map before its first call (`ScenariosAssumption` of `AsyncMap`, which TLC
evaluates for the instance): every entry in its home, drained slots empty, limits that are
natural numbers or absent, of one kind, and not exceeded: maintenance is not yet due.
The code refuses a configuration with limits of both kinds (`src/eviction.rs`).
`TargetsAssumption`: targets are valid shard counts, as `strict_shard_count` makes them.
There are keys at all, and no call is a batch or a transaction of none
(`StateAssumption`, `OtherCallsAssumption`): those change no entry.

The invariants of `Rebalance_proofs`, `Replication_proofs`, `EvictionScheduler_proofs` and
`Eviction_proofs` contain the types of the variables (`Shape`).

Every safety invariant and action property that a passing run checks is proved, and so are
both refinements, of `MapSpec` and of `AsyncMapSpec`. Model-checked only: the liveness
properties (`CancelEnds`, `CoopReturns`, `WorkerEnds`, `CallEnds`, `TurnPasses`,
`DropCancels`, `OwnersEnd`), because fairness is out of the prover's reach. What the two
violated runs check is false.

## Not modelled, and the plan

In order:

1. Liveness of the asynchronous map: every call that is polled returns.
2. Batch operations of the synchronous map. They group keys by shard and lock one
   shard at a time as those of the asynchronous map do, where they are modelled.
3. The synchronous map under locks that queue readers behind a waiting writer. Its lock
   order is that of the asynchronous map, for which `NoWedge` is proved; the model of the
   synchronous map has locks without queues.

Left out for good: serde and formatting (pure I/O), statistics, metrics and lock
profiles (nothing reads them back), the entry API (each method is one modelled
call; chains are documented not to be atomic), the validation of shard counts and
options (pure checks of numbers).
