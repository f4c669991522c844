----------------------------- MODULE Migration -----------------------------
(*****************************************************************************)
(* Resharding: start_rebalance_online, advance_rebalance_inner and           *)
(* rebalance_to of sync_impl/rebalance_impl.rs.  All of it runs under        *)
(* exclusive routing and publishes neither a length nor an epoch, so nothing *)
(* another thread can do falls between the parts of a step.                  *)
(*****************************************************************************)
EXTENDS ShardState

Exclusive == Available(Routing)

StartRebalance(target) ==
  /\ Exclusive
  /\ ~migrating /\ target # shard_count
  /\ previous_shards' = shards
  /\ shards' = [i \in Idx |-> NoShard]
  /\ previous_shard_count' = shard_count
  /\ shard_count' = target
  /\ migrating' = TRUE
  /\ moved_shards' = 0
  /\ UNCHANGED <<counters, snapshot_cache, locks, pc, call, reply, at, cut, preimage>>

IsEmpty(slot) == slot = NoShard \/ slot = EmptyShard

(*****************************************************************************)
(* One turn of the batch loop: move an entry out of the source slot being    *)
(* drained; drop the slot once it is empty; drop the generation with its     *)
(* last slot.  Budgets, pauses, cancellation and panics end a batch after    *)
(* any turn, so a batch is any number of these steps.                        *)
(*****************************************************************************)
\* Mutant of LastSource: one slot too late.
LastSourceLate == moved_shards = previous_shard_count

LastSource == moved_shards + 1 = previous_shard_count

AfterSource(i, source) ==
  IF ~IsEmpty(source)
  THEN /\ previous_shards' = [previous_shards EXCEPT ![i] = source]
       /\ UNCHANGED <<previous_shard_count, migrating, moved_shards>>
  ELSE /\ previous_shards' = [previous_shards EXCEPT ![i] = NoShard]
       /\ previous_shard_count' = IF LastSource THEN 0 ELSE previous_shard_count
       /\ migrating' = ~LastSource
       /\ moved_shards' = IF LastSource THEN 0 ELSE moved_shards + 1

MigrateEntry ==
  LET i == moved_shards
      source == previous_shards[i] IN
  /\ Exclusive
  /\ migrating
  /\ IF IsEmpty(source)
     THEN UNCHANGED shards /\ AfterSource(i, source)
     ELSE \E k \in {j \in Keys : source[j] # Nil} :
            /\ shards' = [shards EXCEPT ![shard_index(k)] = Promoted(@, source, k)]
            /\ AfterSource(i, Detached(source, k))
  /\ UNCHANGED <<shard_count, counters, snapshot_cache, locks, pc, call, reply, at, cut, preimage>>

\* The staged copy of rebalance_to: entries of the active generation win.
Staged(target) ==
  [i \in Idx |->
     LET routed == {k \in Keys : Hash[k] % target = i /\ Stored(k) # Nil} IN
     IF routed = {} THEN NoShard
     ELSE [k \in Keys |-> IF k \in routed THEN Stored(k) ELSE Nil]]

StopTheWorld(target) ==
  /\ Exclusive
  /\ target # shard_count \/ migrating
  /\ shards' = Staged(target)
  /\ previous_shards' = [i \in Idx |-> NoShard]
  /\ previous_shard_count' = 0
  /\ shard_count' = target
  /\ migrating' = FALSE
  /\ moved_shards' = 0
  /\ UNCHANGED <<counters, snapshot_cache, locks, pc, call, reply, at, cut, preimage>>

MigrationStep ==
  \/ \E target \in Counts : StartRebalance(target) \/ StopTheWorld(target)
  \/ MigrateEntry
=============================================================================
