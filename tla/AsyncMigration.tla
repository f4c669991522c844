--------------------------- MODULE AsyncMigration ---------------------------
(*****************************************************************************)
(* Resharding of the asynchronous map (async_impl/rebalance_impl.rs).  All   *)
(* of it runs under rebalance_lock and exclusive routing, and any of it may  *)
(* be dropped between two entries.  Pausing, supervised workers and          *)
(* generations are the subject of Rebalance.                                 *)
(*****************************************************************************)
EXTENDS AsyncState

LayoutOps == {"start_rebalance_online", "advance_rebalance", "rebalance_to"}

RebalanceLock(t) ==
  /\ pc[t] = "rebalance"
  /\ Acquire(t, {}) /\ Goto(t, "exclusive")
  /\ UNCHANGED <<config, layout, counters, snapshot_cache, engine, call, frame, bounds>>

\* The early returns: nothing to start, nothing to rebuild, nothing to advance.
Idles(c) ==
  CASE c.op = "start_rebalance_online" -> migrating \/ c.target = shard_count
    [] c.op = "rebalance_to"           -> c.target = shard_count /\ ~migrating
    [] c.op = "advance_rebalance"      -> c.max_shards = 0 \/ ~migrating

ExclusiveRouting(t) ==
  /\ pc[t] = "exclusive" /\ call[t].op \in LayoutOps
  /\ IF Idles(call[t])
     THEN Acquire(t, Locks) /\ Goto(t, "return")
     ELSE Acquire(t, {}) /\ Goto(t, CASE call[t].op = "start_rebalance_online" -> "swap"
                                      [] call[t].op = "rebalance_to" -> "rebuild"
                                      [] call[t].op = "advance_rebalance" -> "batch")
  /\ UNCHANGED <<config, layout, counters, snapshot_cache, engine, call, frame, bounds>>

\* Mutant of start_rebalance_online: the new layout is not announced to the eviction engine.
start_rebalance_onlineSilent(t) ==
  /\ pc[t] = "swap"
  /\ previous_shards' = shards
  /\ shards' = [i \in Idx |-> NoShard]
  /\ previous_shard_count' = shard_count
  /\ shard_count' = call[t].target
  /\ migrating' = TRUE /\ moved_shards' = 0
  /\ Release(t, Locks)
  /\ Goto(t, "return")
  /\ UNCHANGED <<config, counters, snapshot_cache, engine, call, frame, bounds>>

start_rebalance_online(t) ==
  /\ pc[t] = "swap"
  /\ previous_shards' = shards
  /\ shards' = [i \in Idx |-> NoShard]
  /\ previous_shard_count' = shard_count
  /\ shard_count' = call[t].target
  /\ mark_pending
  /\ migrating' = TRUE /\ moved_shards' = 0
  /\ Release(t, Locks)
  /\ Goto(t, "return")
  /\ UNCHANGED <<config, counters, snapshot_cache, meta, dirty, call, frame, bounds>>

\* The staged copy of rebalance_to: what the active generation has wins.
Staged(target) ==
  [i \in Idx |->
     LET here == {k \in Stored : Hash[k] % target = i} IN
     IF here = {} THEN NoShard
     ELSE [k \in Keys |-> IF k \in here THEN Contents[k] ELSE Nil]]

rebalance_to(t) ==
  /\ pc[t] = "rebuild"
  /\ shards' = Staged(call[t].target)
  /\ previous_shards' = [i \in Idx |-> NoShard]
  /\ previous_shard_count' = 0
  /\ shard_count' = call[t].target
  /\ mark_pending
  /\ total_len' = Cardinality(Stored)
  /\ migrating' = FALSE /\ moved_shards' = 0
  /\ Release(t, Locks)
  /\ Goto(t, "return")
  /\ UNCHANGED <<config, write_epoch, snapshot_cache, meta, dirty, call, frame, bounds>>
-----------------------------------------------------------------------------
(*****************************************************************************)
(* advance_rebalance_inner.  frame.part is work_keys, and frame.plan the key *)
(* popped from it, while its move waits for the two shards.                  *)
(*****************************************************************************)
Source == previous_shards[moved_shards]

\* The keys to move out of the source: as many as the budget of entries allows, or fewer
\* if the pause budget runs out first.
Batches(t) ==
  LET room == call[t].max_entries - frame[t].moved
      size == Cardinality(Keyset(Source))
      most == IF size < room THEN size ELSE room IN
  {K \in SUBSET Keyset(Source) :
     IF call[t].timed /\ most > 0 THEN Cardinality(K) \in 1..most ELSE Cardinality(K) = most}

\* One of the keys in K is next; its target slot is initialized before its locks are there.
Pops(t, K) ==
  \E k \in K :
    /\ shards' = [shards EXCEPT ![shard_index(k)] = IF @ = NoShard THEN EmptyShard ELSE @]
    /\ Goes(t, "move", [frame[t] EXCEPT !.part = K \ {k}, !.plan = {k}])

LoadBatch(t) ==
  /\ pc[t] = "batch"
  /\ \E K \in Batches(t) :
       \/ K = {} /\ Goto(t, "drained") /\ UNCHANGED <<shards, frame>>
       \/ Pops(t, K)
  /\ UNCHANGED <<config, previous_shards, shard_count, previous_shard_count, migrating,
                 moved_shards, counters, snapshot_cache, engine, locks, call, bounds>>

\* move_one, with both shards locked.
MoveEntry(t) ==
  /\ pc[t] = "move"
  /\ Put(frame[t].plan, Contents)
  /\ Goes(t, "drained", [frame[t] EXCEPT !.plan = {}, !.moved = @ + 1])
  /\ UNCHANGED <<config, shard_count, previous_shard_count, migrating, moved_shards, counters,
                 snapshot_cache, engine, locks, call, bounds>>

BatchEnds(t) == Release(t, Locks) /\ Goto(t, "return")

\* The source still has entries: the batch goes on while it has keys in hand and budget left.
SourceLeft(t) ==
  /\ pc[t] = "drained" /\ Keyset(Source) # {}
  /\ LET goes_on == frame[t].part # {} /\ frame[t].moved < call[t].max_entries IN
     \/ goes_on /\ Pops(t, frame[t].part) /\ UNCHANGED locks
     \/ (~goes_on \/ call[t].timed) /\ BatchEnds(t) /\ UNCHANGED <<shards, frame>>
  /\ UNCHANGED <<config, previous_shards, shard_count, previous_shard_count, migrating,
                 moved_shards, counters, snapshot_cache, engine, call, bounds>>

LastSource == moved_shards + 1 = previous_shard_count

\* An empty source is dropped, and the previous generation with the last of them.
SourceDrained(t) ==
  LET completed == frame[t].completed + 1
      goes_on == completed < call[t].max_shards /\ frame[t].moved < call[t].max_entries IN
  /\ pc[t] = "drained" /\ Keyset(Source) = {}
  /\ IF LastSource
     THEN /\ previous_shards' = [i \in Idx |-> NoShard]
          /\ previous_shard_count' = 0 /\ migrating' = FALSE /\ moved_shards' = 0
          /\ BatchEnds(t) /\ UNCHANGED frame
     ELSE /\ previous_shards' = [previous_shards EXCEPT ![moved_shards] = NoShard]
          /\ moved_shards' = moved_shards + 1
          /\ \/ /\ goes_on
                /\ Goes(t, "batch", [frame[t] EXCEPT !.completed = completed])
                /\ UNCHANGED locks
             \/ (~goes_on \/ call[t].timed) /\ BatchEnds(t) /\ UNCHANGED frame
          /\ UNCHANGED <<previous_shard_count, migrating>>
  /\ UNCHANGED <<config, shards, shard_count, counters, snapshot_cache, engine, call, bounds>>

MigrationStep(t) ==
  \/ RebalanceLock(t) \/ ExclusiveRouting(t)
  \/ start_rebalance_online(t) \/ rebalance_to(t)
  \/ LoadBatch(t) \/ MoveEntry(t) \/ SourceLeft(t) \/ SourceDrained(t)
=============================================================================
