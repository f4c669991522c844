---------------------------- MODULE AsyncEviction ----------------------------
(*****************************************************************************)
(* Eviction maintenance of the asynchronous map                              *)
(* (async_impl/eviction_impl.rs): run by every mutation before it returns    *)
(* and by evict and enforce_eviction_limits.  Ranks, weights and memory      *)
(* budgets are the subject of Eviction: here any entry may go first.         *)
(*****************************************************************************)
EXTENDS AsyncState, SequencesExt

\* None of the two: no limit.
Limit(a, b) == IF a = Nil THEN b ELSE IF b = Nil \/ a < b THEN a ELSE b

target(t) == IF call[t].op = "evict" THEN call[t].target ELSE Nil
entry_limit(t) == Limit(target(t), config.max_entries)
shard_limit == config.max_items_per_shard

Over(n, limit) == limit # Nil /\ n > limit

maintenance_generation(t) == current' = current \cup {t}

Maintain(t) ==
  /\ pc[t] = "maintain"
  /\ \/ ~enabled /\ Goto(t, "return") /\ UNCHANGED current
     \/ /\ enabled /\ target(t) = Nil /\ shard_limit # Nil
        /\ Goto(t, "share") /\ UNCHANGED current
     \/ /\ enabled /\ (target(t) # Nil \/ shard_limit = Nil)
        /\ Goto(t, "glance") /\ maintenance_generation(t)
  /\ UNCHANGED <<config, layout, counters, snapshot_cache, meta, dirty, work, locks, call,
                 frame, bounds>>

\* A clean map within its limits needs no pass; otherwise the work is announced first.
Glance(t) ==
  /\ pc[t] = "glance"
  /\ IF ~dirty /\ shard_limit = Nil /\ ~Over(total_len, entry_limit(t))
     THEN mark_maintained(t) /\ Goto(t, "return")
     ELSE mark_pending /\ Goto(t, "pass")
  /\ UNCHANGED <<config, layout, counters, snapshot_cache, meta, dirty, locks, call, frame,
                 bounds>>

\* A pass takes its ticket and notes what has been announced so far.
PassBegins(t) == work' = TRUE /\ current' = {t}

ExclusivePass(t) ==
  /\ pc[t] = "pass"
  /\ Acquire(t, {})
  /\ PassBegins(t)
  /\ Goto(t, IF dirty THEN "repair" ELSE "evict")
  /\ UNCHANGED <<config, layout, counters, snapshot_cache, meta, dirty, call, frame, bounds>>

\* reconcile: the metadata is rebuilt from the data.
Repair(t) ==
  /\ pc[t] = "repair"
  /\ meta' = Stored /\ dirty' = FALSE
  /\ Goto(t, "evict")
  /\ UNCHANGED <<config, layout, counters, snapshot_cache, work, current, locks, call, frame,
                 bounds>>

InShard(K, i) == {k \in K : shard_index(k) = i}

\* The candidates to evict: one at a time, while a limit is exceeded.
Excess(t, gone) ==
  \/ Over(total_len - Cardinality(gone), entry_limit(t))
  \/ \E i \in Idx : Over(Cardinality(InShard(meta \ gone, i)), shard_limit)

Needed(t, K) ==
  /\ ~Excess(t, K)
  /\ \E order \in SetToSeqs(K) :
       \A n \in DOMAIN order :
         LET gone == {order[m] : m \in 1..(n - 1)} IN
         \/ Over(total_len - Cardinality(gone), entry_limit(t))
         \/ Over(Cardinality(InShard(meta \ gone, shard_index(order[n]))), shard_limit)

\* Entries are evicted, each by a ShardMutation of its own.
Evicted(K) ==
  /\ shards' = [i \in Idx |-> Without(shards[i], K)]
  /\ previous_shards' = [i \in Idx |-> Without(previous_shards[i], K)]
  /\ total_len' = total_len - Cardinality(K)
  /\ write_epoch' = write_epoch + Cardinality(K)
  /\ Recorded(K, {})

\* Metadata that became suspect since is not trusted: nothing is evicted.
EvictGlobally(t) ==
  /\ pc[t] = "evict"
  /\ \E K \in SUBSET meta :
       /\ IF dirty THEN K = {} ELSE Needed(t, K)
       /\ Evicted(K)
  /\ mark_maintained(t)
  /\ Release(t, {Routing})
  /\ Goto(t, "return")
  /\ UNCHANGED <<config, shard_count, previous_shard_count, migrating, moved_shards,
                 snapshot_cache, dirty, call, frame, bounds>>
-----------------------------------------------------------------------------
(*****************************************************************************)
(* maintain_per_shard: shared routing, and the overfull shards one by one.   *)
(*****************************************************************************)
\* The global path instead.
GivesUp(t) == Goto(t, "glance")

SharePass(t) ==
  /\ pc[t] = "share"
  /\ IF previous_shard_count # 0 \/ dirty
     THEN /\ Acquire(t, {Routing})
          /\ maintenance_generation(t) /\ GivesUp(t) /\ UNCHANGED work
     ELSE /\ Acquire(t, {})
          /\ PassBegins(t) /\ Goto(t, "pass_slots")
  /\ UNCHANGED <<config, layout, counters, snapshot_cache, meta, dirty, call, frame, bounds>>

\* A shard is inspected and its guard dropped: the overfull ones are locked later, in order.
Selected(t, plan, picked) ==
  [frame[t] EXCEPT !.plan = IF plan = {} THEN picked ELSE plan,
                   !.picked = IF plan = {} THEN {} ELSE picked]

AfterScan(plan, picked) ==
  IF plan # {} THEN "scan" ELSE IF picked # {} THEN "pass_lock" ELSE "trim"

PassSlots(t) ==
  LET plan == Both(Initialized(shards), {}) IN
  /\ pc[t] = "pass_slots"
  /\ Acquire(t, {Slots})
  /\ Goes(t, AfterScan(plan, {}), Selected(t, plan, {}))
  /\ UNCHANGED <<config, layout, counters, snapshot_cache, engine, call, bounds>>

Crowded(l) == Over(Cardinality(Keyset(Home(l))), shard_limit)

Scan(t) ==
  LET l == NextShard(t)
      rest == frame[t].plan \ {l}
      picked == frame[t].picked \cup (IF Crowded(l) THEN {l} ELSE {}) IN
  /\ pc[t] = "scan"
  /\ Acquire(t, {l})
  /\ Goes(t, AfterScan(rest, picked), Selected(t, rest, picked))
  /\ UNCHANGED <<config, layout, counters, snapshot_cache, engine, call, bounds>>

PassLock(t) ==
  /\ pc[t] = "pass_lock"
  /\ Acquire(t, {})
  /\ LET rest == frame[t].plan \ {NextShard(t)} IN
     Goes(t, IF rest = {} THEN "trim" ELSE "pass_lock", [frame[t] EXCEPT !.plan = rest])
  /\ UNCHANGED <<config, layout, counters, snapshot_cache, engine, call, bounds>>

\* The shards a pass has locked.
Held(t) == {l \in ShardLocks : writer[l] = t}

\* Just enough entries of each overfull shard go.
Trims(t, K) ==
  /\ K \subseteq meta \cap UNION {Keyset(Home(l)) : l \in Held(t)}
  /\ \A l \in Held(t) :
       LET full == Keyset(Home(l)) IN
       Cardinality(full \cap K) =
         IF Crowded(l) THEN Cardinality(full) - shard_limit ELSE 0

TrimShards(t) ==
  /\ pc[t] = "trim"
  /\ \/ /\ dirty
        /\ MutationTicketDrop(TRUE)
        /\ maintenance_generation(t) /\ GivesUp(t)
        /\ UNCHANGED <<shards, previous_shards, counters, meta, work>>
     \/ /\ ~dirty
        /\ \E K \in SUBSET meta : Trims(t, K) /\ Evicted(K)
        /\ mark_maintained(t) /\ Goto(t, "return") /\ UNCHANGED dirty
  /\ Release(t, Locks)
  /\ UNCHANGED <<config, shard_count, previous_shard_count, migrating, moved_shards,
                 snapshot_cache, call, frame, bounds>>

EvictionStep(t) ==
  \/ Maintain(t) \/ Glance(t)
  \/ ExclusivePass(t) \/ Repair(t) \/ EvictGlobally(t)
  \/ SharePass(t) \/ PassSlots(t) \/ Scan(t) \/ PassLock(t) \/ TrimShards(t)
=============================================================================
