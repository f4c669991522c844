------------------------------ MODULE AsyncMap ------------------------------
(*****************************************************************************)
(* AsyncShardedHashMap: tasks that call its methods, over fair locks, and    *)
(* whose futures may be dropped at any await.                                *)
(*****************************************************************************)
EXTENDS AsyncBulk, AsyncMigration, AsyncEviction

\* Every entry of two generations is where its hash says, and in one of the two only.
OneHome(active, count, previous, previous_count) ==
  /\ \A i \in Idx :
       /\ \A k \in Keyset(active[i]) : i = Hash[k] % count
       /\ \A k \in Keyset(previous[i]) : previous_count # 0 /\ i = Hash[k] % previous_count
  /\ \A i, j \in Idx : Keyset(active[i]) \cap Keyset(previous[j]) = {}

\* A migration out of count shards, if that is not 0, has drained the first of them.
Drained(previous, count, first) ==
  /\ count # 0 => first < count
  /\ \A i \in Idx : count = 0 \/ i < first => previous[i] = NoShard

\* No call is under way and no maintenance is due: the map is within its limits.
ASSUME ScenariosAssumption ==
  \A s \in Scenarios :
    /\ Mixes[s.config.mix] \subseteq CallsMade
    /\ s.config.mode \in {"Clone", "Cached", "Cow"}
    /\ s.config.max_entries \in Nat \cup {Nil} /\ s.config.max_items_per_shard \in Nat \cup {Nil}
    /\ s.config.max_entries = Nil \/ s.config.max_items_per_shard = Nil
    /\ s.shard_count \in 1..MaxCount /\ s.previous_shard_count \in 0..MaxCount
    /\ s.shards \in [Idx -> Shard \cup {NoShard}] /\ s.moved_shards \in Idx
    /\ s.previous_shards \in [Idx -> Shard \cup {NoShard}]
    /\ OneHome(s.shards, s.shard_count, s.previous_shards, s.previous_shard_count)
    /\ Drained(s.previous_shards, s.previous_shard_count, s.moved_shards)
    /\ LET stored == {k \in Keys : \E i \in Idx :
                        k \in Keyset(s.shards[i]) \cup Keyset(s.previous_shards[i])} IN
       /\ ~Over(Cardinality(stored), s.config.max_entries)
       /\ \A i \in Idx : ~Over(Cardinality({k \in stored : Hash[k] % s.shard_count = i}),
                              s.config.max_items_per_shard)

\* strict_shard_count has a default for 0 and refuses what is too large.
ASSUME TargetsAssumption ==
  \A c \in OtherCalls :
    c.op \in {"start_rebalance_online", "rebalance_to"} => c.target \in 1..MaxCount

Next ==
  \E t \in Threads :
    \/ \E c \in Mixes[config.mix] : Invoke(t, c)
    \/ Enqueue(t) \/ Return(t) \/ Drop(t)
    \/ KeyStep(t) \/ BulkStep(t) \/ MigrationStep(t) \/ EvictionStep(t)

Spec == Init /\ [][Next]_vars
-----------------------------------------------------------------------------
Spec_map ==
  INSTANCE AsyncMapSpec WITH
    map <- Contents, bounded <- enabled,
    left <- [t \in Threads |-> frame[t].left],
    answer <- [t \in Threads |-> frame[t].got]

(*****************************************************************************)
(* Every call takes effect at one instant between its invocation and its     *)
(* return, or not at all if it is dropped: a dropped call leaves nothing     *)
(* half done, except that a batch and retain may have dealt with some of     *)
(* their keys.  Promotion, migration and the lazy slots are invisible, and   *)
(* only a bounded map loses what nobody removed.                             *)
(*****************************************************************************)
Linearizable == Spec_map!Spec

(*****************************************************************************)
(* Nobody waits for ever: among any tasks that wait, one waits for nobody of *)
(* them, and no task that is not in the map, because it returned or was      *)
(* dropped, holds a lock or stands in a queue.  Locks are fair, so a reader  *)
(* also waits for the writers queued before it.                              *)
(*****************************************************************************)
NoWedge ==
  /\ \A W \in (SUBSET waiting) \ {{}} : \E t \in W : Obstacles(t) \cap W = {}
  /\ \A t \in Threads : pc[t] = "idle" => \A u \in waiting : t # u /\ t \notin ahead[u]
  /\ \A t \in Threads, l \in Locks :
       pc[t] \in {"idle", "return"} => t \notin readers[l] \cup {writer[l]}

(*****************************************************************************)
(* Exclusive routing excludes everybody: whoever holds a shard or the        *)
(* directory also holds routing, and under exclusive routing nobody else     *)
(* does.  The steps under exclusive routing leave out their other locks on   *)
(* the strength of this.                                                     *)
(*****************************************************************************)
Holders(l) == readers[l] \cup ({writer[l]} \ {NoTask})

RoutingExcludes ==
  /\ \A l \in ShardLocks \cup {Slots} : Holders(l) \subseteq Holders(Routing)
  /\ writer[Routing] # NoTask => Holders(Routing) = {writer[Routing]}

(*****************************************************************************)
(* Whatever was dropped and where, the map is whole: every entry has one     *)
(* home, total_len counts them, the tracker and the directories agree on     *)
(* whether a migration is under way and where it stands, a cached snapshot   *)
(* of the current epoch lists the current entries, and the eviction engine   *)
(* has metadata for exactly these: no await separates a change of the data   *)
(* from its accounting and from the hook that records it.                    *)
(*****************************************************************************)
CacheCoherent ==
  \A c \in snapshot_cache : c.epoch = write_epoch => c.items = Pairs(Contents)

MapWhole ==
  /\ OneHome(shards, shard_count, previous_shards, previous_shard_count)
  /\ migrating <=> previous_shard_count # 0
  /\ Drained(previous_shards, previous_shard_count, moved_shards)
  /\ CacheCoherent
  /\ total_len = Cardinality(Stored)
  /\ enabled => meta = Stored

(*****************************************************************************)
(* A bounded map that nobody is in is within its limits, or knows that       *)
(* maintenance is due: a dropped maintenance, a change of the shard count    *)
(* or two passes at a time never lose the need for another.                  *)
(*****************************************************************************)
WithinLimits ==
  /\ ~Over(total_len, config.max_entries)
  /\ \A i \in Idx : ~Over(Cardinality(InShard(Stored, i)), shard_limit)

LimitsOrPending ==
  (\A t \in Threads : pc[t] = "idle") => WithinLimits \/ dirty \/ work
=============================================================================
