----------------------------- MODULE MCAsyncMap -----------------------------
(*****************************************************************************)
(* Small instances of AsyncMap: a few maps, each with the calls that meet    *)
(* there.                                                                    *)
(*****************************************************************************)
EXTENDS AsyncMap, TLC

CONSTANTS t1, t2, t3, k1, k2, v1, v2

TaskSymmetry == Permutations(Threads)

\* Two keys that share the only shard of a one-shard map and not of a two-shard map.
SplitHash == (k1 :> 1) @@ (k2 :> 0)

KeyCall(op, k, exp, new) == [op |-> op, key |-> k, exp |-> exp, new |-> new]
Get(k) == KeyCall("get", k, Nil, Nil)
Insert(k, v) == KeyCall("insert", k, Nil, v)
Delete(k) == KeyCall("remove", k, Nil, Nil)
Batch(op, v) == [op |-> op, keys |-> Keys, new |-> v]
Txn(steps) == [op |-> "txn", steps |-> steps]
Step(op, k, v) == [op |-> op, key |-> k, new |-> v]
Snapshot == [op |-> "snapshot"]
View == [op |-> "view"]
Clear == [op |-> "clear"]
Drain == [op |-> "drain"]
Retain(K) == [op |-> "retain", keep |-> K]
Start(n) == [op |-> "start_rebalance_online", target |-> n]
Rebuild(n) == [op |-> "rebalance_to", target |-> n]
Advance(most, entries, timed) ==
  [op |-> "advance_rebalance", max_shards |-> most, max_entries |-> entries,
   timed |-> timed]
Enforce == [op |-> "enforce"]
EvictTo(n) == [op |-> "evict", target |-> n]

NoLimit == 9   \* more than there is

(*****************************************************************************)
(* The mixes.                                                                *)
(*****************************************************************************)
MixOf ==
  [\* Single keys against a batch of a migration.
   key |-> {Get(k1), Insert(k1, v2), Delete(k1), KeyCall("cas", k1, v1, v2),
            KeyCall("compare_and_remove", k1, v1, Nil), Advance(1, NoLimit, FALSE)},

   \* Those who lock several shards, in both generations.
   txn |-> {Txn(<<Step("write", k1, v2), Step("remove", k2, Nil)>>),
            Txn(<<Step("remove", k2, Nil), Step("read", k1, Nil)>>),
            Snapshot, Insert(k1, v2)},

   batch |-> {Batch("batch_insert", v2), Batch("batch_remove", Nil), Batch("batch_get", Nil),
              Snapshot, Delete(k1)},

   \* Removals shard by shard or all at once, before and after a snapshot is cached.
   sweep |-> {Retain({k1}), Drain, Insert(k2, v2), Snapshot},

   \* Resharding of every kind, and clear in the middle of it.
   layout |-> {Start(1), Start(2), Rebuild(1), Rebuild(2), Advance(NoLimit, 1, TRUE),
               Advance(NoLimit, NoLimit, FALSE), Insert(k1, v2), Get(k1), Clear},

   \* A full map.
   limit |-> {Insert(k2, v2), KeyCall("compute", k1, Nil, Nil),
              KeyCall("get_or_insert", k1, Nil, v2), EvictTo(0)},

   \* Two overfull shards at a time.
   crowd |-> {Batch("batch_insert", v2), Insert(k1, v2), View, Enforce},

   \* Shards that become overfull because there are fewer of them.
   shrink |-> {Start(1), Rebuild(1), Enforce, Insert(k1, v2)}]

Config(mode, entries, items, mix, n) ==
  [mode |-> mode, max_entries |-> entries, max_items_per_shard |-> items, mix |-> mix,
   calls |-> n]

\* A map of n shards with the keys in present; p # 0: on its way from p shards, the keys
\* in old not moved yet.
Map(n, present, p, old, options) ==
  LET slot(K) == IF K = {} THEN NoShard ELSE [k \in Keys |-> IF k \in K THEN v1 ELSE Nil] IN
  [config |-> options, shard_count |-> n, previous_shard_count |-> p, moved_shards |-> 0,
   shards |-> [i \in Idx |-> slot({k \in present \ old : SplitHash[k] % n = i})],
   previous_shards |-> [i \in Idx |->
     IF p = 0 THEN NoShard ELSE slot({k \in old : SplitHash[k] % p = i})]]

SmallMaps ==
  {Map(2, {k1, k2}, 1, {k1, k2}, Config("Cow", Nil, Nil, "key", 3)),
   Map(2, {k1, k2}, 1, {k1, k2}, Config("Cached", 2, Nil, "txn", 3)),
   Map(1, {k1, k2}, 2, {k1}, Config("Cow", Nil, Nil, "batch", 2)),
   Map(2, {k1}, 0, {}, Config("Cow", Nil, Nil, "batch", 2)),
   Map(1, {k1, k2}, 2, {k1}, Config("Cached", 2, Nil, "sweep", 3)),
   Map(2, {k1, k2}, 0, {}, Config("Clone", Nil, Nil, "layout", 3)),
   Map(2, {k1}, 0, {}, Config("Clone", 1, Nil, "limit", 3)),
   Map(2, {}, 0, {}, Config("Clone", Nil, 0, "crowd", 2)),
   Map(2, {k1, k2}, 0, {}, Config("Clone", Nil, 1, "shrink", 3))}

CallsOfMixes == UNION {MixOf[m] : m \in DOMAIN MixOf}

CallsBeyondMapCalls ==
  {c \in CallsOfMixes : c.op \in BatchOps \cup LayoutOps \cup {"enforce", "evict", "drain"}}

CallsOfMapCalls == CallsOfMixes \ CallsBeyondMapCalls
=============================================================================
