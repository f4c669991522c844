---------------------------- MODULE MCShardedMap ----------------------------
(*****************************************************************************)
(* Small instances of ShardedMap.                                            *)
(*****************************************************************************)
EXTENDS ShardedMap, TLC

CONSTANTS t1, t2, k1, k2, v1, v2

TwoCounts == {1, 2}

\* Threads differ in nothing but what they call.
ThreadSymmetry == Permutations(Threads)

\* Two keys that share the only shard of a one-shard map and not of a two-shard map.
SplitHash == (k1 :> 1) @@ (k2 :> 0)

KeyCall(op, k, exp, new) == [op |-> op, key |-> k, exp |-> exp, new |-> new]

Gets(K) == {KeyCall("get", k, Nil, Nil) : k \in K}
Puts(K, V) == {KeyCall("insert", k, Nil, v) : k \in K, v \in V}
Dels(K) == {KeyCall("remove", k, Nil, Nil) : k \in K}

\* Lookups, plain writes and the read-modify-write methods on one key; a write of
\* the other keeps shards from being empty.
KeyMix ==
  Gets({k1}) \cup Puts({k1, k2}, {v1}) \cup Dels({k1})
    \cup {KeyCall("get_or_insert", k1, Nil, v2),
          KeyCall("compute", k1, Nil, v2), KeyCall("compute", k1, Nil, Nil),
          KeyCall("cas", k1, v1, v2), KeyCall("compare_and_remove", k1, v1, Nil)}

Snapshot == [op |-> "snapshot"]
View == [op |-> "view"]
Clear == [op |-> "clear"]
Retain(K) == [op |-> "retain", keep |-> K]
Txn(steps) == [op |-> "txn", steps |-> steps]
Step(op, k, v) == [op |-> op, key |-> k, new |-> v]

\* Transactions over both keys, against readers of one and of all.
TxnMix ==
  {Snapshot, View, KeyCall("get", k1, Nil, Nil),
   Txn(<<Step("write", k1, v1), Step("write", k2, v1)>>),
   Txn(<<Step("remove", k2, Nil), Step("read", k1, Nil), Step("write", k2, v1)>>)}

\* Sweeps against writers and snapshots.
SweepMix ==
  {Snapshot, Clear, Retain({k1})} \cup Puts({k1, k2}, {v1}) \cup Dels({k1})

=============================================================================
