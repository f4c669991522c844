----------------------------- MODULE MCEviction -----------------------------
(*****************************************************************************)
(* A small instance of Eviction: a limit on entries, on the entries of a     *)
(* shard, and on weight, with every policy.                                  *)
(*****************************************************************************)
EXTENDS Eviction, TLC

CONSTANTS t1, t2, k1, k2

Config(n, s, b, p) ==
  [max_entries |-> n, max_items_per_shard |-> s, memory_budget |-> b, policy |-> p]

MCConfigs ==
  {Config(1, Nil, Nil, "Lru"), Config(Nil, 1, Nil, "Fifo"), Config(Nil, Nil, 2, "Lfu")}

MCLayouts == {[k \in Keys |-> 1], [k \in Keys |-> IF k = k1 THEN 1 ELSE 2]}

MCOperations ==
  [op : {"insert"}, key : Keys] \cup [op : {"remove", "read"}, key : {k1}]
    \cup [op : {"evict_lru"}, target : {0}]
    \cup [op : {"retain", "clear"}]

ThreadSymmetry == Permutations(Threads)
=============================================================================
