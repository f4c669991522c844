----------------------------- MODULE AsyncCalls -----------------------------
(*****************************************************************************)
(* The calls of AsyncShardedHashMap and what each promises.  On top of the   *)
(* calls of MapCalls: batches, drain, changes of the shard count and         *)
(* eviction.  A "thread" of MapCalls is a Tokio task here.                   *)
(*****************************************************************************)
EXTENDS MapCalls, FiniteSets

CONSTANT OtherCalls   \* the calls made that MapCalls does not have

BatchOps == {"batch_insert", "batch_remove", "batch_get"}

BatchCalls == [op : BatchOps, keys : (SUBSET Keys) \ {{}}, new : OptVal]

LayoutCalls == [op : {"start_rebalance_online", "rebalance_to"}, target : Nat]
                 \cup [op : {"advance_rebalance"}, max_shards : Nat, max_entries : Nat,
                      timed : BOOLEAN]   \* max_pause_ns # 0

EvictCalls == [op : {"enforce"}] \cup [op : {"evict"}, target : Nat]

\* A batch or a transaction of no keys changes no entry and is left out.
ASSUME OtherCallsAssumption ==
  /\ \A c \in Calls : c.op = "txn" => c.steps # <<>>
  /\ OtherCalls \subseteq BatchCalls \cup LayoutCalls \cup EvictCalls \cup [op : {"drain"}]
  /\ \A c \in OtherCalls : c.op = "batch_insert" => c.new # Nil

CallsMade == Calls \cup OtherCalls

\* The keys a call is about.
Concerned(c) ==
  CASE c.op \in KeyOps   -> {c.key}
    [] c.op \in BatchOps -> c.keys
    [] c.op = "txn"      -> {c.steps[i].key : i \in DOMAIN c.steps}
    [] c.op \in {"snapshot", "view", "clear", "drain", "retain"} -> Keys
    [] OTHER             -> {}

\* A batch may be observed half done; everything else is done at once or not at all.
Whole(c) == c.op \notin BatchOps \cup {"retain"}

\* What a call leaves under k in the map m.
Leaves(c, m, k) ==
  CASE c.op \in KeyOps          -> After(c, m[k])
    [] c.op = "txn"             -> AfterSteps(c.steps, Len(c.steps), m)[k]
    [] c.op = "batch_insert"    -> c.new
    [] c.op = "batch_remove"    -> Nil
    [] c.op \in {"clear", "drain"} -> Nil
    [] c.op = "retain"          -> IF k \in c.keep THEN m[k] ELSE Nil
    [] OTHER                    -> m[k]

CountReply(n) == [tag |-> "count", count |-> n]
ItemsReply(S) == [tag |-> "items", items |-> S]

NoAnswer(c) ==
  CASE c.op \in {"batch_insert", "batch_remove"} -> CountReply(0)
    [] c.op = "batch_get" -> ItemsReply({})
    [] c.op = "retain" -> DoneReply
    [] OTHER -> NoReply

\* The answer of a call that has so far answered a, and now sees m under the keys of part.
Answered(c, a, m, part) ==
  LET found == {k \in part : m[k] # Nil} IN
  CASE c.op \in KeyOps       -> Answer(c, m[c.key])
    [] c.op = "batch_insert" -> CountReply(a.count + Cardinality(part \ found))
    [] c.op = "batch_remove" -> CountReply(a.count + Cardinality(found))
    [] c.op = "batch_get"    -> ItemsReply(a.items \cup {<<k, m[k]>> : k \in found})
    [] c.op \in {"snapshot", "view", "drain"} -> ItemsReply(Pairs(m))
    [] OTHER                 -> DoneReply
=============================================================================
