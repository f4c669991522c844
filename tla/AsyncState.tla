----------------------------- MODULE AsyncState -----------------------------
(*****************************************************************************)
(* The state of an AsyncShardedHashMap (core/async_impl.rs) and of the tasks *)
(* inside it.  A task runs from one await to the next in a step; while it    *)
(* waits for a lock its future may be dropped, and what it holds with it.    *)
(*                                                                           *)
(* Tokio's locks are fair: whoever cannot have one at once queues, and a     *)
(* queued writer keeps later readers out.  Under exclusive routing a task is *)
(* alone (RoutingExcludes of AsyncMap), so the locks it takes then are left  *)
(* out and only its awaits are kept.                                         *)
(*****************************************************************************)
EXTENDS AsyncCalls

CONSTANTS
  Hash,        \* hasher.hash_one
  MaxCount,    \* the largest shard count in use
  NoShard,     \* an uninitialized slot
  NoTask,
  Scenarios,   \* maps with no call under way, their configurations and the mix of calls
  Mixes,       \* the calls made, by name of the mix
  MaxDrops     \* bound: calls dropped in all

Shard == [Keys -> OptVal]
EmptyShard == [k \in Keys |-> Nil]
Idx == 0..(MaxCount - 1)

ASSUME StateAssumption ==
  /\ IsFiniteSet(Keys) /\ Keys # {} /\ IsFiniteSet(Threads)
  /\ Hash \in [Keys -> Nat] /\ MaxCount \in Nat \ {0}
  /\ NoShard \notin Shard /\ NoTask \notin Threads

VARIABLES
  config,                        \* snapshot_mode, limits; the mix of calls, bound: how many
  shards, previous_shards, shard_count, previous_shard_count,
  migrating, moved_shards,       \* RebalanceTracker
  total_len, write_epoch,
  snapshot_cache,                \* {} or the singleton of the cached [epoch, items]
  meta,                          \* the keys the eviction engine knows of
  dirty,                         \* LifecycleState: dirty_epoch # repaired_epoch
  work,                          \* LifecycleState: work_epoch # maintained_epoch
  current,                       \* the tasks whose observed generation is still work_epoch
  readers, writer,               \* of each lock
  waiting,                       \* the tasks in the queue of the lock they wait for
  ahead,                         \* who joined its queue before each of them and is still in it
  pc, call, frame,               \* each task: the await it is at, its call, its locals
  calls, drops

layout ==
  <<shards, previous_shards, shard_count, previous_shard_count, migrating, moved_shards>>
counters == <<total_len, write_epoch>>
engine == <<meta, dirty, work, current>>
locks  == <<readers, writer, waiting, ahead>>
bounds == <<calls, drops>>
vars == <<config, layout, counters, snapshot_cache, engine, locks, pc, call, frame, bounds>>

EmptyFrame ==
  [left |-> {}, got |-> NoReply,   \* as in AsyncMapSpec
   part |-> {},                    \* the keys in hand
   plan |-> {},                    \* the locks still to be taken, or shards to be visited
   picked |-> {},                  \* the overfull shards a pass has found
   cut |-> 0,                      \* the epoch of a snapshot
   moved |-> 0, completed |-> 0]   \* the report of advance_rebalance_inner

(*****************************************************************************)
(* Routing of keys to slots, and what is stored where.                       *)
(*****************************************************************************)
shard_index(k) == Hash[k] % shard_count
previous_index(k) == Hash[k] % previous_shard_count

Lookup(slot, k) == IF slot = NoShard THEN Nil ELSE slot[k]
Keyset(slot) == {k \in Keys : Lookup(slot, k) # Nil}

previous_shard(k) ==
  IF previous_shard_count = 0 THEN NoShard ELSE previous_shards[previous_index(k)]

InActive(k) == Lookup(shards[shard_index(k)], k)

Contents ==
  [k \in Keys |-> IF InActive(k) # Nil THEN InActive(k) ELSE Lookup(previous_shard(k), k)]

Stored == {k \in Keys : Contents[k] # Nil}

Initialized(slots) == {i \in Idx : slots[i] # NoShard}

(*****************************************************************************)
(* Locks.  previous_shards has one too, which nobody can ever wait for:      *)
(* those who write it hold routing exclusively.                              *)
(*****************************************************************************)
Gate        == <<"snapshot_build_lock", 0>>
Rebalance   == <<"rebalance_lock", 0>>
Routing     == <<"routing_lock", 0>>
Slots       == <<"shards", 0>>
Active(i)   == <<"active", i>>
Previous(i) == <<"previous", i>>

ShardLocks == {"active", "previous"} \X Idx
Locks == {Gate, Rebalance, Routing, Slots} \cup ShardLocks

\* The active shards in A and the previous ones in P.
Both(A, P) == {Active(i) : i \in A} \cup {Previous(i) : i \in P}

\* The order in which everybody locks shards: the active ones first, each ascending.
LockOrder(l) == l[2] + (IF l[1] = "previous" THEN MaxCount ELSE 0)

ReadOnly(t) == call[t].op \in {"get", "batch_get", "snapshot", "view"}

\* Mutant of NextShard: snapshots freeze the shards in the opposite order.
NextShardBackwards(t) ==
  CHOOSE l \in frame[t].plan : \A m \in frame[t].plan :
    IF ReadOnly(t) THEN LockOrder(l) >= LockOrder(m) ELSE LockOrder(l) <= LockOrder(m)

\* The first shard of the plan of t.
NextShard(t) ==
  CHOOSE l \in frame[t].plan : \A m \in frame[t].plan : LockOrder(l) <= LockOrder(m)

KeyMode(t) == IF ReadOnly(t) THEN "read" ELSE "write"

KeyInHand(t) == CHOOSE k \in frame[t].part : TRUE

\* The lock each task waits for where it is, and how it wants it.
Wanted(t) ==
  CASE pc[t] \in {"route", "pin", "share"} -> <<Routing, "read">>
    [] pc[t] \in {"exclusive", "pass"} -> <<Routing, "write">>
    [] pc[t] \in {"slots", "pin_slots", "pass_slots"} -> <<Slots, "read">>
    [] pc[t] = "init"      -> <<Slots, "write">>
    [] pc[t] = "active"    -> <<Active(shard_index(KeyInHand(t))), KeyMode(t)>>
    [] pc[t] = "previous"  -> <<Previous(previous_index(KeyInHand(t))), KeyMode(t)>>
    [] pc[t] = "guards"    -> <<NextShard(t), KeyMode(t)>>
    [] pc[t] = "scan"      -> <<NextShard(t), "read">>
    [] pc[t] = "pass_lock" -> <<NextShard(t), "write">>
    [] pc[t] = "gate"      -> <<Gate, "write">>
    [] pc[t] = "rebalance" -> <<Rebalance, "write">>
    [] OTHER               -> <<>>

\* A task that is not in the queue would come last.
Ahead(t) ==
  IF t \in waiting THEN ahead[t] ELSE {u \in waiting : Wanted(u)[1] = Wanted(t)[1]}

\* Who keeps t from the lock it wants.
Obstacles(t) ==
  LET l == Wanted(t)[1]
      writers == {u \in Ahead(t) : Wanted(u)[2] = "write"} IN
  (IF writer[l] = NoTask THEN {} ELSE {writer[l]})
    \cup (IF Wanted(t)[2] = "write" THEN readers[l] \cup Ahead(t) ELSE writers)

\* The guards in L are dropped.
Release(t, L) ==
  /\ readers' = [l \in Locks |-> IF l \in L THEN readers[l] \ {t} ELSE readers[l]]
  /\ writer' = [l \in Locks |-> IF l \in L /\ writer[l] = t THEN NoTask ELSE writer[l]]
  /\ UNCHANGED <<waiting, ahead>>

\* t leaves its queue, if it is in one.
LeaveQueue(t) ==
  /\ waiting' = waiting \ {t}
  /\ ahead' = [u \in Threads |-> IF u = t THEN {} ELSE ahead[u] \ {t}]

\* t has the lock it wants; before its next await it drops the guards in L.
Acquire(t, L) ==
  LET l == Wanted(t)[1]
      mode == Wanted(t)[2] IN
  /\ Obstacles(t) = {}
  /\ readers' = [x \in Locks |->
       (IF x = l /\ mode = "read" THEN readers[x] \cup {t} ELSE readers[x])
         \ (IF x \in L THEN {t} ELSE {})]
  /\ writer' = [x \in Locks |->
       IF x \in L THEN (IF writer[x] = t THEN NoTask ELSE writer[x])
       ELSE IF x = l /\ mode = "write" THEN t ELSE writer[x]]
  /\ LeaveQueue(t)

Enqueue(t) ==
  /\ Wanted(t) # <<>> /\ t \notin waiting /\ Obstacles(t) # {}
  /\ waiting' = waiting \cup {t}
  /\ ahead' = [ahead EXCEPT ![t] = Ahead(t)]
  /\ UNCHANGED <<config, layout, counters, snapshot_cache, engine, readers, writer, pc, call,
                 frame, bounds>>

(*****************************************************************************)
(* The eviction engine, as far as maintenance needs it: which keys it has    *)
(* metadata for, and the epochs, of which only equality matters.  Ranks are  *)
(* the subject of Eviction.                                                  *)
(*****************************************************************************)
enabled == config.max_entries # Nil \/ config.max_items_per_shard # Nil

mark_pending ==
  IF enabled THEN work' = TRUE /\ current' = {} ELSE UNCHANGED <<work, current>>

\* A ticket of a dropped call marks its metadata suspect.
MutationTicketDrop(unfinished) == dirty' = (dirty \/ (enabled /\ unfinished))

mark_maintained(t) ==
  /\ work' = (work /\ t \notin current)
  /\ current' = current \ {t}

\* record_remove of the keys in gone, record_insert of those in stored.
Recorded(gone, stored) == meta' = IF enabled THEN (meta \ gone) \cup stored ELSE meta

(*****************************************************************************)
(* Changes of the data.                                                      *)
(*****************************************************************************)
\* The keys in K, out of the previous generation (promote_entry, move_one), hold what new says.
Put(K, new) ==
  /\ shards' = [i \in Idx |->
       LET here == {k \in K : shard_index(k) = i} IN
       IF here = {} THEN shards[i]
       ELSE [k \in Keys |-> IF k \in here THEN new[k] ELSE Lookup(shards[i], k)]]
  /\ previous_shards' = [i \in Idx |->
       IF previous_shards[i] = NoShard THEN NoShard
       ELSE [k \in Keys |-> IF k \in K THEN Nil ELSE previous_shards[i][k]]]

Without(slot, K) ==
  IF slot = NoShard THEN NoShard ELSE [k \in Keys |-> IF k \in K THEN Nil ELSE slot[k]]

Home(l) == IF l[1] = "active" THEN shards[l[2]] ELSE previous_shards[l[2]]

\* A ShardMutation that found the keys in before stored and leaves those in after.
ShardMutationDrop(before, after, inserted) ==
  LET grown == Cardinality(after) - Cardinality(before) IN
  /\ total_len' = total_len + grown
  /\ write_epoch' = write_epoch + (IF inserted \/ grown # 0 THEN 1 ELSE 0)

Goto(t, l) == pc' = [pc EXCEPT ![t] = l]

Goes(t, l, f) == Goto(t, l) /\ frame' = [frame EXCEPT ![t] = f]

\* The calls that take a ticket before anything else and enforce the limits at the end.
Mutating(c) == c.op \notin {"get", "batch_get", "snapshot", "view"} /\ c \notin LayoutCalls
                 /\ c \notin EvictCalls

FirstAwait(c) ==
  CASE c.op \in KeyOps \cup BatchOps \cup {"txn"} -> "route"
    [] c.op = "snapshot" -> IF config.mode = "Clone" THEN "gate" ELSE "cached"
    [] c.op = "view" -> "gate"
    [] c.op \in {"clear", "drain", "retain"} -> "exclusive"
    [] c.op \in {"start_rebalance_online", "advance_rebalance", "rebalance_to"} -> "rebalance"
    [] c.op \in {"enforce", "evict"} -> "maintain"

Invoke(t, c) ==
  /\ pc[t] = "idle" /\ calls < config.calls
  /\ calls' = calls + 1
  /\ call' = [call EXCEPT ![t] = c]
  /\ Goes(t, FirstAwait(c),
          [EmptyFrame EXCEPT !.left = Concerned(c), !.got = NoAnswer(c)])
  /\ IF Mutating(c) THEN mark_pending ELSE UNCHANGED <<work, current>>
  /\ UNCHANGED <<config, layout, counters, snapshot_cache, meta, dirty, locks, drops>>

\* Everything is done and every guard dropped; the call's ticket is finished.
Return(t) ==
  /\ pc[t] = "return"
  /\ Goes(t, "idle", EmptyFrame)
  /\ call' = [call EXCEPT ![t] = NoCall]
  /\ UNCHANGED <<config, layout, counters, snapshot_cache, engine, locks, bounds>>

\* Where a task may suspend for want of budget, or for a lock that is left out.
Suspended(t) ==
  LET source == previous_shards[moved_shards] IN
  \/ pc[t] \in {"cached", "sweep", "swap", "rebuild", "repair", "evict"}
  \/ pc[t] = "visit" /\ frame[t].plan # {}
  \/ pc[t] = "batch" /\ (frame[t].completed = 0 \/ source # NoShard)
  \/ pc[t] \in {"move", "drained"} /\ source # NoShard

\* The steps of maintenance that run under its own ticket.
InPass == {"pass_slots", "scan", "pass_lock", "repair", "evict"}

\* The future is dropped at an await: its guards, its place in a queue and its tickets go.
Drop(t) ==
  /\ Wanted(t) # <<>> \/ Suspended(t)
  /\ drops < MaxDrops /\ drops' = drops + 1
  /\ MutationTicketDrop(Mutating(call[t]) \/ pc[t] \in InPass)
  /\ current' = current \ {t}
  /\ readers' = [l \in Locks |-> readers[l] \ {t}]
  /\ writer' = [l \in Locks |-> IF writer[l] = t THEN NoTask ELSE writer[l]]
  /\ LeaveQueue(t)
  /\ Goes(t, "idle", EmptyFrame)
  /\ call' = [call EXCEPT ![t] = NoCall]
  /\ UNCHANGED <<config, layout, counters, snapshot_cache, meta, work, calls>>

Init ==
  \E s \in Scenarios :
    /\ config = s.config
    /\ shards = s.shards /\ previous_shards = s.previous_shards
    /\ shard_count = s.shard_count /\ previous_shard_count = s.previous_shard_count
    /\ migrating = (s.previous_shard_count # 0) /\ moved_shards = s.moved_shards
    /\ total_len = Cardinality(Stored) /\ write_epoch = 0
    /\ snapshot_cache = {}
    /\ meta = IF enabled THEN Stored ELSE {}
    /\ dirty = FALSE /\ work = FALSE /\ current = {}
    /\ readers = [l \in Locks |-> {}] /\ writer = [l \in Locks |-> NoTask]
    /\ waiting = {} /\ ahead = [t \in Threads |-> {}]
    /\ pc = [t \in Threads |-> "idle"]
    /\ call = [t \in Threads |-> NoCall]
    /\ frame = [t \in Threads |-> EmptyFrame]
    /\ calls = 0 /\ drops = 0
=============================================================================
