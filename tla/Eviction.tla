------------------------------ MODULE Eviction ------------------------------
(*****************************************************************************)
(* Capacity eviction of the synchronous map: the policy metadata of          *)
(* eviction/engine.rs, kept up to date by hooks in the map's mutations, and  *)
(* the maintenance of sync_impl/eviction_impl.rs that every mutation runs    *)
(* when it is done.                                                          *)
(*                                                                           *)
(* A mutation holds routing shared and the guard of its key's shard.         *)
(* Maintenance trims shards under the same locks or works alone under        *)
(* exclusive routing.  Who holds what follows from the program counters.     *)
(* A value is its weight.  Stripes hold the metadata of disjoint keys and    *)
(* are locked for single accesses, so metadata is a function of the key;     *)
(* key copies to be freed, callbacks and metrics are left out.               *)
(*****************************************************************************)
EXTENDS Integers, FiniteSets, FiniteSetsExt

CONSTANTS Threads, Keys,
          Weights,      \* what the weigher may return
          Nil,          \* no metadata, no limit, no call
          Configs,      \* EvictionOptions: max_entries, max_items_per_shard,
                        \* memory_budget, policy
          ShardCount,   \* the largest shard count in use
          Layouts,      \* shard_index of every key, for each shard count in use
          Operations,   \* the calls made, with their arguments
          MaxCalls,     \* bound: calls made in all
          MaxTroubles   \* bound: panics of user code and changes of the shard count in all

Absent == -1
Shards == 1..ShardCount

Entry == [incarnation : Nat, inserted : Nat, accessed : Nat, frequency : Nat, weight : Nat]
Span == [from : Nat, to : Nat]

ASSUME EvictionAssumption ==
  /\ IsFiniteSet(Keys) /\ Weights \subseteq Nat
  /\ Nil \notin Nat \cup Entry \cup Span \cup Operations
  /\ Configs \subseteq [max_entries : Nat \cup {Nil}, max_items_per_shard : Nat \cup {Nil},
                        memory_budget : Nat \cup {Nil}, policy : {"Lru", "Lfu", "Fifo"}]
  /\ \A c \in Configs : c.max_entries = Nil \/ c.max_items_per_shard = Nil
  /\ ShardCount \in Nat \ {0}
  /\ Layouts # {} /\ Layouts \subseteq [Keys -> Shards]
  /\ Operations \subseteq
       [op : {"insert", "remove", "read"}, key : Keys]
         \cup [op : {"evict", "evict_lru"}, target : Nat]
         \cup [op : {"enforce", "retain", "clear"}]
  /\ MaxCalls \in Nat /\ MaxTroubles \in Nat

VARIABLES
  config, layout,
  stable,             \* previous_shard_count = 0
  data,               \* the weight stored under each key, or Absent
  total_len,
  meta,               \* Entry of each key, or Nil
  sequence, epoch,    \* LifecycleState
  dirty_epoch, repaired_epoch, work_epoch, maintained_epoch,
  pc, frame,          \* each thread: its step, its call and its locals
  since,              \* history: between which stamps each key earned its rank, if known
  calls, troubles     \* how much of each bound is used

topology == <<layout, stable>>
map    == <<data, total_len>>
ranks  == <<meta, sequence, epoch>>
epochs == <<dirty_epoch, repaired_epoch, work_epoch, maintained_epoch>>
bounds == <<calls, troubles>>
vars == <<config, topology, map, ranks, epochs, pc, frame, since, bounds>>

\* Nothing called; the locals of a mutation, a sweep, a pass.
EmptyFrame ==
  [call |-> Nil, from |-> 0, weight |-> 0, replaced |-> FALSE,
   observed |-> 0, observed_dirty |-> 0, candidates |-> {}, slots |-> {},
   retry_exclusive |-> FALSE]

\* The call of a pass that ends a mutation.
Commit == [op |-> "commit"]

Init ==
  /\ config \in Configs /\ layout \in Layouts /\ stable = TRUE
  /\ data = [k \in Keys |-> Absent] /\ total_len = 0
  /\ meta = [k \in Keys |-> Nil] /\ sequence = 1 /\ epoch = 1
  /\ dirty_epoch = 0 /\ repaired_epoch = 0
  /\ work_epoch = 0 /\ maintained_epoch = 0
  /\ pc = [t \in Threads |-> "idle"]
  /\ frame = [t \in Threads |-> EmptyFrame]
  /\ since = [k \in Keys |-> Nil]
  /\ calls = 0 /\ troubles = 0

Goto(t, l) == pc' = [pc EXCEPT ![t] = l]
Return(t) == Goto(t, "idle") /\ frame' = [frame EXCEPT ![t] = EmptyFrame]

Trouble == troubles < MaxTroubles /\ troubles' = troubles + 1

\* The locks are released; enforce_eviction_limits is next.
Committed(t) ==
  Goto(t, "enforce") /\ frame' = [frame EXCEPT ![t] = [EmptyFrame EXCEPT !.call = Commit]]

\* A panic reaches OperationUnwind.
Unwinding(t) == Goto(t, "unwind") /\ frame' = [frame EXCEPT ![t] = EmptyFrame]

call(t) == frame[t].call
shard(t) == Min(frame[t].slots)   \* the next shard of a sweep or a pass
Stored == {k \in Keys : data[k] # Absent}
InShard(i) == {k \in Stored : layout[k] = i}
Over(n, limit) == limit # Nil /\ n > limit

Mutating  == {"ticket", "stored"}
Trimming  == {"generation", "scan", "lock", "trim"}
Exclusive == {"sweep", "repair", "publish", "plan", "evict"}

\* routing_lock, and the guard of a shard.
CanShare(t) == \A u \in Threads \ {t} : pc[u] \notin Exclusive
CanExclude(t) == \A u \in Threads \ {t} : pc[u] \notin Mutating \cup Trimming \cup Exclusive
CanLock(t, i) ==
  \A u \in Threads \ {t} :
    /\ pc[u] \in Mutating => layout[call(u).key] # i
    /\ pc[u] = "trim" => shard(u) # i
-----------------------------------------------------------------------------
(*****************************************************************************)
(* The engine.                                                               *)
(*****************************************************************************)
dirty   == dirty_epoch # repaired_epoch
pending == dirty \/ work_epoch # maintained_epoch

mark_pending == work_epoch' = work_epoch + 1
mark_maintained(n) ==
  maintained_epoch' = IF n > maintained_epoch THEN n ELSE maintained_epoch

\* Mutant of TicketDropped: a panic under the ticket goes unnoticed.
TicketForgotten == dirty_epoch' = dirty_epoch

\* The end of a ticket that was not finished.
TicketDropped == dirty_epoch' = dirty_epoch + 1

policy_rank(policy, e) ==
  CASE policy = "Lru"  -> <<e.accessed, e.inserted, e.incarnation>>
    [] policy = "Lfu"  -> <<e.frequency, e.accessed, e.inserted>>
    [] policy = "Fifo" -> <<e.inserted, 0, e.incarnation>>

Below(a, b) ==
  \/ a[1] < b[1]
  \/ a[1] = b[1] /\ a[2] < b[2]
  \/ a[1] = b[1] /\ a[2] = b[2] /\ a[3] < b[3]

\* Mutant of record_insert: a replacement counts as a new entry.
record_insertAnew(k, w, replaced) ==
  /\ sequence' = sequence + 1
  /\ meta' = [meta EXCEPT ![k] =
       [incarnation |-> sequence, inserted |-> sequence, accessed |-> sequence,
        frequency |-> 1, weight |-> w]]

\* A key that is not replaced is new, even where an interrupted removal left a ghost.
record_insert(k, w, replaced) ==
  /\ sequence' = sequence + 1
  /\ meta' = [meta EXCEPT ![k] =
       IF @ = Nil \/ ~replaced
       THEN [incarnation |-> sequence, inserted |-> sequence, accessed |-> sequence,
             frequency |-> 1, weight |-> w]
       ELSE [incarnation |-> sequence, inserted |-> @.inserted, accessed |-> sequence,
             frequency |-> @.frequency + 1, weight |-> w]]

record_remove(k) == meta' = [meta EXCEPT ![k] = Nil] /\ sequence' = sequence

record_read(k) ==
  IF meta[k] = Nil THEN UNCHANGED <<meta, sequence>>
  ELSE /\ sequence' = sequence + 1
       /\ meta' = [meta EXCEPT ![k].accessed = sequence, ![k].frequency = @ + 1]

Total(w) == MapThenSumSet(LAMBDA k : w[k], Keys)
exact_weight == Total([k \in Keys |-> IF meta[k] = Nil THEN 0 ELSE meta[k].weight])
over_memory_budget == Over(exact_weight, config.memory_budget)

\* candidates and candidates_for_keys, before they are sorted.
candidates(K) ==
  IF dirty THEN {}
  ELSE {[key |-> k, epoch |-> epoch, entry |-> meta[k]] : k \in {j \in K : meta[j] # Nil}}

\* The next of the sorted candidates, and minimum_candidate.
First(policy, C) ==
  CHOOSE c \in C : \A d \in C \ {c} :
    Below(policy_rank(policy, c.entry), policy_rank(policy, d.entry))

validate(c) ==
  /\ ~dirty /\ c.epoch = epoch
  /\ meta[c.key] # Nil
  /\ meta[c.key].incarnation = c.entry.incarnation
  /\ meta[c.key].weight = c.entry.weight
  /\ meta[c.key].accessed = c.entry.accessed
  /\ meta[c.key].frequency = c.entry.frequency

\* An entry leaves the map, its length and, by record_eviction, the metadata.
EvictKey(k) ==
  /\ data' = [data EXCEPT ![k] = Absent]
  /\ total_len' = total_len - 1
  /\ meta' = [meta EXCEPT ![k] = Nil]
  /\ since' = [since EXCEPT ![k] = Nil]
-----------------------------------------------------------------------------
(*****************************************************************************)
(* Tracked reads and mutations.                                              *)
(*****************************************************************************)
Mutation(c) == c.op \in {"insert", "remove"}
Sweep(c) == c.op \in {"retain", "clear"}

weight(c) == IF c.op = "insert" /\ config.memory_budget # Nil THEN Weights ELSE {0}

Invoke(t) ==
  /\ pc[t] = "idle" /\ calls < MaxCalls
  /\ \E c \in Operations : \E w \in weight(c) :
       /\ c.op # "read"
       /\ frame' = [frame EXCEPT ![t].call = c, ![t].weight = w]
       /\ Goto(t, IF Mutation(c) \/ Sweep(c) THEN "mutate" ELSE "enforce")
  /\ calls' = calls + 1
  /\ UNCHANGED <<config, topology, map, ranks, epochs, since, troubles>>

\* A hit: the hook runs under the shard's read guard.
Read(t, k) ==
  /\ pc[t] = "idle" /\ calls < MaxCalls
  /\ [op |-> "read", key |-> k] \in Operations
  /\ CanShare(t) /\ CanLock(t, layout[k])
  /\ data[k] # Absent
  /\ record_read(k)
  /\ since' = [since EXCEPT ![k] =
       IF config.policy = "Fifo" THEN @
       ELSE IF meta[k] = Nil THEN Nil ELSE [from |-> sequence, to |-> sequence + 1]]
  /\ calls' = calls + 1
  /\ UNCHANGED <<config, topology, map, epoch, epochs, pc, frame, troubles>>

\* The guards are taken, and a MutationTicket.  A removal may return before it has one.
Begin(t) ==
  /\ pc[t] = "mutate" /\ Mutation(call(t))
  /\ CanShare(t) /\ CanLock(t, layout[call(t).key])
  /\ \/ /\ Goto(t, "ticket") /\ mark_pending
        /\ frame' = [frame EXCEPT ![t].from = sequence]
     \/ /\ call(t).op = "remove" /\ data[call(t).key] = Absent
        /\ Committed(t) /\ work_epoch' = work_epoch
  /\ UNCHANGED <<config, topology, map, ranks, dirty_epoch, repaired_epoch, maintained_epoch,
                 since, bounds>>

Store(t) ==
  LET k == call(t).key IN
  /\ pc[t] = "ticket"
  /\ Goto(t, "stored")
  /\ frame' = [frame EXCEPT ![t].replaced = data[k] # Absent]
  /\ data' = [data EXCEPT ![k] = IF call(t).op = "insert" THEN frame[t].weight ELSE Absent]
  /\ UNCHANGED <<config, topology, total_len, ranks, epochs, since, bounds>>

\* Mutant of Published: what was replaced is counted twice.
PublishedTwice(t) ==
  total_len' = total_len + (IF data[call(t).key] # Absent THEN 1 ELSE 0)

\* ShardMutation::drop.
Published(t) ==
  total_len' = total_len + (IF data[call(t).key] # Absent THEN 1 ELSE 0)
                         - (IF frame[t].replaced THEN 1 ELSE 0)

\* The hook, the end of the ticket, and the guards dropped.
Record(t) ==
  LET k == call(t).key
      replaced == frame[t].replaced IN
  /\ pc[t] = "stored"
  /\ IF call(t).op = "insert"
     THEN /\ record_insert(k, frame[t].weight, replaced)
          /\ since' = [since EXCEPT ![k] =
               IF config.policy = "Fifo" /\ replaced THEN @
               ELSE [from |-> frame[t].from, to |-> sequence + 1]]
     ELSE /\ IF replaced THEN record_remove(k) ELSE UNCHANGED <<meta, sequence>>
          /\ since' = [since EXCEPT ![k] = Nil]
  /\ Published(t) /\ Committed(t)
  /\ UNCHANGED <<config, topology, data, epoch, epochs, bounds>>

\* User code panics under the guards, with the ticket unfinished, or after them: in a
\* destructor, or in a later element of a batch.
Unwind(t) ==
  /\ Trouble
  /\ \/ /\ pc[t] \in Mutating
        /\ TicketDropped
        /\ IF pc[t] = "stored"
           THEN Published(t) /\ since' = [since EXCEPT ![call(t).key] = Nil]
           ELSE UNCHANGED <<total_len, since>>
     \/ /\ pc[t] = "enforce" /\ call(t) = Commit
        /\ UNCHANGED <<dirty_epoch, total_len, since>>
  /\ Unwinding(t)
  /\ UNCHANGED <<config, topology, data, ranks, repaired_epoch, work_epoch, maintained_epoch,
                 calls>>

\* OperationUnwind::drop, after every lock is released.
mark_dirty(t) ==
  /\ pc[t] = "unwind"
  /\ dirty_epoch' = dirty_epoch + 1 /\ mark_pending
  /\ Return(t)
  /\ UNCHANGED <<config, topology, map, ranks, repaired_epoch, maintained_epoch, since, bounds>>
-----------------------------------------------------------------------------
(*****************************************************************************)
(* retain, clear and drain: one shard after the other under exclusive        *)
(* routing, with a ticket for each.                                          *)
(*****************************************************************************)
BeginSweep(t) ==
  /\ pc[t] = "mutate" /\ Sweep(call(t)) /\ CanExclude(t)
  /\ Goto(t, "sweep")
  /\ frame' = [frame EXCEPT ![t].slots = Shards]
  /\ UNCHANGED <<config, topology, map, ranks, epochs, since, bounds>>

\* R is removed, and its metadata, except where user code panics before.
Swept(R, ghosts) ==
  /\ mark_pending
  /\ data' = [k \in Keys |-> IF k \in R THEN Absent ELSE data[k]]
  /\ total_len' = total_len - Cardinality(R)
  /\ meta' = [k \in Keys |-> IF k \in R \ ghosts THEN Nil ELSE meta[k]]
  /\ since' = [k \in Keys |-> IF k \in R THEN Nil ELSE since[k]]

SweepShard(t) ==
  LET entries == InShard(shard(t)) IN
  /\ pc[t] = "sweep" /\ frame[t].slots # {}
  /\ \E R \in IF call(t).op = "retain" THEN SUBSET entries ELSE {entries} : Swept(R, {})
  /\ frame' = [frame EXCEPT ![t].slots = @ \ {shard(t)}]
  /\ UNCHANGED <<config, topology, sequence, epoch, dirty_epoch, repaired_epoch,
                 maintained_epoch, pc, bounds>>

\* retain may have come to any of the entries, clear detaches all of them or none.
SweepUnwinds(t) ==
  LET entries == InShard(shard(t)) IN
  /\ pc[t] = "sweep" /\ frame[t].slots # {}
  /\ Trouble
  /\ \E R \in SUBSET entries : \E ghosts \in SUBSET R :
       /\ IF call(t).op = "retain" THEN Cardinality(ghosts) <= 1 ELSE R \in {{}, entries}
       /\ Swept(R, ghosts)
  /\ TicketDropped
  /\ Unwinding(t)
  /\ UNCHANGED <<config, topology, sequence, epoch, repaired_epoch, maintained_epoch, calls>>

\* clear also ends a migration.
EndSweep(t) ==
  /\ pc[t] = "sweep" /\ frame[t].slots = {}
  /\ stable' = (stable \/ call(t).op = "clear")
  /\ Committed(t)
  /\ UNCHANGED <<config, layout, map, ranks, epochs, since, bounds>>
-----------------------------------------------------------------------------
(*****************************************************************************)
(* run_eviction.                                                             *)
(*****************************************************************************)
policy(t) == IF call(t).op = "evict_lru" THEN "Lru" ELSE config.policy

target_count(t) ==
  IF call(t).op \notin {"evict", "evict_lru"} THEN config.max_entries
  ELSE IF config.max_entries = Nil \/ call(t).target < config.max_entries THEN call(t).target
  ELSE config.max_entries

Observe(t) ==
  /\ pc[t] = "enforce"
  /\ frame' = [frame EXCEPT ![t].observed = work_epoch]
  /\ Goto(t, "glance")
  /\ UNCHANGED <<config, topology, map, ranks, epochs, since, bounds>>

\* Whatever was begun before observed was read is maintained.
Finish(t) ==
  /\ mark_maintained(frame[t].observed)
  /\ Return(t)
  /\ UNCHANGED <<config, topology, map, ranks, dirty_epoch, repaired_epoch, work_epoch,
                 since, bounds>>

\* Without any lock: is there anything to do?
Needed(t) ==
  \/ dirty \/ config.max_items_per_shard # Nil
  \/ Over(total_len, target_count(t)) \/ over_memory_budget

Acknowledge(t) == pc[t] = "glance" /\ ~Needed(t) /\ Finish(t)

\* Does it take exclusive routing?
Choose(t) ==
  /\ pc[t] = "glance" /\ Needed(t)
  /\ Goto(t, IF /\ target_count(t) = Nil /\ config.memory_budget = Nil
                /\ ~dirty /\ config.max_items_per_shard # Nil
             THEN "share" ELSE "global")
  /\ frame' = [frame EXCEPT ![t].observed = 0]
  /\ UNCHANGED <<config, topology, map, ranks, epochs, since, bounds>>
-----------------------------------------------------------------------------
\* Per-shard limits, with a stable layout and clean metadata, need one shard at a time.
Share(t) ==
  /\ pc[t] = "share" /\ CanShare(t)
  /\ IF stable /\ ~dirty THEN Goto(t, "generation") /\ mark_pending
     ELSE Goto(t, "global") /\ work_epoch' = work_epoch
  /\ UNCHANGED <<config, topology, map, ranks, dirty_epoch, repaired_epoch, maintained_epoch,
                 frame, since, bounds>>

\* A shard that nobody has used yet may be a vacant slot.
InUse == {i \in Shards :
  \/ InShard(i) # {}
  \/ \E t \in Threads : pc[t] \in Mutating /\ layout[call(t).key] = i}

maintenance_generation(t) ==
  /\ pc[t] = "generation"
  /\ \E vacant \in SUBSET (Shards \ InUse) :
       frame' = [frame EXCEPT ![t].observed = work_epoch, ![t].slots = Shards \ vacant]
  /\ Goto(t, "scan")
  /\ UNCHANGED <<config, topology, map, ranks, epochs, since, bounds>>

\* The length of a shard, under its read guard.
Scan(t) ==
  LET i == shard(t) IN
  /\ pc[t] = "scan" /\ frame[t].slots # {} /\ CanLock(t, i)
  /\ IF Over(Cardinality(InShard(i)), config.max_items_per_shard)
     THEN Goto(t, "lock") /\ frame' = frame
     ELSE frame' = [frame EXCEPT ![t].slots = @ \ {i}] /\ pc' = pc
  /\ UNCHANGED <<config, topology, map, ranks, epochs, since, bounds>>

Lock(t) ==
  /\ pc[t] = "lock" /\ CanLock(t, shard(t))
  /\ frame' = [frame EXCEPT ![t].candidates = candidates(InShard(shard(t)))]
  /\ Goto(t, "trim")
  /\ UNCHANGED <<config, topology, map, ranks, epochs, since, bounds>>

TryEvict(c) ==
  IF validate(c) /\ data[c.key] # Absent THEN EvictKey(c.key) ELSE UNCHANGED <<map, meta, since>>

Trim(t) ==
  LET C == frame[t].candidates
      over == Over(Cardinality(InShard(shard(t))), config.max_items_per_shard)
      c == First(policy(t), C) IN
  /\ pc[t] = "trim"
  /\ IF over /\ C # {}
     THEN /\ frame' = [frame EXCEPT ![t].candidates = @ \ {c}]
          /\ TryEvict(c) /\ pc' = pc
     ELSE /\ frame' = [frame EXCEPT ![t].candidates = {}, ![t].slots = @ \ {shard(t)},
                                    ![t].retry_exclusive = @ \/ over]
          /\ Goto(t, "scan") /\ UNCHANGED <<map, meta, since>>
  /\ UNCHANGED <<config, topology, sequence, epoch, epochs, bounds>>

\* The last shard is done.
Trimmed(t) ==
  /\ pc[t] = "scan" /\ frame[t].slots = {}
  /\ ~frame[t].retry_exclusive /\ ~dirty
  /\ Finish(t)

RetryExclusive(t) ==
  /\ pc[t] = "scan" /\ frame[t].slots = {}
  /\ frame[t].retry_exclusive \/ dirty
  /\ Goto(t, "global")
  /\ frame' = [frame EXCEPT ![t].observed = 0, ![t].retry_exclusive = FALSE]
  /\ UNCHANGED <<config, topology, map, ranks, epochs, since, bounds>>
-----------------------------------------------------------------------------
\* Everything else: alone.
Exclude(t) ==
  /\ pc[t] = "global" /\ CanExclude(t)
  /\ mark_pending
  /\ Goto(t, "repair")
  /\ UNCHANGED <<config, topology, map, ranks, dirty_epoch, repaired_epoch, maintained_epoch,
                 frame, since, bounds>>

\* reconcile_eviction_metadata: what is stored is collected, with a ticket of its own.
Repair(t) ==
  /\ pc[t] = "repair"
  /\ IF dirty
     THEN /\ mark_pending
          /\ frame' = [frame EXCEPT ![t].observed_dirty = dirty_epoch]
          /\ Goto(t, "publish")
     ELSE Goto(t, "plan") /\ UNCHANGED <<work_epoch, frame>>
  /\ UNCHANGED <<config, topology, map, ranks, dirty_epoch, repaired_epoch, maintained_epoch,
                 since, bounds>>

\* LifecycleState::reconcile, the stamps given in any order.  What is known of a key is kept.
Publish(t) ==
  LET n == Cardinality(Stored) IN
  /\ pc[t] = "publish"
  /\ \E stamp \in [Stored -> sequence..sequence + n - 1] :
       /\ \A j, k \in Stored : stamp[j] = stamp[k] => j = k
       /\ meta' = [k \in Keys |->
            IF k \notin Stored THEN Nil
            ELSE IF meta[k] = Nil
            THEN [incarnation |-> stamp[k], inserted |-> stamp[k], accessed |-> stamp[k],
                  frequency |-> 1, weight |-> data[k]]
            ELSE [meta[k] EXCEPT !.incarnation = stamp[k], !.weight = data[k]]]
  /\ sequence' = sequence + n /\ epoch' = epoch + 1
  /\ repaired_epoch' = frame[t].observed_dirty
  /\ frame' = [frame EXCEPT ![t].observed_dirty = 0]
  /\ Goto(t, "plan")
  /\ UNCHANGED <<config, topology, map, dirty_epoch, work_epoch, maintained_epoch, since, bounds>>

\* Mutant of OnlyOne: one candidate is thought to do for any excess.
OnlyOneForAny(t) ==
  /\ config.max_items_per_shard = Nil /\ config.memory_budget = Nil
  /\ Over(total_len, target_count(t))

\* Exactly one entry has to go: minimum_candidate will do.
OnlyOne(t) ==
  /\ config.max_items_per_shard = Nil /\ config.memory_budget = Nil
  /\ target_count(t) # Nil /\ total_len = target_count(t) + 1

Plan(t) ==
  LET all == candidates(Keys)
      over == \/ Over(total_len, target_count(t)) \/ config.max_items_per_shard # Nil
              \/ over_memory_budget IN
  /\ pc[t] = "plan"
  /\ frame' = [frame EXCEPT ![t].observed = work_epoch,
                            ![t].candidates = IF ~over THEN {}
                                              ELSE IF OnlyOne(t) /\ all # {}
                                              THEN {First(policy(t), all)} ELSE all]
  /\ Goto(t, "evict")
  /\ UNCHANGED <<config, topology, map, ranks, epochs, since, bounds>>

\* Must the candidate go?  Limits of a shard count both generations by the active layout.
Excess(t, k) ==
  \/ Over(total_len, target_count(t))
  \/ Over(Cardinality(InShard(layout[k])), config.max_items_per_shard)
  \/ over_memory_budget

Evict(t) ==
  LET c == First(policy(t), frame[t].candidates) IN
  /\ pc[t] = "evict" /\ frame[t].candidates # {}
  /\ frame' = [frame EXCEPT ![t].candidates = @ \ {c}]
  /\ IF Excess(t, c.key) THEN TryEvict(c) ELSE UNCHANGED <<map, meta, since>>
  /\ UNCHANGED <<config, topology, sequence, epoch, epochs, pc, bounds>>

Done(t) == pc[t] = "evict" /\ frame[t].candidates = {} /\ Finish(t)

\* User code panics in a pass (Hash, Eq, Clone, the weigher): its tickets are unfinished.
PassUnwinds(t) ==
  /\ pc[t] \in {"lock", "trim", "publish", "plan", "evict"}
  /\ Trouble
  /\ dirty_epoch' = dirty_epoch + (IF pc[t] = "publish" THEN 2 ELSE 1)
  /\ IF call(t) = Commit THEN Unwinding(t) ELSE Return(t)
  /\ UNCHANGED <<config, topology, map, ranks, repaired_epoch, work_epoch, maintained_epoch,
                 since, calls>>
-----------------------------------------------------------------------------
\* Mutant of NewLayout: maintenance is not told.
NewLayoutUnmarked ==
  layout' \in Layouts /\ stable' \in BOOLEAN /\ work_epoch' = work_epoch

\* An empty active generation, the other one previous, or a rebuilt one.
NewLayout ==
  layout' \in Layouts /\ stable' \in BOOLEAN /\ mark_pending

\* start_rebalance_online leaves a migrating map alone, rebalance_to finishes it.
Reshard ==
  /\ \A t \in Threads : pc[t] \notin Mutating \cup Trimming \cup Exclusive
  /\ Trouble
  /\ NewLayout
  /\ stable \/ stable'
  /\ layout' # layout \/ ~stable
  /\ UNCHANGED <<config, map, ranks, dirty_epoch, repaired_epoch, maintained_epoch, pc, frame,
                 since, calls>>

\* The last batch of an online migration.
Migrated ==
  /\ \A t \in Threads : pc[t] \notin Mutating \cup Trimming \cup Exclusive
  /\ ~stable /\ stable' = TRUE
  /\ UNCHANGED <<config, layout, map, ranks, epochs, pc, frame, since, bounds>>

Step(t) ==
  \/ Invoke(t) \/ (\E k \in Keys : Read(t, k))
  \/ Begin(t) \/ Store(t) \/ Record(t) \/ Unwind(t) \/ mark_dirty(t)
  \/ BeginSweep(t) \/ SweepShard(t) \/ SweepUnwinds(t) \/ EndSweep(t)
  \/ Observe(t) \/ Acknowledge(t) \/ Choose(t)
  \/ Share(t) \/ maintenance_generation(t) \/ Scan(t) \/ Lock(t) \/ Trim(t)
  \/ Trimmed(t) \/ RetryExclusive(t)
  \/ Exclude(t) \/ Repair(t) \/ Publish(t) \/ Plan(t) \/ Evict(t) \/ Done(t) \/ PassUnwinds(t)

Next == (\E t \in Threads : Step(t)) \/ Reshard \/ Migrated
Spec == Init /\ [][Next]_vars
-----------------------------------------------------------------------------
Quiet == \A t \in Threads : pc[t] = "idle"

(*****************************************************************************)
(* Types.  Between calls the length counts the entries.                      *)
(*****************************************************************************)
TypeOK ==
  /\ config \in Configs /\ layout \in Layouts /\ stable \in BOOLEAN
  /\ data \in [Keys -> Nat \cup {Absent}] /\ total_len \in Nat
  /\ Quiet => total_len = Cardinality(Stored)
  /\ meta \in [Keys -> Entry \cup {Nil}]
  /\ {sequence, epoch, dirty_epoch, repaired_epoch, work_epoch, maintained_epoch} \subseteq Nat
  /\ since \in [Keys -> Span \cup {Nil}]
  /\ \A t \in Threads :
       /\ frame[t].observed <= work_epoch
       /\ frame[t].candidates \subseteq [key : Keys, epoch : Nat, entry : Entry]
       /\ frame[t].slots \subseteq Shards

(*****************************************************************************)
(* "Successful hooks never clear an earlier failure" (engine.rs, reconcile): *)
(* clean metadata names exactly what is stored, with its weight, whatever    *)
(* panicked before.                                                          *)
(*****************************************************************************)
MetadataExact ==
  ~dirty =>
    \A k \in Keys :
      \/ \E t \in Threads : pc[t] = "stored" /\ call(t).key = k
      \/ IF data[k] = Absent THEN meta[k] = Nil ELSE meta[k] # Nil /\ meta[k].weight = data[k]

Within ==
  /\ ~Over(Cardinality(Stored), config.max_entries)
  /\ ~Over(Total([k \in Keys |-> IF data[k] = Absent THEN 0 ELSE data[k]]), config.memory_budget)
  /\ \A i \in Shards : ~Over(Cardinality(InShard(i)), config.max_items_per_shard)

(*****************************************************************************)
(* "Concurrent or panicking operations may leave pending work", and then     *)
(* pending says so: when nobody is in a call, the map is within its limits   *)
(* or work is pending.                                                       *)
(*****************************************************************************)
LimitsOrPending == Quiet => Within \/ pending

(*****************************************************************************)
(* What an exclusive pass is for: when its last candidate is dealt with and  *)
(* nothing was marked dirty meanwhile, the limits and the target hold.       *)
(*****************************************************************************)
PassEnforces ==
  \A t \in Threads :
    pc[t] = "evict" /\ frame[t].candidates = {} /\ ~dirty =>
      Within /\ ~Over(Cardinality(Stored), target_count(t))

Rivals(k) == IF config.max_items_per_shard = Nil THEN Stored ELSE InShard(layout[k])

(*****************************************************************************)
(* The configured order, as callers see it: under Lru a key is not evicted   *)
(* while a rival stays whose last use was over before the key's last use     *)
(* began; under Fifo the same of the insertions that created them.  Neither  *)
(* replacement, panics, repair nor the clock of the calls may upset it.      *)
(*****************************************************************************)
OldestGoesFirst ==
  [][\A t \in Threads :
       /\ pc[t] \in {"trim", "evict"} /\ frame'[t] # frame[t] /\ data' # data
       /\ policy(t) = config.policy /\ config.policy # "Lfu"
       => \A k \in Stored : data'[k] = Absent =>
            \A j \in Rivals(k) \ {k} :
              since[j] # Nil /\ since[k] # Nil => since[j].to > since[k].from]_vars
=============================================================================
