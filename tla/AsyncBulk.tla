------------------------------ MODULE AsyncBulk ------------------------------
(*****************************************************************************)
(* The methods of the asynchronous map that are about many shards at once:   *)
(* snapshots and views, transactions, clear, drain and retain.               *)
(*****************************************************************************)
EXTENDS AsyncKeys

(*****************************************************************************)
(* Snapshots.  A hit needs no map lock; a miss freezes every initialized     *)
(* shard under the builder gate.                                             *)
(*****************************************************************************)
Caching(t) == call[t].op = "snapshot" /\ config.mode # "Clone"

Hits == {c \in snapshot_cache : c.epoch = write_epoch}

Answers(t, reply) == [frame[t] EXCEPT !.left = {}, !.got = reply]

CachedSnapshot(t) ==
  /\ pc[t] = "cached"
  /\ \/ \E c \in Hits : Goes(t, "return", Answers(t, ItemsReply(c.items)))
     \/ Hits = {} /\ Goto(t, "gate") /\ UNCHANGED frame
  /\ UNCHANGED <<config, layout, counters, snapshot_cache, engine, locks, call, bounds>>

\* The cache may have been rebuilt while the task waited.
BuilderGate(t) ==
  /\ pc[t] = "gate"
  /\ \/ \E c \in Hits :
          Caching(t) /\ Acquire(t, {Gate}) /\ Goes(t, "return", Answers(t, ItemsReply(c.items)))
     \/ /\ Hits = {} \/ ~Caching(t)
        /\ Acquire(t, {}) /\ Goto(t, "pin") /\ UNCHANGED frame
  /\ UNCHANGED <<config, layout, counters, snapshot_cache, engine, call, bounds>>

PinRouting(t) ==
  /\ pc[t] = "pin"
  /\ Acquire(t, {}) /\ Goto(t, "pin_slots")
  /\ UNCHANGED <<config, layout, counters, snapshot_cache, engine, call, frame, bounds>>

\* What is in the shards whose guards a builder has, the one it was waiting for included.
Copied(t) ==
  LET held == {l \in ShardLocks : t \in readers[l] \/ l = Wanted(t)[1]} IN
  UNION {Pairs(Home(l)) : l \in held}

\* The last guard is there: the epoch and a copy of everything, and the guards are dropped.
Collect(t) ==
  /\ Acquire(t, IF Caching(t) THEN Locks \ {Gate} ELSE Locks)
  /\ Goes(t, IF Caching(t) THEN "fill" ELSE "return",
          [Answers(t, ItemsReply(Copied(t))) EXCEPT !.plan = {}, !.cut = write_epoch])

Frozen == Both(Initialized(shards), Initialized(previous_shards))

\* The directory stays locked with the shards, so that empty slots stay empty.
PinSlots(t) ==
  /\ pc[t] = "pin_slots"
  /\ IF Frozen = {} THEN Collect(t)
     ELSE Acquire(t, {}) /\ Goes(t, "guards", [frame[t] EXCEPT !.plan = Frozen])
  /\ UNCHANGED <<config, layout, counters, snapshot_cache, engine, call, bounds>>

LastGuard(t) == frame[t].plan = {NextShard(t)}

NextGuard(t) ==
  /\ pc[t] = "guards" /\ ~LastGuard(t)
  /\ Acquire(t, {})
  /\ frame' = [frame EXCEPT ![t].plan = @ \ {NextShard(t)}]
  /\ UNCHANGED <<config, layout, counters, snapshot_cache, engine, pc, call, bounds>>

CollectShards(t) ==
  /\ pc[t] = "guards" /\ LastGuard(t) /\ ReadOnly(t)
  /\ Collect(t)
  /\ UNCHANGED <<config, layout, counters, snapshot_cache, engine, call, bounds>>

FillCache(t) ==
  /\ pc[t] = "fill"
  /\ snapshot_cache' = {[epoch |-> frame[t].cut, items |-> frame[t].got.items]}
  /\ Release(t, {Gate})
  /\ Goto(t, "return")
  /\ UNCHANGED <<config, layout, counters, engine, call, frame, bounds>>
-----------------------------------------------------------------------------
(*****************************************************************************)
(* Transactions: every slot is resolved before the first shard is locked,    *)
(* and nothing is changed before the last one is.                            *)
(*****************************************************************************)
Unresolved(t) ==
  {k \in frame[t].left : shard_index(k) > shard_index(KeyInHand(t))}

TxnPlan(t) ==
  LET K == frame[t].left IN
  Both({shard_index(k) : k \in K},
       {previous_index(k) : k \in {j \in K : previous_shard(j) # NoShard}})

\* get_or_init_shard is done with a slot.
Resolved(t) ==
  /\ Acquire(t, {Slots})
  /\ LET K == Unresolved(t) IN
     IF K # {}
     THEN \E part \in Parts(t, K) : Goes(t, "slots", [frame[t] EXCEPT !.part = part])
     ELSE Goes(t, "guards", [frame[t] EXCEPT !.plan = TxnPlan(t)])

TxnSlot(t) ==
  /\ pc[t] = "slots" /\ call[t].op = "txn"
  /\ IF shards[shard_index(KeyInHand(t))] # NoShard THEN Resolved(t)
     ELSE Acquire(t, {Slots}) /\ Goto(t, "init") /\ UNCHANGED frame
  /\ UNCHANGED <<config, layout, counters, snapshot_cache, engine, call, bounds>>

TxnInit(t) ==
  /\ pc[t] = "init" /\ call[t].op = "txn"
  /\ Resolved(t)
  /\ get_or_init_shard(t)
  /\ UNCHANGED <<config, previous_shards, shard_count, previous_shard_count, migrating,
                 moved_shards, counters, snapshot_cache, engine, call, bounds>>

\* A step bumps the epoch when it writes, or removes what is there.
Changes(steps, n) ==
  \/ steps[n].op = "write"
  \/ steps[n].op = "remove" /\ AfterSteps(steps, n - 1, Contents)[steps[n].key] # Nil

\* All steps, in one go: the keys they name are promoted and their shards unlocked at the end.
Commit(t) ==
  LET steps == call[t].steps
      K == frame[t].left
      after == AfterSteps(steps, Len(steps), Contents) IN
  /\ pc[t] = "guards" /\ LastGuard(t) /\ ~ReadOnly(t)
  /\ Acquire(t, Locks)
  /\ Put(K, after)
  /\ total_len' = total_len + Cardinality({k \in K : after[k] # Nil})
                            - Cardinality({k \in K : Contents[k] # Nil})
  /\ write_epoch' = write_epoch + Cardinality({n \in DOMAIN steps : Changes(steps, n)})
  /\ Recorded({k \in K : after[k] = Nil},
              {k \in K : after[k] # Nil /\ \E n \in DOMAIN steps : Writes(steps[n], k)})
  /\ IF \E n \in DOMAIN steps :
          Changes(steps, n) \/ (steps[n].op = "remove" /\ config.mode # "Cow")
     THEN mark_pending ELSE UNCHANGED <<work, current>>
  /\ Goes(t, "maintain", [Answers(t, DoneReply) EXCEPT !.part = {}, !.plan = {}])
  /\ UNCHANGED <<config, shard_count, previous_shard_count, migrating, moved_shards,
                 snapshot_cache, dirty, call, bounds>>
-----------------------------------------------------------------------------
(*****************************************************************************)
(* Under exclusive routing: clear and drain empty both generations in one    *)
(* go, retain goes shard by shard.                                           *)
(*****************************************************************************)
Exclusive(t) ==
  /\ pc[t] = "exclusive" /\ call[t].op \in {"clear", "drain", "retain"}
  /\ Acquire(t, {})
  /\ IF call[t].op = "retain"
     THEN /\ Goes(t, "visit", [frame[t] EXCEPT
               !.plan = Both(Initialized(shards), Initialized(previous_shards))])
          /\ mark_pending
     ELSE Goto(t, "sweep") /\ UNCHANGED <<frame, work, current>>
  /\ UNCHANGED <<config, layout, counters, snapshot_cache, meta, dirty, call, bounds>>

Emptied(slots) == [i \in Idx |-> IF slots[i] = NoShard THEN NoShard ELSE EmptyShard]

Sweep(t) ==
  /\ pc[t] = "sweep"
  /\ shards' = Emptied(shards)
  /\ previous_shards' = [i \in Idx |-> NoShard]
  /\ previous_shard_count' = 0 /\ migrating' = FALSE /\ moved_shards' = 0
  /\ total_len' = 0
  /\ write_epoch' = write_epoch + (IF Stored # {} THEN 1 ELSE 0)
  /\ Recorded(Stored, {})
  /\ mark_pending
  /\ Release(t, {Routing})
  /\ Goes(t, "maintain",
          Answers(t, IF call[t].op = "drain" THEN ItemsReply(Pairs(Contents)) ELSE DoneReply))
  /\ UNCHANGED <<config, shard_count, snapshot_cache, dirty, call, bounds>>

\* Mutant of Visit: lengths are accounted for after the last shard, which may never come.
VisitUnaccounted(t) ==
  LET gone == Keyset(Home(NextShard(t))) \ call[t].keep IN
  /\ pc[t] = "visit" /\ frame[t].plan # {}
  /\ shards' = [i \in Idx |-> Without(shards[i], gone)]
  /\ previous_shards' = [i \in Idx |-> Without(previous_shards[i], gone)]
  /\ total_len' = total_len - (IF LastGuard(t) THEN Cardinality(gone) ELSE 0)
  /\ write_epoch' = write_epoch + Cardinality(gone)
  /\ Recorded(gone, {})
  /\ frame' = [frame EXCEPT ![t].plan = @ \ {NextShard(t)}, ![t].left = @ \ gone]
  /\ UNCHANGED <<config, shard_count, previous_shard_count, migrating, moved_shards,
                 snapshot_cache, dirty, work, current, locks, pc, call, bounds>>

\* Each removal is accounted for before the next await.
Visit(t) ==
  LET gone == Keyset(Home(NextShard(t))) \ call[t].keep IN
  /\ pc[t] = "visit" /\ frame[t].plan # {}
  /\ shards' = [i \in Idx |-> Without(shards[i], gone)]
  /\ previous_shards' = [i \in Idx |-> Without(previous_shards[i], gone)]
  /\ total_len' = total_len - Cardinality(gone)
  /\ write_epoch' = write_epoch + Cardinality(gone)
  /\ Recorded(gone, {})
  /\ frame' = [frame EXCEPT ![t].plan = @ \ {NextShard(t)}, ![t].left = @ \ gone]
  /\ UNCHANGED <<config, shard_count, previous_shard_count, migrating, moved_shards,
                 snapshot_cache, dirty, work, current, locks, pc, call, bounds>>

Visited(t) ==
  /\ pc[t] = "visit" /\ frame[t].plan = {}
  /\ Release(t, {Routing})
  /\ Goes(t, "maintain", Answers(t, DoneReply))
  /\ UNCHANGED <<config, layout, counters, snapshot_cache, engine, call, bounds>>

BulkStep(t) ==
  \/ CachedSnapshot(t) \/ BuilderGate(t) \/ PinRouting(t) \/ PinSlots(t)
  \/ NextGuard(t) \/ CollectShards(t) \/ FillCache(t)
  \/ TxnSlot(t) \/ TxnInit(t) \/ Commit(t)
  \/ Exclusive(t) \/ Sweep(t) \/ Visit(t) \/ Visited(t)
=============================================================================
