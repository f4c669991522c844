---------------------------- MODULE Transactions ----------------------------
(*****************************************************************************)
(* execute_transaction of sync_impl.rs: pin routing, initialize the slots    *)
(* of the transaction's keys, write-lock their active shards and then their  *)
(* previous shards in ascending order, run the steps, drop all guards.       *)
(*****************************************************************************)
EXTENDS Snapshots

TxnKeys(t) == {call[t].steps[i].key : i \in DOMAIN call[t].steps}

TxnRouting(t) ==
  /\ pc[t] = "txn_route" /\ Goto(t, "txn_resolve")
  /\ ReadLock(t, Routing)
  /\ UNCHANGED <<topology, counters, snapshot_cache, call, reply, at, cut, preimage>>

Vacant(t) == {i \in {shard_index(k) : k \in TxnKeys(t)} : shards[i] = NoShard}

\* get_or_init_shard for every index, before any shard lock is held.
TxnResolve(t) ==
  /\ pc[t] = "txn_resolve"
  /\ IF Vacant(t) = {}
     THEN /\ Goto(t, "txn_lock")
          /\ UNCHANGED shards
     ELSE /\ UNCHANGED pc
          /\ Available(Directory)
          /\ \E i \in Vacant(t) :
               /\ \A j \in Vacant(t) : i <= j
               /\ shards' = [shards EXCEPT ![i] = EmptyShard]
  /\ UNCHANGED <<previous_shards, shard_count, previous_shard_count, migrating, moved_shards,
                 counters, snapshot_cache, locks, call, reply, at, cut, preimage>>

\* Hash, or the hasher's Clone, panics while no shard lock is held.
TxnAbort(t) ==
  /\ pc[t] = "txn_resolve" /\ Goto(t, "return")
  /\ call[t].steps # <<>>
  /\ Say(t, PanickedReply)
  /\ UNCHANGED <<topology, counters, snapshot_cache, locks, call, at, cut, preimage>>

\* Mutant of TxnLocks: only the first step's shard is locked.
TxnLocksFirst(t) == {Active(shard_index(call[t].steps[1].key))}

TxnLocks(t) ==
  {Active(shard_index(k)) : k \in TxnKeys(t)}
    \cup {Previous(previous_index(k)) : k \in {j \in TxnKeys(t) : previous_shard(j) # NoShard}}

Wanted(t) == {l \in TxnLocks(t) : writer[l] # t}

TxnLock(t) ==
  /\ pc[t] = "txn_lock"
  /\ IF Wanted(t) = {}
     THEN /\ Goto(t, "txn_apply")
          /\ at' = [at EXCEPT ![t] = 1]
          /\ UNCHANGED locks
     ELSE /\ UNCHANGED pc
          /\ \E l \in Wanted(t) : IsFirst(l, Wanted(t)) /\ WriteLock(t, l)
          /\ UNCHANGED at
  /\ UNCHANGED <<topology, counters, snapshot_cache, call, reply, cut, preimage>>

(*****************************************************************************)
(* One step: promote its key, then store and publish through a               *)
(* ShardMutation of its own.  All shards involved are locked, and a cached   *)
(* snapshot can only be served before the first publication, so the step is  *)
(* not divided further.                                                      *)
(*****************************************************************************)
TxnApply(t) ==
  LET step == call[t].steps[at[t]]
      k == step.key
      i == shard_index(k)
      source == previous_shard(k)
      old == Stored(k)
      new == CASE step.op = "read"   -> old
               [] step.op = "write"  -> step.new
               [] step.op = "remove" -> Nil
      changed == step.op = "write" IN
  /\ pc[t] = "txn_apply" /\ UNCHANGED pc
  /\ at[t] <= Len(call[t].steps)
  /\ at' = [at EXCEPT ![t] = @ + 1]
  /\ shards' = [shards EXCEPT ![i] = Put(@, k, new)]
  /\ previous_shards' = IF source = NoShard THEN previous_shards
                        ELSE [previous_shards EXCEPT ![previous_index(k)] = Detached(@, k)]
  /\ preimage' = [preimage EXCEPT ![k] = IF @ = Clean THEN old ELSE @]
  /\ ShardMutationDrop(old, new, changed)
  /\ UNCHANGED <<shard_count, previous_shard_count, migrating, moved_shards,
                 snapshot_cache, locks, call, reply, cut>>

TxnEnd(t, r) ==
  /\ Goto(t, "return")
  /\ Unlock(t, ShardLocks)
  /\ preimage' = [k \in Keys |-> IF k \in TxnKeys(t) THEN Clean ELSE preimage[k]]
  /\ at' = [at EXCEPT ![t] = 0]
  /\ Say(t, r)
  /\ UNCHANGED <<topology, total_len, snapshot_cache, call, cut>>

TxnCommit(t) ==
  /\ pc[t] = "txn_apply"
  /\ at[t] > Len(call[t].steps)
  /\ TxnEnd(t, DoneReply)
  /\ UNCHANGED write_epoch

\* User code panics: the steps already run stay applied.  A write marks its
\* change before it hashes, so it may publish an epoch without a store.
TxnUnwind(t) ==
  /\ pc[t] = "txn_apply"
  /\ call[t].steps # <<>>
  /\ TxnEnd(t, PanickedReply)
  /\ \/ UNCHANGED write_epoch
     \/ /\ at[t] <= Len(call[t].steps)
        /\ call[t].steps[at[t]].op = "write"
        /\ write_epoch' = write_epoch + 1

TxnStep(t) ==
  \/ TxnRouting(t) \/ TxnResolve(t) \/ TxnAbort(t) \/ TxnLock(t)
  \/ TxnApply(t) \/ TxnCommit(t) \/ TxnUnwind(t)
=============================================================================
