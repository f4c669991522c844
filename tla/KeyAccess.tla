------------------------------ MODULE KeyAccess ------------------------------
(*****************************************************************************)
(* get, insert, remove, get_or_insert_with, compute_if_present,              *)
(* compare_and_swap and compare_and_remove of sync_impl.rs, step by step:    *)
(* routing, then the directory, then the key's active shard, then its shard  *)
(* of the previous generation.  A lock taken and dropped with one access in  *)
(* between is one step; a lock held across steps is in readers and writer.   *)
(*****************************************************************************)
EXTENDS ShardState

Key(t) == call[t].key

AcquireRouting(t) ==
  /\ pc[t] = "route" /\ Goto(t, "lookup")
  /\ ReadLock(t, Routing)
  /\ UNCHANGED <<topology, counters, snapshot_cache, call, reply, at, cut, preimage>>

\* A lookup keeps what it found empty locked while it reads the previous
\* shard, so that the key cannot be promoted behind it.
\* Mutant of HoldForFallback: the guard is dropped before the fallback.
HoldNothing(t, l) == Readable(l) /\ UNCHANGED locks

HoldForFallback(t, l) == ReadLock(t, l)

(*****************************************************************************)
(* Read the active directory.  Over an uninitialized slot a reader keeps     *)
(* the directory read-locked and falls back; remove returns at once if       *)
(* there is no previous generation; the other methods initialize the slot.   *)
(*****************************************************************************)
FindSlot(t) ==
  LET k == Key(t)
      vacant == Slot(k) = NoShard IN
  /\ pc[t] = "lookup"
  /\ Readable(Directory)
  /\ \/ /\ ~vacant
        /\ Goto(t, IF call[t].op = "get" THEN "read" ELSE "lock")
        /\ UNCHANGED <<locks, reply>>
     \/ /\ vacant /\ call[t].op = "get"
        /\ Goto(t, "fallback")
        /\ HoldForFallback(t, Directory)
        /\ UNCHANGED reply
     \/ /\ vacant /\ call[t].op = "remove" /\ previous_shard_count = 0
        /\ Goto(t, "return")
        /\ Say(t, KeyReply(FALSE, Nil))
        /\ UNCHANGED locks
     \/ /\ vacant /\ call[t].op # "get"
        /\ call[t].op = "remove" => previous_shard_count # 0
        /\ Goto(t, "init")
        /\ UNCHANGED <<locks, reply>>
  /\ UNCHANGED <<topology, counters, snapshot_cache, call, at, cut, preimage>>

\* get_or_init_shard: another thread may have initialized the slot meanwhile.
InitSlot(t) ==
  LET i == shard_index(Key(t)) IN
  /\ pc[t] = "init" /\ Goto(t, "lock")
  /\ Available(Directory)
  /\ shards' = [shards EXCEPT ![i] = IF @ = NoShard THEN EmptyShard ELSE @]
  /\ UNCHANGED <<previous_shards, shard_count, previous_shard_count, migrating,
                 moved_shards, counters, snapshot_cache, locks, call, reply, at, cut, preimage>>

ReadActive(t) ==
  LET k == Key(t)
      l == Active(shard_index(k))
      v == Lookup(Slot(k), k) IN
  /\ pc[t] = "read"
  /\ Readable(l)
  /\ \/ /\ v # Nil \/ previous_shard(k) = NoShard
        /\ Goto(t, "return")
        /\ Say(t, KeyReply(v # Nil, v))
        /\ UNCHANGED locks
     \/ /\ v = Nil /\ previous_shard(k) # NoShard
        /\ Goto(t, "fallback")
        /\ HoldForFallback(t, l)
        /\ UNCHANGED reply
  /\ UNCHANGED <<topology, counters, snapshot_cache, call, at, cut, preimage>>

\* Holding the active shard, or the directory over a vacant slot.
ReadPrevious(t) ==
  LET k == Key(t)
      v == Lookup(previous_shard(k), k) IN
  /\ pc[t] = "fallback" /\ Goto(t, "return")
  /\ previous_shard(k) # NoShard => Readable(Previous(previous_index(k)))
  /\ Say(t, KeyReply(v # Nil, v))
  /\ Unlock(t, {Directory} \cup ShardLocks)
  /\ UNCHANGED <<topology, counters, snapshot_cache, call, at, cut, preimage>>

LockActive(t) ==
  /\ pc[t] = "lock" /\ Goto(t, "promote")
  /\ WriteLock(t, Active(shard_index(Key(t))))
  /\ UNCHANGED <<topology, counters, snapshot_cache, call, reply, at, cut, preimage>>

\* promote_previous: the previous shard is write-locked for the move only.
Promote(t) ==
  LET k == Key(t)
      i == shard_index(k)
      j == previous_index(k)
      source == previous_shard(k) IN
  /\ pc[t] = "promote" /\ Goto(t, "apply")
  /\ source # NoShard => Available(Previous(j))
  /\ IF Lookup(source, k) = Nil
     THEN UNCHANGED <<shards, previous_shards>>
     ELSE /\ shards' = [shards EXCEPT ![i] = Promoted(@, source, k)]
          /\ previous_shards' = [previous_shards EXCEPT ![j] = Detached(@, k)]
  /\ UNCHANGED <<shard_count, previous_shard_count, migrating, moved_shards,
                 counters, snapshot_cache, locks, call, reply, at, cut, preimage>>

(*****************************************************************************)
(* Which calls run a ShardMutation over the value they find, and with what:  *)
(* an insert publishes even when it stores an equal value, a remove only     *)
(* when the length changed.                                                  *)
(*****************************************************************************)
\* Mutant of Inserts: a swap stores into an absent key.
InsertsAbsent(c, old) ==
  \/ c.op = "insert"
  \/ c.op = "get_or_insert" /\ old = Nil
  \/ c.op = "compute" /\ old # Nil /\ c.new # Nil
  \/ c.op = "cas" /\ old \in {Nil, c.exp}

Inserts(c, old) ==
  \/ c.op = "insert"
  \/ c.op = "get_or_insert" /\ old = Nil
  \/ c.op = "compute" /\ old # Nil /\ c.new # Nil
  \/ c.op = "cas" /\ old = c.exp

Removes(c, old) ==
  /\ old # Nil
  /\ \/ c.op = "remove"
     \/ c.op = "compute" /\ c.new = Nil
     \/ c.op = "compare_and_remove" /\ old = c.exp

ReplyTo(c, old) ==
  CASE c.op \in {"insert", "remove"} -> KeyReply(old # Nil, old)
    [] c.op = "get_or_insert" -> KeyReply(TRUE, IF old = Nil THEN c.new ELSE old)
    [] c.op = "compute" -> IF old = Nil THEN KeyReply(FALSE, Nil) ELSE KeyReply(c.new # Nil, c.new)
    [] c.op = "cas" -> IF old = c.exp THEN KeyReply(TRUE, c.new)
                       ELSE KeyReply(FALSE, IF old = Nil THEN c.new ELSE old)
    [] c.op = "compare_and_remove" -> KeyReply(old = c.exp, Nil)

\* Store under the active shard's guard; nothing is published yet.
Store(t, k, v) ==
  /\ shards' = [shards EXCEPT ![shard_index(k)] = Put(@, k, v)]
  /\ preimage' = [preimage EXCEPT ![k] = Lookup(Slot(k), k)]

Apply(t) ==
  LET c == call[t]
      k == Key(t)
      old == Lookup(Slot(k), k) IN
  /\ pc[t] = "apply"
  /\ \/ /\ Inserts(c, old)
        /\ Store(t, k, c.new)
        /\ Goto(t, "publish")
     \/ /\ Removes(c, old)
        /\ Store(t, k, Nil)
        /\ Goto(t, "publish")
     \/ /\ ~Inserts(c, old) /\ ~Removes(c, old)
        /\ Goto(t, "release")
        /\ UNCHANGED <<shards, preimage>>
  /\ Say(t, ReplyTo(c, old))
  /\ UNCHANGED <<previous_shards, shard_count, previous_shard_count, migrating,
                 moved_shards, counters, snapshot_cache, locks, call, at, cut>>

(*****************************************************************************)
(* User code panics: before the store (Hash, Clone of the hasher or of a     *)
(* value, a callback), possibly with the insert already marked as a change,  *)
(* or in the destructor of what the store replaced.  ShardMutation           *)
(* publishes while unwinding.                                                *)
(*****************************************************************************)
Unwind(t) ==
  LET c == call[t]
      k == Key(t)
      old == Lookup(Slot(k), k) IN
  /\ \/ /\ pc[t] \in {"promote", "apply"}
        /\ Goto(t, "release")
        /\ UNCHANGED <<shards, preimage, locks>>
     \/ /\ pc[t] \in {"lookup", "init", "read", "fallback"}
        /\ Goto(t, "return")
        /\ Unlock(t, {Directory} \cup ShardLocks)
        /\ UNCHANGED <<shards, preimage>>
     \/ /\ pc[t] = "apply" /\ Inserts(c, old)
        /\ Goto(t, "publish")
        /\ \E v \in {old, c.new} : Store(t, k, v)
        /\ UNCHANGED locks
     \/ /\ pc[t] = "apply" /\ Removes(c, old)
        /\ Goto(t, "publish")
        /\ Store(t, k, Nil)
        /\ UNCHANGED locks
  /\ Say(t, PanickedReply)
  /\ UNCHANGED <<previous_shards, shard_count, previous_shard_count, migrating,
                 moved_shards, counters, snapshot_cache, call, at, cut>>

\* ShardMutation::drop, still under the shard's guard.  Apply comes here only
\* after an insert, or after a remove that changed the length.
Publish(t) ==
  LET k == Key(t) IN
  /\ pc[t] = "publish" /\ Goto(t, "release")
  /\ ShardMutationDrop(preimage[k], Lookup(Slot(k), k), TRUE)
  /\ UNCHANGED <<topology, snapshot_cache, locks, call, reply, at, cut, preimage>>

\* The shard guard drops; routing drops in Return.
Release(t) ==
  /\ pc[t] = "release" /\ Goto(t, "return")
  /\ Unlock(t, ShardLocks)
  /\ preimage' = [preimage EXCEPT ![Key(t)] = Clean]
  /\ UNCHANGED <<topology, counters, snapshot_cache, call, reply, at, cut>>

KeyStep(t) ==
  \/ AcquireRouting(t) \/ FindSlot(t) \/ InitSlot(t)
  \/ ReadActive(t) \/ ReadPrevious(t)
  \/ LockActive(t) \/ Promote(t) \/ Apply(t) \/ Unwind(t) \/ Publish(t) \/ Release(t)
=============================================================================
