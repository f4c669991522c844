----------------------------- MODULE ShardState -----------------------------
(*****************************************************************************)
(* The state of a ShardedHashMap (lib.rs) and of the threads inside it: the  *)
(* two shard generations, the counters, the snapshot cache, the locks, and   *)
(* each thread's place in the method it is running.  KeyAccess, Snapshots,   *)
(* Transactions, Sweeps and Migration give the steps; ShardedMap composes    *)
(* them.                                                                     *)
(*****************************************************************************)
EXTENDS MapCalls, FiniteSets

CONSTANTS
  Hash,          \* hasher.hash_one, as a function of the key
  Counts,        \* the shard counts the map is ever asked for
  InitialCount,
  Mode,          \* snapshot_mode: "Clone", "Cached" or "Cow"
  MaxEpoch,      \* bound: no mutating call starts at this write_epoch or later
  NoShard,       \* an uninitialized slot: Option::None
  NoThread,
  Clean          \* preimage of a key no thread has stored under

Shard == [Keys -> OptVal]
EmptyShard == [k \in Keys |-> Nil]

ASSUME ConfigAssumption ==
  /\ Hash \in [Keys -> Nat]
  /\ Counts \subseteq Nat \ {0}
  /\ InitialCount \in Counts
  /\ Mode \in {"Clone", "Cached", "Cow"}
  /\ MaxEpoch \in Nat
  /\ IsFiniteSet(Keys)

ASSUME DistinctAssumption ==
  /\ NoShard \notin Shard
  /\ NoThread \notin Threads
  /\ Clean \notin OptVal

Idx == UNION {0..(c - 1) : c \in Counts}

VARIABLES
  shards,                \* active directory: a slot per index, NoShard beyond shard_count
  previous_shards,       \* directory of the generation being migrated
  shard_count,
  previous_shard_count,  \* 0: no previous generation
  migrating,             \* RebalanceTracker: a migration is under way
  moved_shards,          \* RebalanceTracker: source slots completed
  total_len,
  write_epoch,
  snapshot_cache,        \* {} or the singleton of the cached [epoch, items]
  readers, writer,       \* who holds each lock
  pc, call, reply,       \* each thread's place, call and answer
  at,                    \* the transaction step a thread is at
  cut,                   \* the epoch a snapshot builder has loaded
  preimage               \* what a key held before a store that is not yet visible

topology == <<shards, previous_shards, shard_count, previous_shard_count,
              migrating, moved_shards>>
counters == <<total_len, write_epoch>>
locks    == <<readers, writer>>
vars     == <<topology, counters, snapshot_cache, locks, pc, call, reply, at, cut, preimage>>

(*****************************************************************************)
(* Locks.  previous_shards has a lock of its own in the code, which only     *)
(* holders of exclusive routing write; nobody can ever wait for it, so it    *)
(* is left out.                                                              *)
(*****************************************************************************)
Routing     == <<"routing", 0>>      \* routing_lock
Directory   == <<"directory", 0>>    \* the lock of shards
Gate        == <<"gate", 0>>         \* snapshot_build_lock
Active(i)   == <<"active", i>>
Previous(i) == <<"previous", i>>

ShardLocks == {"active", "previous"} \X Idx
Locks == {Routing, Directory, Gate} \cup ShardLocks

Readable(l)  == writer[l] = NoThread
Available(l) == writer[l] = NoThread /\ readers[l] = {}

ReadLock(t, l) ==
  /\ Readable(l)
  /\ readers' = [readers EXCEPT ![l] = @ \cup {t}]
  /\ UNCHANGED writer

WriteLock(t, l) ==
  /\ Available(l)
  /\ writer' = [writer EXCEPT ![l] = t]
  /\ UNCHANGED readers

Unlock(t, L) ==
  /\ readers' = [l \in Locks |-> IF l \in L THEN readers[l] \ {t} ELSE readers[l]]
  /\ writer' = [l \in Locks |-> IF l \in L /\ writer[l] = t THEN NoThread ELSE writer[l]]

(*****************************************************************************)
(* Routing of keys to slots.  The callers hold routing, so both counts, and  *)
(* with them the slot an index names, stay what they were when it was taken. *)
(*****************************************************************************)
\* Mutant of shard_index: one slot too many.
shard_indexPastEnd(k) == Hash[k] % (shard_count + 1)

shard_index(k) == Hash[k] % shard_count
previous_index(k) == Hash[k] % previous_shard_count

Slot(k) == shards[shard_index(k)]

previous_shard(k) ==
  IF previous_shard_count = 0 THEN NoShard ELSE previous_shards[previous_index(k)]

Lookup(slot, k) == IF slot = NoShard THEN Nil ELSE slot[k]

Put(slot, k, v) == [IF slot = NoShard THEN EmptyShard ELSE slot EXCEPT ![k] = v]

(*****************************************************************************)
(* promote_entry and move_one: take k out of the source; the destination     *)
(* keeps what it already has under k.                                        *)
(*****************************************************************************)
Promoted(dest, source, k) ==
  Put(dest, k, IF Lookup(dest, k) = Nil THEN source[k] ELSE dest[k])

\* Mutant of Detached: the entry is copied, not moved.
DetachedCopy(source, k) == source

Detached(source, k) == Put(source, k, Nil)

(*****************************************************************************)
(* The value a key really has, and the value the outside may know of: a      *)
(* store stays invisible until the storing thread drops its shard guards.    *)
(*****************************************************************************)
Stored(k) ==
  IF Lookup(Slot(k), k) # Nil THEN Lookup(Slot(k), k) ELSE Lookup(previous_shard(k), k)

Visible(k) == IF preimage[k] = Clean THEN Stored(k) ELSE preimage[k]

Contents == [k \in Keys |-> Visible(k)]

(*****************************************************************************)
(* Publication of a change, before the shard is unlocked.  ShardMutation     *)
(* compares lengths and remembers whether it was asked to insert; sweeps     *)
(* report what they removed.                                                 *)
(*****************************************************************************)
Entries(v) == IF v = Nil THEN 0 ELSE 1

\* Mutant of ShardMutationDrop: every insert counts as a new key.
ShardMutationDropEager(old, new, changed) ==
  /\ total_len' = total_len + (IF new = Nil THEN 0 - Entries(old) ELSE 1)
  /\ write_epoch' = write_epoch + 1

ShardMutationDrop(old, new, changed) ==
  /\ total_len' = total_len + Entries(new) - Entries(old)
  /\ write_epoch' = IF changed \/ Entries(new) # Entries(old)
                    THEN write_epoch + 1 ELSE write_epoch

\* Mutant of record_write: the epoch is forgotten.
record_writeSilent(removed) ==
  /\ total_len' = total_len - removed
  /\ UNCHANGED write_epoch

\* Mutant of record_write: one entry counted however many were removed.
record_writeOnce(removed) ==
  /\ total_len' = total_len - 1
  /\ write_epoch' = write_epoch + 1

record_write(removed) ==
  /\ total_len' = total_len - removed
  /\ write_epoch' = write_epoch + 1

(*****************************************************************************)
(* Control.                                                                  *)
(*****************************************************************************)
Goto(t, to) == pc' = [pc EXCEPT ![t] = to]

Say(t, r) == reply' = [reply EXCEPT ![t] = r]

Mutates(c) == c.op \notin {"get", "snapshot", "view"}

FirstStep(c) ==
  CASE c.op \in KeyOps           -> "route"
    [] c.op = "txn"              -> "txn_route"
    [] c.op = "snapshot"         -> "cached"
    [] c.op = "view"             -> "gate"
    [] c.op \in {"clear", "retain"} -> "exclusive"

Invoke(t, c) ==
  /\ Mutates(c) => write_epoch < MaxEpoch
  /\ pc[t] = "idle" /\ Goto(t, FirstStep(c))
  /\ call' = [call EXCEPT ![t] = c]
  /\ UNCHANGED <<topology, counters, snapshot_cache, locks, reply, at, cut, preimage>>

Return(t) ==
  /\ pc[t] = "return" /\ Goto(t, "idle")
  /\ Unlock(t, {Routing})
  /\ call' = [call EXCEPT ![t] = NoCall]
  /\ Say(t, NoReply)
  /\ UNCHANGED <<topology, counters, snapshot_cache, at, cut, preimage>>

Init ==
  /\ shards = [i \in Idx |-> NoShard]
  /\ previous_shards = [i \in Idx |-> NoShard]
  /\ shard_count = InitialCount
  /\ previous_shard_count = 0
  /\ migrating = FALSE
  /\ moved_shards = 0
  /\ total_len = 0
  /\ write_epoch = 0
  /\ snapshot_cache = {}
  /\ readers = [l \in Locks |-> {}]
  /\ writer = [l \in Locks |-> NoThread]
  /\ pc = [t \in Threads |-> "idle"]
  /\ call = [t \in Threads |-> NoCall]
  /\ reply = [t \in Threads |-> NoReply]
  /\ at = [t \in Threads |-> 0]
  /\ cut = [t \in Threads |-> 0]
  /\ preimage = [k \in Keys |-> Clean]
=============================================================================
