-------------------------- MODULE ShardedMap_proofs --------------------------
(*****************************************************************************)
(* Invariance proofs for ShardedMap, for every set of threads, keys, values, *)
(* shard counts, calls and every hash function: types, locks and the homes   *)
(* of entries first, then what the locks buy.  Nobody else touches what a    *)
(* thread has locked, so the counters and the captured snapshots agree with  *)
(* the entries that are stored.  Last, the refinement of MapSpec.            *)
(*****************************************************************************)
EXTENDS ShardedMap, FiniteSetTheorems, TLAPS

\* A key's slot lies inside the active directory.
LEMMA IndexInRange ==
  ASSUME DirectoryType, NEW k \in Keys
  PROVE  /\ shard_index(k) \in 0..(shard_count - 1)
         /\ shard_index(k) \in Idx
<1>1. Hash[k] \in Nat /\ shard_count \in Nat /\ shard_count > 0
  BY ConfigAssumption DEF DirectoryType
<1>2. shard_index(k) \in 0..(shard_count - 1)
  BY <1>1 DEF shard_index
<1>3. QED
  BY <1>2 DEF DirectoryType, Idx

\* The same for the previous directory, when there is one.
LEMMA PreviousInRange ==
  ASSUME DirectoryType, NEW k \in Keys, previous_shard_count # 0
  PROVE  /\ previous_index(k) \in 0..(previous_shard_count - 1)
         /\ previous_index(k) \in Idx
<1>1. Hash[k] \in Nat /\ previous_shard_count \in Nat /\ previous_shard_count > 0
  BY ConfigAssumption DEF DirectoryType
<1>2. previous_index(k) \in 0..(previous_shard_count - 1)
  BY <1>1 DEF previous_index
<1>3. QED
  BY <1>2 DEF DirectoryType, Idx

\* What the helpers on slots return.
LEMMA SlotHelpers ==
  ASSUME NEW slot \in Shard \cup {NoShard}, NEW k \in Keys, NEW v \in OptVal
  PROVE  /\ Lookup(slot, k) \in OptVal
         /\ Put(slot, k, v) \in Shard
         /\ Put(slot, k, v)[k] = v
         /\ \A j \in Keys \ {k} : Put(slot, k, v)[j] = Lookup(slot, j)
         /\ Detached(slot, k) \in Shard
         /\ Nil \in OptVal
BY DEF Lookup, Put, Shard, EmptyShard, OptVal, Detached

\* What a lookup in a typed directory returns is typed.
LEMMA SlotTypes ==
  ASSUME DirectoryType, NEW k \in Keys
  PROVE  /\ Slot(k) \in Shard \cup {NoShard}
         /\ previous_shard(k) \in Shard \cup {NoShard}
         /\ Lookup(Slot(k), k) \in OptVal
         /\ Lookup(previous_shard(k), k) \in OptVal
         /\ Stored(k) \in OptVal
<1>1. Slot(k) \in Shard \cup {NoShard}
  BY IndexInRange DEF DirectoryType, Slot
<1>2. previous_shard(k) \in Shard \cup {NoShard}
  BY PreviousInRange DEF DirectoryType, previous_shard
<1>3. QED
  BY <1>1, <1>2 DEF Lookup, Shard, OptVal, Stored

\* Lock operations keep the lock tables well formed.
LEMMA LockTypes ==
  ASSUME CallType, NEW t \in Threads
  PROVE  LET Tables == /\ readers' \in [Locks -> SUBSET Threads]
                       /\ writer' \in [Locks -> Threads \cup {NoThread}]
         IN  /\ \A l : ReadLock(t, l) => Tables
             /\ \A l : WriteLock(t, l) => Tables
             /\ \A L : Unlock(t, L) => Tables
BY DEF CallType, ReadLock, WriteLock, Unlock

\* The parts of TypeOK that only some actions touch.
LEMMA ThreadTypes ==
  ASSUME CallType, NEW t \in Threads
  PROVE  /\ \A to \in PCs : Goto(t, to) => pc' \in [Threads -> PCs]
         /\ \A r \in Replies : Say(t, r) => reply' \in [Threads -> Replies]
BY DEF CallType, Goto, Say

\* A step that leaves the directories alone keeps every entry's home.
LEMMA LayoutUnchanged ==
  ASSUME Layout, UNCHANGED topology
  PROVE  Layout'
BY DEF Layout, topology, DirectoryType, MigrationState, OneHome, shard_index,
       previous_index, previous_shard

\* Emptied survives steps that let nobody reach the store and put nothing
\* into the previous generation.
LEMMA EmptiedKept ==
  ASSUME Emptied, CallMatches,
         \A u \in Threads : pc'[u] = "apply" => pc[u] = "apply" /\ call'[u] = call[u],
         \A k \in Keys : Lookup(previous_shard(k), k) = Nil =>
                            Lookup(previous_shard(k), k)' = Nil
  PROVE  Emptied'
BY DEF Emptied, CallMatches, KeyPCs, KeyCalls

\* Emptied stays where the directories and the steps stay.
LEMMA EmptiedUnchanged ==
  ASSUME Emptied, CallMatches, UNCHANGED topology,
         \A u \in Threads : pc'[u] = "apply" => pc[u] = "apply" /\ call'[u] = call[u]
  PROVE  Emptied'
BY EmptiedKept DEF topology, previous_shard, previous_index

(*****************************************************************************)
(* A thread moves to another step of its call.  Control is kept if the call  *)
(* fits the step, routing is held as the step needs, and nobody else loses   *)
(* routing.                                                                  *)
(*****************************************************************************)
LEMMA ThreadMoves ==
  ASSUME Control, CallType', NEW t \in Threads, NEW to \in PCs, Goto(t, to),
         \A u \in Threads \ {t} : call'[u] = call[u] /\ reply'[u] = reply[u] /\ at'[u] = at[u],
         to \in KeyPCs => call'[t] \in KeyCalls,
         to \in WriterPCs => call'[t].op # "get",
         to \in TxnPCs => call'[t] \in TxnCalls,
         to = "txn_apply" => at'[t] # 0,
         to \in SnapPCs => call'[t] \in SnapCalls,
         to = "cache" => reply'[t].tag = "snapshot",
         to \in SweepPCs => call'[t] \in SweepCalls,
         to \in Pinned => t \in readers'[Routing],
         to = "sweep" => writer'[Routing] = t,
         \A u \in Threads \ {t} : /\ u \in readers[Routing] => u \in readers'[Routing]
                                  /\ writer[Routing] = u => writer'[Routing] = u,
         writer'[Routing] # NoThread => readers'[Routing] = {}
  PROVE  Control'
<1>1. \A u \in Threads \ {t} : pc'[u] = pc[u]
  BY DEF Goto, Control, CallType
<1>2. pc'[t] = to
  BY DEF Goto, Control, CallType
<1>3. CallMatches'
  BY <1>1, <1>2 DEF Control, CallMatches
<1>4. RoutingHeld'
  BY <1>1, <1>2 DEF Control, RoutingHeld
<1>5. QED
  BY <1>3, <1>4 DEF Control

\* Init establishes the invariant.
LEMMA HomeInit == Init => HomeInv
<1> SUFFICES ASSUME Init PROVE HomeInv
  OBVIOUS
<1>1. DirectoryType
  <2>1. shard_count \in Counts
    BY ConfigAssumption DEF Init
  <2>2. migrating \in BOOLEAN
    BY DEF Init
  <2>3. QED
    BY <2>1, <2>2 DEF Init, DirectoryType
<1>2. MigrationState
  BY DEF Init, MigrationState
<1>3. OneHome
  BY DEF Init, OneHome, Lookup
<1>4. CallType
  <2>1. "idle" \in PCs /\ NoReply \in Replies
    BY DEF PCs, Replies
  <2>2. snapshot_cache \in SUBSET [epoch : Nat, items : SUBSET (Keys \X Vals)]
    BY DEF Init
  <2>3. /\ readers \in [Locks -> SUBSET Threads]
        /\ writer \in [Locks -> Threads \cup {NoThread}]
    BY DEF Init
  <2>4. /\ pc \in [Threads -> PCs]
        /\ call \in [Threads -> Calls \cup {NoCall}]
        /\ reply \in [Threads -> Replies]
    BY <2>1 DEF Init
  <2>5. preimage \in [Keys -> OptVal \cup {Clean}]
    BY DEF Init
  <2>6. at \in [Threads -> Nat] /\ cut \in [Threads -> Nat]
    BY DEF Init
  <2>7. total_len \in Int /\ write_epoch \in Nat
    BY DEF Init
  <2>8. QED
    BY <2>2, <2>3, <2>4, <2>5, <2>6, <2>7 DEF CallType
<1>5. CallMatches
  BY DEF Init, CallMatches, KeyPCs, WriterPCs, TxnPCs, SnapPCs, SweepPCs
<1>6. RoutingHeld
  BY DEF Init, RoutingHeld, Pinned, KeyPCs, TxnPCs, Locks
<1>7. Emptied
  BY DEF Init, Emptied
<1>8. QED
  BY <1>1, <1>2, <1>3, <1>4, <1>5, <1>6, <1>7 DEF HomeInv, Layout, Control

\* What lock operations do to routing.
LEMMA RoutingLocks ==
  ASSUME Control, NEW t \in Threads
  PROVE  LET Same == readers'[Routing] = readers[Routing] /\ writer'[Routing] = writer[Routing]
         IN  /\ ReadLock(t, Routing) =>
                  /\ readers'[Routing] = readers[Routing] \cup {t}
                  /\ writer[Routing] = NoThread /\ writer'[Routing] = NoThread
             /\ WriteLock(t, Routing) =>
                  /\ readers[Routing] = {} /\ readers'[Routing] = {}
                  /\ writer[Routing] = NoThread /\ writer'[Routing] = t
             /\ \A l : l # Routing /\ (ReadLock(t, l) \/ WriteLock(t, l)) => Same
             /\ \A L : Routing \notin L /\ Unlock(t, L) => Same
             /\ \A L : Routing \in L /\ Unlock(t, L) =>
                  /\ readers'[Routing] = readers[Routing] \ {t}
                  /\ writer'[Routing] = IF writer[Routing] = t THEN NoThread
                                        ELSE writer[Routing]
<1>1. Routing \in Locks
  BY DEF Locks
<1>2. QED
  BY <1>1 DEF Control, CallType, ReadLock, WriteLock, Unlock, Readable, Available

\* No other lock is routing.
LEMMA RoutingApart ==
  /\ \A l \in ShardLocks \cup {Directory, Gate} : l # Routing
  /\ \A i : Active(i) # Routing /\ Previous(i) # Routing
BY DEF ShardLocks, Directory, Gate, Routing, Active, Previous

\* A step of one thread that leaves the directories alone.
LEMMA QuietStep ==
  ASSUME HomeInv, UNCHANGED topology, Control', NEW t \in Threads,
         \A u \in Threads \ {t} : call'[u] = call[u] /\ pc'[u] = pc[u],
         pc'[t] # "apply"
  PROVE  HomeInv'
BY LayoutUnchanged, EmptiedUnchanged DEF HomeInv, Control

\* Invoke preserves HomeInv.
LEMMA HomeInvoke ==
  ASSUME HomeInv, NEW t \in Threads, NEW c \in Calls, Invoke(t, c)
  PROVE  HomeInv'
<1> USE DEF HomeInv
<1>1. c \in AllCalls
  BY CallsAssumption
<1>2. \/ c \in KeyCalls /\ FirstStep(c) = "route"
      \/ c \in TxnCalls /\ FirstStep(c) = "txn_route"
      \/ c \in SnapCalls /\ FirstStep(c) \in {"cached", "gate"}
      \/ c \in SweepCalls /\ FirstStep(c) = "exclusive"
  BY <1>1 DEF AllCalls, KeyCalls, TxnCalls, SnapCalls, SweepCalls, FirstStep, KeyOps
<1>3. FirstStep(c) \in PCs
  BY <1>2 DEF PCs, KeyPCs, TxnPCs, SnapPCs, SweepPCs
<1>4. CallType'
  BY <1>3, ThreadTypes DEF Invoke, Control, CallType, counters, locks
<1>5. call'[t] = c /\ \A u \in Threads \ {t} : call'[u] = call[u]
  BY DEF Invoke, Control, CallType
<1>6. FirstStep(c) \notin Pinned /\ FirstStep(c) \notin WriterPCs
      /\ FirstStep(c) \notin {"cache", "sweep", "txn_apply", "apply"}
  BY <1>2 DEF Pinned, KeyPCs, TxnPCs, WriterPCs
<1>7. Control'
  BY <1>2, <1>3, <1>4, <1>5, <1>6, ThreadMoves
     DEF Invoke, locks, Control, RoutingHeld, KeyPCs, TxnPCs, SnapPCs, SweepPCs
<1>8. QED
  BY <1>5, <1>6, <1>7, QuietStep DEF Invoke, Goto, Control, CallType

\* Return preserves HomeInv.
LEMMA HomeReturn ==
  ASSUME HomeInv, NEW t \in Threads, Return(t)
  PROVE  HomeInv'
<1> USE DEF HomeInv
<1>1. "idle" \in PCs /\ NoReply \in Replies
  BY DEF PCs, Replies
<1>2. CallType'
  BY <1>1, ThreadTypes, LockTypes DEF Return, Control, CallType, counters
<1>3. \A u \in Threads \ {t} : call'[u] = call[u] /\ reply'[u] = reply[u]
  BY DEF Return, Say, Control, CallType
<1>4. Control'
  BY <1>1, <1>2, <1>3, ThreadMoves, RoutingLocks
     DEF Return, Control, RoutingHeld, KeyPCs, WriterPCs, TxnPCs, SnapPCs, SweepPCs, Pinned
<1>5. QED
  BY <1>3, <1>4, QuietStep DEF Return, Goto, Control, CallType

\* A thread stays inside its key call, and routing does not change.
LEMMA KeyMoves ==
  ASSUME Control, CallType', NEW t \in Threads, pc[t] \in KeyPCs \ {"route"},
         NEW to \in (KeyPCs \ {"route"}) \cup {"return"}, Goto(t, to), UNCHANGED <<call, at>>,
         to \in WriterPCs => call[t].op # "get",
         \A u \in Threads \ {t} : reply'[u] = reply[u],
         readers'[Routing] = readers[Routing], writer'[Routing] = writer[Routing]
  PROVE  Control'
<1>1. to \in PCs
  BY DEF PCs
<1>2. to \notin TxnPCs \cup SnapPCs \cup SweepPCs \cup {"sweep", "cache", "txn_apply"}
  BY DEF KeyPCs, TxnPCs, SnapPCs, SweepPCs
<1>3. call[t] \in KeyCalls /\ t \in readers[Routing]
  BY DEF Control, CallMatches, RoutingHeld, Pinned
<1>4. QED
  BY <1>1, <1>2, <1>3, ThreadMoves DEF Control, RoutingHeld

\* Replies to key calls are well formed.
LEMMA KeyReplies ==
  ASSUME NEW v \in OptVal, NEW b \in BOOLEAN
  PROVE  KeyReply(b, v) \in Replies
BY DEF KeyReply, Replies

\* One thread's reply changes no other's.
LEMMA SayOthers ==
  ASSUME Control, NEW t \in Threads, NEW r, Say(t, r)
  PROVE  \A u \in Threads \ {t} : reply'[u] = reply[u]
BY DEF Say, Control, CallType

\* One thread's step changes no other's.
LEMMA PCOthers ==
  ASSUME Control, NEW t \in Threads, NEW to, Goto(t, to)
  PROVE  pc'[t] = to /\ \A u \in Threads \ {t} : pc'[u] = pc[u]
BY DEF Goto, Control, CallType

\* AcquireRouting preserves HomeInv.
LEMMA HomeAcquireRouting ==
  ASSUME HomeInv, NEW t \in Threads, AcquireRouting(t)
  PROVE  HomeInv'
<1> USE DEF HomeInv
<1>1. "lookup" \in PCs /\ "lookup" \in KeyPCs
  BY DEF PCs, KeyPCs
<1>2. CallType'
  BY <1>1, ThreadTypes, LockTypes DEF AcquireRouting, Control, CallType, counters
<1>3. call[t] \in KeyCalls
  BY DEF AcquireRouting, Control, CallMatches, KeyPCs
<1>4. Control'
  BY <1>1, <1>2, <1>3, ThreadMoves, RoutingLocks
     DEF AcquireRouting, WriterPCs, TxnPCs, SnapPCs, SweepPCs
<1>5. QED
  BY <1>4, QuietStep, PCOthers DEF AcquireRouting

\* FindSlot preserves HomeInv.
LEMMA HomeFindSlot ==
  ASSUME HomeInv, NEW t \in Threads, FindSlot(t)
  PROVE  HomeInv'
<1> USE DEF HomeInv
<1>1. /\ pc[t] = "lookup" /\ "lookup" \in KeyPCs \ {"route"}
      /\ UNCHANGED <<topology, counters, snapshot_cache, call, at, cut, preimage>>
  BY DEF FindSlot, KeyPCs
<1>2. PICK to \in {"read", "lock", "fallback", "return", "init"} :
         Goto(t, to) /\ (to \in {"lock", "init"} => call[t].op # "get")
  BY DEF FindSlot
<1>3. UNCHANGED locks \/ ReadLock(t, Directory)
  BY DEF FindSlot, HoldForFallback
<1>4. UNCHANGED reply \/ Say(t, KeyReply(FALSE, Nil))
  BY DEF FindSlot
<1>5. KeyReply(FALSE, Nil) \in Replies
  BY KeyReplies DEF OptVal
<1>6. to \in PCs /\ to \in (KeyPCs \ {"route"}) \cup {"return"}
  BY DEF PCs, KeyPCs
<1>7. CallType'
  BY <1>1, <1>2, <1>3, <1>4, <1>5, <1>6, ThreadTypes, LockTypes
     DEF Control, CallType, counters, locks
<1>8. Control'
  BY <1>1, <1>2, <1>3, <1>4, <1>6, <1>7, KeyMoves, RoutingLocks, RoutingApart, SayOthers
     DEF locks, WriterPCs
<1>9. QED
  BY <1>1, <1>2, <1>8, QuietStep, PCOthers

\* ReadActive preserves HomeInv.
LEMMA HomeReadActive ==
  ASSUME HomeInv, NEW t \in Threads, ReadActive(t)
  PROVE  HomeInv'
<1> USE DEF HomeInv
<1>1. /\ pc[t] = "read" /\ "read" \in KeyPCs \ {"route"}
      /\ UNCHANGED <<topology, counters, snapshot_cache, call, at, cut, preimage>>
  BY DEF ReadActive, KeyPCs
<1>2. Key(t) \in Keys
  BY <1>1 DEF Control, CallMatches, KeyCalls, Key
<1> DEFINE v == Lookup(Slot(Key(t)), Key(t))
<1>3. v \in OptVal
  BY <1>2, SlotTypes DEF Layout
<1>4. KeyReply(v # Nil, v) \in Replies
  BY <1>3, KeyReplies
<1>5. PICK to \in {"return", "fallback"} : Goto(t, to)
  BY DEF ReadActive
<1>6. \/ UNCHANGED locks
      \/ ReadLock(t, Active(shard_index(Key(t))))
  BY DEF ReadActive, HoldForFallback
<1>7. UNCHANGED reply \/ Say(t, KeyReply(v # Nil, v))
  BY DEF ReadActive
<1>8. to \in PCs /\ to \in (KeyPCs \ {"route"}) \cup {"return"} /\ to \notin WriterPCs
  BY DEF PCs, KeyPCs, WriterPCs
<1> HIDE DEF v
<1>9. CallType'
  BY <1>1, <1>4, <1>5, <1>6, <1>7, <1>8, ThreadTypes, LockTypes
     DEF Control, CallType, counters, locks
<1>10. Control'
  BY <1>1, <1>5, <1>6, <1>7, <1>8, <1>9, KeyMoves, RoutingLocks, RoutingApart, SayOthers
     DEF locks
<1>11. QED
  BY <1>1, <1>5, <1>10, QuietStep, PCOthers

\* ReadPrevious preserves HomeInv.
LEMMA HomeReadPrevious ==
  ASSUME HomeInv, NEW t \in Threads, ReadPrevious(t)
  PROVE  HomeInv'
<1> USE DEF HomeInv
<1>1. /\ pc[t] = "fallback" /\ "fallback" \in KeyPCs \ {"route"}
      /\ Goto(t, "return") /\ Unlock(t, {Directory} \cup ShardLocks)
      /\ UNCHANGED <<topology, counters, snapshot_cache, call, at, cut, preimage>>
  BY DEF ReadPrevious, KeyPCs
<1>2. Key(t) \in Keys
  BY <1>1 DEF Control, CallMatches, KeyCalls, Key
<1> DEFINE v == Lookup(previous_shard(Key(t)), Key(t))
<1>3. v \in OptVal
  BY <1>2, SlotTypes DEF Layout
<1>4. KeyReply(v # Nil, v) \in Replies
  BY <1>3, KeyReplies
<1>5. Say(t, KeyReply(v # Nil, v))
  BY DEF ReadPrevious
<1>6. "return" \in PCs /\ "return" \notin WriterPCs
  BY DEF PCs, WriterPCs
<1> HIDE DEF v
<1>7. CallType'
  BY <1>1, <1>4, <1>5, <1>6, ThreadTypes, LockTypes DEF Control, CallType, counters
<1>8. Control'
  BY <1>1, <1>5, <1>6, <1>7, KeyMoves, RoutingLocks, RoutingApart, SayOthers
<1>9. QED
  BY <1>1, <1>8, QuietStep, PCOthers

\* LockActive preserves HomeInv.
LEMMA HomeLockActive ==
  ASSUME HomeInv, NEW t \in Threads, LockActive(t)
  PROVE  HomeInv'
<1> USE DEF HomeInv
<1>1. /\ pc[t] = "lock" /\ pc[t] \in KeyPCs \ {"route"} /\ pc[t] \in WriterPCs
      /\ "promote" \in KeyPCs \ {"route"} /\ "promote" \in PCs
  BY DEF LockActive, KeyPCs, PCs, WriterPCs
<1>2. CallType'
  BY <1>1, ThreadTypes, LockTypes DEF LockActive, Control, CallType, counters
<1>3. call[t].op # "get"
  BY <1>1 DEF Control, CallMatches
<1>4. Control'
  BY <1>1, <1>2, <1>3, KeyMoves, RoutingLocks, RoutingApart DEF LockActive
<1>5. QED
  BY <1>1, <1>4, QuietStep, PCOthers DEF LockActive

\* Publish preserves HomeInv.
LEMMA HomePublish ==
  ASSUME HomeInv, NEW t \in Threads, Publish(t)
  PROVE  HomeInv'
<1> USE DEF HomeInv
<1>1. /\ pc[t] = "publish" /\ pc[t] \in KeyPCs \ {"route"}
      /\ "release" \in KeyPCs \ {"route"} /\ "release" \in PCs /\ "release" \notin WriterPCs
  BY DEF Publish, KeyPCs, PCs, WriterPCs
<1>2. total_len' \in Int /\ write_epoch' \in Nat
  BY DEF Publish, ShardMutationDrop, Entries, Control, CallType
<1>3. CallType'
  BY <1>1, <1>2, ThreadTypes DEF Publish, Control, CallType, locks
<1>4. Control'
  BY <1>1, <1>3, KeyMoves DEF Publish, locks
<1>5. QED
  BY <1>1, <1>4, QuietStep, PCOthers DEF Publish

\* Release preserves HomeInv.
LEMMA HomeRelease ==
  ASSUME HomeInv, NEW t \in Threads, Release(t)
  PROVE  HomeInv'
<1> USE DEF HomeInv
<1>1. /\ pc[t] = "release" /\ pc[t] \in KeyPCs \ {"route"}
      /\ "return" \in PCs /\ "return" \notin WriterPCs
  BY DEF Release, KeyPCs, PCs, WriterPCs
<1>2. preimage' \in [Keys -> OptVal \cup {Clean}]
  BY DEF Release, Control, CallType
<1>3. CallType'
  BY <1>1, <1>2, ThreadTypes, LockTypes DEF Release, Control, CallType, counters
<1>4. Control'
  BY <1>1, <1>3, KeyMoves, RoutingLocks, RoutingApart DEF Release
<1>5. QED
  BY <1>1, <1>4, QuietStep, PCOthers DEF Release

(*****************************************************************************)
(* Steps that change slots and not the two counts.  Homes are kept if the    *)
(* previous generation only loses entries, and the active one gains them     *)
(* only in the slot their key is routed to, with the previous generation     *)
(* rid of them.                                                              *)
(*****************************************************************************)
LEMMA LayoutKept ==
  ASSUME Layout,
         UNCHANGED <<shard_count, previous_shard_count, migrating, moved_shards>>,
         shards' \in [Idx -> Shard \cup {NoShard}],
         previous_shards' \in [Idx -> Shard \cup {NoShard}],
         \A i \in Idx : i >= shard_count => shards'[i] = NoShard,
         \A i \in Idx : previous_shards[i] = NoShard => previous_shards'[i] = NoShard,
         \A i \in Idx, k \in Keys :
            Lookup(previous_shards[i], k) = Nil => Lookup(previous_shards'[i], k) = Nil,
         \A i \in Idx, k \in Keys :
            Lookup(shards'[i], k) # Nil =>
              \/ Lookup(shards[i], k) # Nil
              \/ i = shard_index(k) /\ Lookup(previous_shard(k), k)' = Nil
  PROVE  /\ Layout'
         /\ \A k \in Keys : Lookup(previous_shard(k), k) = Nil =>
                               Lookup(previous_shard(k), k)' = Nil
<1>1. DirectoryType'
  BY DEF Layout, DirectoryType
<1>2. MigrationState'
  BY DEF Layout, MigrationState, DirectoryType
<1>3. \A k \in Keys : shard_index(k)' = shard_index(k) /\ previous_index(k)' = previous_index(k)
  BY DEF shard_index, previous_index
<1>4. \A k \in Keys : Lookup(previous_shard(k), k) = Nil =>
                         Lookup(previous_shard(k), k)' = Nil
  BY <1>3, PreviousInRange DEF previous_shard, Layout
<1>5. OneHome'
  BY <1>3, <1>4 DEF OneHome, Layout
<1>6. QED
  BY <1>1, <1>2, <1>4, <1>5 DEF Layout

\* One slot of the active directory changes, under one key of that slot, with
\* the previous generation rid of the key.
LEMMA StoreKept ==
  ASSUME Layout, NEW k \in Keys, NEW v \in OptVal,
         shards' = [shards EXCEPT ![shard_index(k)] = Put(@, k, v)],
         UNCHANGED <<previous_shards, shard_count, previous_shard_count, migrating,
                     moved_shards>>,
         Lookup(previous_shard(k), k) = Nil
  PROVE  /\ Layout'
         /\ \A j \in Keys : Lookup(previous_shard(j), j) = Nil =>
                               Lookup(previous_shard(j), j)' = Nil
<1> DEFINE i == shard_index(k)
<1>1. i \in Idx /\ i \in 0..(shard_count - 1)
  BY IndexInRange DEF Layout
<1>2. /\ Put(shards[i], k, v) \in Shard
      /\ \A j \in Keys \ {k} : Put(shards[i], k, v)[j] = Lookup(shards[i], j)
  <2>1. shards[i] \in Shard \cup {NoShard}
    BY <1>1 DEF Layout, DirectoryType
  <2>2. QED
    BY <2>1 DEF Put, Lookup, Shard, EmptyShard, OptVal
<1>3. /\ shards' \in [Idx -> Shard \cup {NoShard}]
      /\ shards'[i] = Put(shards[i], k, v)
      /\ \A m \in Idx \ {i} : shards'[m] = shards[m]
  BY <1>1, <1>2 DEF Layout, DirectoryType
<1>4. \A m \in Idx : m >= shard_count => shards'[m] = NoShard
  BY <1>1, <1>3, ConfigAssumption DEF Layout, DirectoryType
<1>5. \A j \in Keys \ {k} : Lookup(shards'[i], j) = Lookup(shards[i], j)
  BY <1>2, <1>3, DistinctAssumption DEF Lookup
<1>6. UNCHANGED previous_shard(k)
  BY DEF previous_shard, previous_index
<1>7. \A m \in Idx, j \in Keys :
         Lookup(shards'[m], j) # Nil =>
           \/ Lookup(shards[m], j) # Nil
           \/ m = shard_index(j) /\ Lookup(previous_shard(j), j)' = Nil
  BY <1>3, <1>5, <1>6
<1>8. QED
  BY <1>3, <1>4, <1>7, LayoutKept DEF Layout, DirectoryType

\* InitSlot preserves HomeInv.
LEMMA HomeInitSlot ==
  ASSUME HomeInv, NEW t \in Threads, InitSlot(t)
  PROVE  HomeInv'
<1> USE DEF HomeInv
<1>1. /\ pc[t] = "init" /\ pc[t] \in KeyPCs \ {"route"} /\ pc[t] \in WriterPCs
      /\ "lock" \in KeyPCs \ {"route"} /\ "lock" \in PCs
  BY DEF InitSlot, KeyPCs, PCs, WriterPCs
<1>2. CallType'
  BY <1>1, ThreadTypes DEF InitSlot, Control, CallType, counters, locks
<1>3. call[t].op # "get" /\ Key(t) \in Keys
  BY <1>1 DEF Control, CallMatches, Key, KeyCalls
<1>4. Control'
  BY <1>1, <1>2, <1>3, KeyMoves DEF InitSlot, locks
<1> DEFINE i == shard_index(Key(t))
<1>5. i \in Idx /\ i \in 0..(shard_count - 1)
  BY <1>3, IndexInRange DEF Layout
<1>6. EmptyShard \in Shard /\ \A k \in Keys : Lookup(EmptyShard, k) = Nil
  BY DEF EmptyShard, Shard, OptVal, Lookup
<1>7. /\ shards' \in [Idx -> Shard \cup {NoShard}]
      /\ \A m \in Idx : shards'[m] = shards[m] \/ (m = i /\ shards'[m] = EmptyShard)
  BY <1>5, <1>6 DEF InitSlot, Layout, DirectoryType
<1>8. \A m \in Idx : m >= shard_count => shards'[m] = NoShard
  BY <1>5, <1>7, ConfigAssumption DEF Layout, DirectoryType
<1>9. \A m \in Idx, k \in Keys : Lookup(shards'[m], k) # Nil => Lookup(shards[m], k) # Nil
  BY <1>6, <1>7
<1>10. /\ Layout'
       /\ \A k \in Keys : Lookup(previous_shard(k), k) = Nil =>
                             Lookup(previous_shard(k), k)' = Nil
  BY <1>7, <1>8, <1>9, LayoutKept DEF InitSlot, Layout, DirectoryType
<1>11. Emptied'
  BY <1>10, PCOthers, EmptiedKept DEF InitSlot, Control
<1>12. QED
  BY <1>4, <1>10, <1>11

\* An entry leaves the previous generation, and its key's active slot changes
\* under that key only.
LEMMA MoveKept ==
  ASSUME Layout, NEW k \in Keys, NEW v \in OptVal, previous_shard(k) # NoShard,
         shards' = [shards EXCEPT ![shard_index(k)] = Put(@, k, v)],
         previous_shards' = [previous_shards EXCEPT ![previous_index(k)] = Detached(@, k)],
         UNCHANGED <<shard_count, previous_shard_count, migrating, moved_shards>>
  PROVE  /\ Layout'
         /\ Lookup(previous_shard(k), k)' = Nil
         /\ \A j \in Keys : Lookup(previous_shard(j), j) = Nil =>
                               Lookup(previous_shard(j), j)' = Nil
<1> DEFINE i == shard_index(k)
           p == previous_index(k)
<1>1. i \in Idx /\ i \in 0..(shard_count - 1)
  BY IndexInRange DEF Layout
<1>2. previous_shard_count # 0 /\ p \in Idx /\ previous_shards[p] \in Shard
  <2>1. previous_shard_count # 0 /\ previous_shards[p] # NoShard
    BY DEF previous_shard
  <2>2. p \in Idx
    BY <2>1, PreviousInRange DEF Layout
  <2>3. QED
    BY <2>1, <2>2 DEF Layout, DirectoryType
<1>3. /\ Put(shards[i], k, v) \in Shard
      /\ \A j \in Keys \ {k} : Lookup(Put(shards[i], k, v), j) = Lookup(shards[i], j)
  <2>1. shards[i] \in Shard \cup {NoShard}
    BY <1>1 DEF Layout, DirectoryType
  <2>2. QED
    BY <2>1, DistinctAssumption DEF Put, Lookup, Shard, EmptyShard, OptVal
<1>4. /\ Detached(previous_shards[p], k) \in Shard
      /\ Lookup(Detached(previous_shards[p], k), k) = Nil
      /\ \A j \in Keys : Lookup(previous_shards[p], j) = Nil =>
                            Lookup(Detached(previous_shards[p], k), j) = Nil
  BY <1>2, DistinctAssumption DEF Detached, Put, Lookup, Shard, EmptyShard, OptVal
<1> HIDE DEF i, p
<1>5. /\ shards' \in [Idx -> Shard \cup {NoShard}]
      /\ shards'[i] = Put(shards[i], k, v)
      /\ \A m \in Idx \ {i} : shards'[m] = shards[m]
  BY <1>1, <1>3 DEF Layout, DirectoryType, i
<1>6. /\ previous_shards' \in [Idx -> Shard \cup {NoShard}]
      /\ previous_shards'[p] = Detached(previous_shards[p], k)
      /\ \A m \in Idx \ {p} : previous_shards'[m] = previous_shards[m]
  BY <1>2, <1>4 DEF Layout, DirectoryType, p
<1>7. \A m \in Idx : m >= shard_count => shards'[m] = NoShard
  BY <1>1, <1>5, ConfigAssumption DEF Layout, DirectoryType
<1>8. \A m \in Idx : previous_shards[m] = NoShard => previous_shards'[m] = NoShard
  BY <1>2, <1>6, DistinctAssumption
<1>9. \A m \in Idx, j \in Keys :
         Lookup(previous_shards[m], j) = Nil => Lookup(previous_shards'[m], j) = Nil
  BY <1>4, <1>6
<1>10. Lookup(previous_shard(k), k)' = Nil
  BY <1>2, <1>4, <1>6 DEF previous_shard, previous_index, p
<1>11. \A m \in Idx, j \in Keys :
         Lookup(shards'[m], j) # Nil =>
           \/ Lookup(shards[m], j) # Nil
           \/ m = shard_index(j) /\ Lookup(previous_shard(j), j)' = Nil
  BY <1>3, <1>5, <1>10 DEF i
<1>12. QED
  BY <1>5, <1>6, <1>7, <1>8, <1>9, <1>10, <1>11, LayoutKept

\* Promote preserves HomeInv.
LEMMA HomePromote ==
  ASSUME HomeInv, NEW t \in Threads, Promote(t)
  PROVE  HomeInv'
<1> USE DEF HomeInv
<1> DEFINE k == Key(t)
           source == previous_shard(k)
           v == IF Lookup(Slot(k), k) = Nil THEN source[k] ELSE Slot(k)[k]
<1>1. /\ pc[t] = "promote" /\ pc[t] \in KeyPCs \ {"route"} /\ pc[t] \in WriterPCs
      /\ "apply" \in KeyPCs \ {"route"} /\ "apply" \in PCs
  BY DEF Promote, KeyPCs, PCs, WriterPCs
<1>2. CallType'
  BY <1>1, ThreadTypes DEF Promote, Control, CallType, counters, locks
<1>3. call[t].op # "get" /\ k \in Keys
  BY <1>1 DEF Control, CallMatches, Key, KeyCalls
<1>4. Control'
  BY <1>1, <1>2, <1>3, KeyMoves DEF Promote, locks
<1>5. /\ Layout'
      /\ Lookup(previous_shard(k), k)' = Nil
      /\ \A j \in Keys : Lookup(previous_shard(j), j) = Nil =>
                            Lookup(previous_shard(j), j)' = Nil
  <2>1. CASE Lookup(source, k) = Nil
    <3>1. UNCHANGED topology
      BY <2>1 DEF Promote, topology
    <3>2. \A j : UNCHANGED previous_shard(j)
      BY <3>1 DEF topology, previous_shard, previous_index
    <3>3. UNCHANGED k
      BY DEF Promote, Key
    <3>4. QED
      BY <2>1, <3>1, <3>2, <3>3, LayoutUnchanged
  <2>2. CASE Lookup(source, k) # Nil
    <3>1. source # NoShard /\ source[k] # Nil
      BY <2>2 DEF Lookup
    <3>2. v \in OptVal
      BY <1>3, <2>2, SlotTypes DEF Lookup, Layout
    <3>3. shards' = [shards EXCEPT ![shard_index(k)] = Put(@, k, v)]
      BY <2>2 DEF Promote, Promoted, Slot
    <3>4. UNCHANGED k
      BY DEF Promote, Key
    <3>5. QED
      BY <1>3, <2>2, <3>1, <3>2, <3>3, <3>4, MoveKept DEF Promote
  <2>3. QED
    BY <2>1, <2>2
<1>6. Emptied'
  <2>1. \A u \in Threads \ {t} : pc'[u] = pc[u]
    BY PCOthers DEF Promote
  <2>2. QED
    BY <1>3, <1>5, <2>1 DEF Emptied, Promote, Key, Control, CallMatches, KeyPCs, KeyCalls
<1>7. QED
  BY <1>4, <1>5, <1>6

\* ReplyTo answers every writing call.
LEMMA ReplyTypes ==
  ASSUME NEW c \in KeyCalls, c.op # "get", NEW old \in OptVal
  PROVE  ReplyTo(c, old) \in Replies
<1>1. c.new \in OptVal /\ c.op \in KeyOps \ {"get"} /\ Nil \in OptVal
  BY DEF KeyCalls, OptVal
<1>2. \E b \in BOOLEAN, v \in OptVal : ReplyTo(c, old) = KeyReply(b, v)
  BY <1>1 DEF ReplyTo, KeyOps
<1>3. QED
  BY <1>2, KeyReplies

\* A store under the active guard keeps the types and the homes.
LEMMA StoreStep ==
  ASSUME HomeInv, NEW t \in Threads, pc[t] = "apply", NEW v \in OptVal,
         Store(t, call[t].key, v),
         UNCHANGED <<previous_shards, shard_count, previous_shard_count, migrating,
                     moved_shards>>
  PROVE  /\ Layout'
         /\ preimage' \in [Keys -> OptVal \cup {Clean}]
         /\ \A j \in Keys : Lookup(previous_shard(j), j) = Nil =>
                               Lookup(previous_shard(j), j)' = Nil
<1> USE DEF HomeInv
<1>1. call[t].key \in Keys /\ Lookup(previous_shard(call[t].key), call[t].key) = Nil
  BY DEF Control, CallMatches, KeyPCs, KeyCalls, Emptied
<1>2. Lookup(Slot(call[t].key), call[t].key) \in OptVal
  BY <1>1, SlotTypes DEF Layout
<1>3. preimage' \in [Keys -> OptVal \cup {Clean}]
  BY <1>2 DEF Store, Control, CallType
<1>4. QED
  BY <1>1, <1>3, StoreKept DEF Store

\* Apply preserves HomeInv.
LEMMA HomeApply ==
  ASSUME HomeInv, NEW t \in Threads, Apply(t)
  PROVE  HomeInv'
<1> USE DEF HomeInv
<1> DEFINE c == call[t]
           old == Lookup(Slot(Key(t)), Key(t))
<1>1. /\ pc[t] = "apply" /\ pc[t] \in KeyPCs \ {"route"} /\ pc[t] \in WriterPCs
  BY DEF Apply, KeyPCs, WriterPCs
<1>2. /\ c \in KeyCalls /\ c.op # "get" /\ Key(t) \in Keys /\ c.new \in OptVal
      /\ Nil \in OptVal
  BY <1>1 DEF Control, CallMatches, Key, KeyCalls, OptVal
<1>3. PICK to \in {"publish", "release"} : Goto(t, to)
  BY DEF Apply
<1>4. to \in PCs /\ to \in (KeyPCs \ {"route"}) \cup {"return"} /\ to \notin WriterPCs
  BY DEF PCs, KeyPCs, WriterPCs
<1>5. ReplyTo(c, old) \in Replies
  BY <1>2, ReplyTypes, SlotTypes DEF Layout
<1>6. /\ Layout'
      /\ preimage' \in [Keys -> OptVal \cup {Clean}]
      /\ \A j \in Keys : Lookup(previous_shard(j), j) = Nil =>
                            Lookup(previous_shard(j), j)' = Nil
  <2>1. CASE \E v \in OptVal : Store(t, Key(t), v)
    BY <1>1, <2>1, StoreStep DEF Apply, Key
  <2>2. CASE UNCHANGED <<shards, preimage>>
    <3>1. UNCHANGED topology /\ preimage' \in [Keys -> OptVal \cup {Clean}]
      BY <2>2 DEF Apply, topology, Control, CallType
    <3>2. QED
      BY <3>1, LayoutUnchanged DEF topology, previous_shard, previous_index
  <2>3. QED
    BY <1>2, <2>1, <2>2 DEF Apply
<1>7. CallType'
  <2>1. Say(t, ReplyTo(c, old))
    BY DEF Apply
  <2>2. QED
    BY <1>3, <1>4, <1>5, <1>6, <2>1, ThreadTypes DEF Apply, Control, CallType, counters, locks
<1>8. Control'
  BY <1>1, <1>3, <1>4, <1>7, KeyMoves, SayOthers DEF Apply, locks
<1>9. Emptied'
  BY <1>1, <1>3, <1>6, PCOthers, EmptiedKept DEF Apply, Control
<1>10. QED
  BY <1>6, <1>8, <1>9

\* Unwind preserves HomeInv.
LEMMA HomeUnwind ==
  ASSUME HomeInv, NEW t \in Threads, Unwind(t)
  PROVE  HomeInv'
<1> USE DEF HomeInv
<1> DEFINE c == call[t]
           old == Lookup(Slot(Key(t)), Key(t))
<1>1. pc[t] \in {"lookup", "init", "promote", "apply", "read", "fallback"}
      /\ pc[t] \in KeyPCs \ {"route"}
  BY DEF Unwind, KeyPCs
<1>2. Key(t) \in Keys /\ c.new \in OptVal /\ Nil \in OptVal /\ old \in OptVal
  BY <1>1, SlotTypes DEF Control, CallMatches, Key, KeyCalls, OptVal, Layout
<1>3. PICK to \in {"publish", "release", "return"} : Goto(t, to)
  BY DEF Unwind
<1>4. to \in PCs /\ to \in (KeyPCs \ {"route"}) \cup {"return"} /\ to \notin WriterPCs
  BY DEF PCs, KeyPCs, WriterPCs
<1>5. PanickedReply \in Replies
  BY DEF Replies
<1>6. /\ Layout'
      /\ preimage' \in [Keys -> OptVal \cup {Clean}]
      /\ \A j \in Keys : Lookup(previous_shard(j), j) = Nil =>
                            Lookup(previous_shard(j), j)' = Nil
  <2>1. CASE pc[t] = "apply" /\ \E v \in OptVal : Store(t, Key(t), v)
    BY <2>1, StoreStep DEF Unwind, Key
  <2>2. CASE UNCHANGED <<shards, preimage>>
    <3>1. UNCHANGED topology /\ preimage' \in [Keys -> OptVal \cup {Clean}]
      BY <2>2 DEF Unwind, topology, Control, CallType
    <3>2. QED
      BY <3>1, LayoutUnchanged DEF topology, previous_shard, previous_index
  <2>3. QED
    BY <1>2, <2>1, <2>2 DEF Unwind
<1>7. UNCHANGED locks \/ Unlock(t, {Directory} \cup ShardLocks)
  BY DEF Unwind
<1>8. CallType'
  BY <1>3, <1>4, <1>5, <1>6, <1>7, ThreadTypes, LockTypes
     DEF Unwind, Control, CallType, counters, locks
<1>9. Control'
  BY <1>1, <1>3, <1>4, <1>7, <1>8, KeyMoves, SayOthers, RoutingLocks, RoutingApart
     DEF Unwind, locks
<1>10. Emptied'
  BY <1>1, <1>3, <1>6, PCOthers, EmptiedKept DEF Unwind, Control
<1>11. QED
  BY <1>6, <1>9, <1>10

\* A thread stays inside its snapshot call: it holds routing where it needs
\* to, and nobody else loses it.
LEMMA SnapshotMoves ==
  ASSUME Control, CallType', NEW t \in Threads, pc[t] \in SnapPCs,
         NEW to \in SnapPCs \cup {"return"}, Goto(t, to), UNCHANGED <<call, at>>,
         to = "cache" => reply'[t].tag = "snapshot",
         to \in Pinned => t \in readers'[Routing],
         \A u \in Threads \ {t} : reply'[u] = reply[u],
         \A u \in Threads \ {t} : /\ u \in readers[Routing] => u \in readers'[Routing]
                                  /\ writer[Routing] = u => writer'[Routing] = u,
         writer'[Routing] # NoThread => readers'[Routing] = {}
  PROVE  Control'
<1>1. to \in PCs
  BY DEF PCs
<1>2. to \notin TxnPCs \cup KeyPCs \cup WriterPCs \cup SweepPCs \cup {"sweep", "txn_apply"}
  BY DEF KeyPCs, TxnPCs, SnapPCs, SweepPCs, WriterPCs
<1>3. call[t] \in SnapCalls
  BY DEF Control, CallMatches
<1>4. QED
  BY <1>1, <1>2, <1>3, ThreadMoves

\* What a copy of both generations can contain.
LEMMA ItemTypes ==
  ASSUME DirectoryType
  PROVE  AllItems \in SUBSET (Keys \X Vals)
<1>1. ASSUME NEW slot \in Shard \cup {NoShard}
      PROVE  Items(slot) \in SUBSET (Keys \X Vals)
  BY DEF Items, Pairs, Shard, OptVal
<1>2. \A i \in Idx : /\ Items(shards[i]) \in SUBSET (Keys \X Vals)
                     /\ Items(previous_shards[i]) \in SUBSET (Keys \X Vals)
  BY <1>1 DEF DirectoryType
<1>3. QED
  BY <1>2 DEF AllItems

\* CheckCache preserves HomeInv.
LEMMA HomeCheckCache ==
  ASSUME HomeInv, NEW t \in Threads, CheckCache(t)
  PROVE  HomeInv'
<1> USE DEF HomeInv
<1>1. pc[t] = "cached" /\ pc[t] \in SnapPCs
  BY DEF CheckCache, SnapPCs
<1>2. PICK to \in {"gate", "return"} : Goto(t, to)
  BY DEF CheckCache
<1>3. to \in PCs /\ to \in SnapPCs \cup {"return"} /\ to \notin Pinned \cup {"cache", "apply"}
  BY DEF PCs, SnapPCs, Pinned, KeyPCs, TxnPCs
<1>4. UNCHANGED reply \/ \E r \in Replies : Say(t, r)
  BY DEF CheckCache, Hits, SnapshotReply, Replies, Control, CallType
<1>5. CallType'
  BY <1>2, <1>3, <1>4, ThreadTypes DEF CheckCache, Control, CallType, counters, locks
<1>6. Control'
  BY <1>1, <1>2, <1>3, <1>4, <1>5, SnapshotMoves, SayOthers
     DEF CheckCache, locks, Control, RoutingHeld
<1>7. QED
  BY <1>2, <1>3, <1>6, QuietStep, PCOthers DEF CheckCache

\* EnterGate preserves HomeInv.
LEMMA HomeEnterGate ==
  ASSUME HomeInv, NEW t \in Threads, EnterGate(t)
  PROVE  HomeInv'
<1> USE DEF HomeInv
<1>1. pc[t] = "gate" /\ pc[t] \in SnapPCs
  BY DEF EnterGate, SnapPCs
<1>2. PICK to \in {"pin", "recheck"} : Goto(t, to)
  BY DEF EnterGate
<1>3. to \in PCs /\ to \in SnapPCs \cup {"return"} /\ to \notin Pinned \cup {"cache", "apply"}
  BY DEF PCs, SnapPCs, Pinned, KeyPCs, TxnPCs
<1>4. CallType'
  BY <1>2, <1>3, ThreadTypes, LockTypes DEF EnterGate, Control, CallType, counters
<1>5. Control'
  BY <1>1, <1>2, <1>3, <1>4, SnapshotMoves, RoutingLocks, RoutingApart
     DEF EnterGate, Control, RoutingHeld
<1>6. QED
  BY <1>2, <1>3, <1>5, QuietStep, PCOthers DEF EnterGate

\* Recheck preserves HomeInv.
LEMMA HomeRecheck ==
  ASSUME HomeInv, NEW t \in Threads, Recheck(t)
  PROVE  HomeInv'
<1> USE DEF HomeInv
<1>1. pc[t] = "recheck" /\ pc[t] \in SnapPCs
  BY DEF Recheck, SnapPCs
<1>2. PICK to \in {"pin", "return"} : Goto(t, to)
  BY DEF Recheck
<1>3. to \in PCs /\ to \in SnapPCs \cup {"return"} /\ to \notin Pinned \cup {"cache", "apply"}
  BY DEF PCs, SnapPCs, Pinned, KeyPCs, TxnPCs
<1>4. UNCHANGED reply \/ \E r \in Replies : Say(t, r)
  BY DEF Recheck, Hits, SnapshotReply, Replies, Control, CallType
<1>5. UNCHANGED locks \/ Unlock(t, {Gate})
  BY DEF Recheck
<1>6. CallType'
  BY <1>2, <1>3, <1>4, <1>5, ThreadTypes, LockTypes
     DEF Recheck, Control, CallType, counters, locks
<1>7. Control'
  BY <1>1, <1>2, <1>3, <1>4, <1>5, <1>6, SnapshotMoves, SayOthers, RoutingLocks, RoutingApart
     DEF Recheck, locks, Control, RoutingHeld
<1>8. QED
  BY <1>2, <1>3, <1>7, QuietStep, PCOthers DEF Recheck

\* Pin preserves HomeInv.
LEMMA HomePin ==
  ASSUME HomeInv, NEW t \in Threads, PinRouting(t) \/ PinDirectory(t)
  PROVE  HomeInv'
<1> USE DEF HomeInv
<1>1. PICK to \in {"pin_directory", "guards"} : Goto(t, to)
  BY DEF PinRouting, PinDirectory
<1>2. to \in PCs /\ to \in SnapPCs \cup {"return"} /\ to \notin {"cache", "apply"}
  BY DEF PCs, SnapPCs
<1>3. /\ pc[t] \in {"pin", "pin_directory"} /\ pc[t] \in SnapPCs
      /\ UNCHANGED <<topology, counters, snapshot_cache, call, reply, at, cut, preimage>>
  BY DEF PinRouting, PinDirectory, SnapPCs
<1>4. ReadLock(t, Routing) \/ (ReadLock(t, Directory) /\ t \in readers[Routing])
  BY DEF PinRouting, PinDirectory, Control, RoutingHeld, Pinned
<1>5. CallType'
  BY <1>1, <1>2, <1>3, <1>4, ThreadTypes, LockTypes DEF Control, CallType, counters
<1>6. Control'
  BY <1>1, <1>2, <1>3, <1>4, <1>5, SnapshotMoves, RoutingLocks, RoutingApart
     DEF Control, RoutingHeld
<1>7. QED
  BY <1>1, <1>2, <1>3, <1>6, QuietStep, PCOthers

\* GuardNext preserves HomeInv.
LEMMA HomeGuardNext ==
  ASSUME HomeInv, NEW t \in Threads, GuardNext(t)
  PROVE  HomeInv'
<1> USE DEF HomeInv
<1>1. pc[t] = "guards" /\ pc[t] \in SnapPCs /\ pc[t] \in PCs
  BY DEF GuardNext, SnapPCs, PCs
<1>2. Goto(t, "guards")
  BY <1>1 DEF GuardNext, Goto, Control, CallType
<1>3. PICK l : ReadLock(t, l) /\ l # Routing
  BY DEF GuardNext, Unguarded, Initialized, Active, Previous, Routing
<1>4. CallType'
  BY <1>3, LockTypes DEF GuardNext, Control, CallType, counters
<1>5. t \in readers[Routing]
  BY <1>1 DEF Control, RoutingHeld, Pinned
<1>6. Control'
  BY <1>1, <1>2, <1>3, <1>4, <1>5, SnapshotMoves, RoutingLocks
     DEF GuardNext, Control, RoutingHeld
<1>7. QED
  BY <1>1, <1>6, QuietStep DEF GuardNext

\* LoadEpoch preserves HomeInv.
LEMMA HomeLoadEpoch ==
  ASSUME HomeInv, NEW t \in Threads, LoadEpoch(t)
  PROVE  HomeInv'
<1> USE DEF HomeInv
<1>1. /\ pc[t] = "guards" /\ pc[t] \in SnapPCs
      /\ "collect" \in SnapPCs \cup {"return"} /\ "collect" \in PCs
  BY DEF LoadEpoch, SnapPCs, PCs
<1>2. CallType'
  BY <1>1, ThreadTypes DEF LoadEpoch, Control, CallType, counters, locks
<1>3. t \in readers[Routing]
  BY <1>1 DEF Control, RoutingHeld, Pinned
<1>4. Control'
  BY <1>1, <1>2, <1>3, SnapshotMoves DEF LoadEpoch, locks, Control, RoutingHeld
<1>5. QED
  BY <1>1, <1>4, QuietStep, PCOthers DEF LoadEpoch

\* Collect preserves HomeInv.
LEMMA HomeCollect ==
  ASSUME HomeInv, NEW t \in Threads, Collect(t)
  PROVE  HomeInv'
<1> USE DEF HomeInv
<1> DEFINE r == SnapshotReply(cut[t], AllItems)
<1>1. pc[t] = "collect" /\ pc[t] \in SnapPCs
  BY DEF Collect, SnapPCs
<1>2. PICK to \in {"return", "cache"} : Goto(t, to)
  BY DEF Collect
<1>3. to \in PCs /\ to \in SnapPCs \cup {"return"} /\ to \notin Pinned \cup {"apply"}
  BY DEF PCs, SnapPCs, Pinned, KeyPCs, TxnPCs
<1>4. r \in Replies /\ r.tag = "snapshot" /\ Say(t, r)
  BY ItemTypes DEF Collect, SnapshotReply, Replies, Control, CallType, Layout
<1>5. PICK L : Unlock(t, L) /\ Routing \in L
  BY DEF Collect
<1> HIDE DEF r
<1>6. cut' \in [Threads -> Nat]
  BY DEF Collect, Control, CallType
<1>7. CallType'
  BY <1>2, <1>3, <1>4, <1>5, <1>6, ThreadTypes, LockTypes
     DEF Collect, Control, CallType, counters
<1>8. reply'[t] = r /\ \A u \in Threads \ {t} : reply'[u] = reply[u]
  BY <1>4 DEF Say, Control, CallType
<1>9. UNCHANGED <<call, at, topology>>
  BY DEF Collect
<1>10. /\ \A u \in Threads \ {t} : /\ u \in readers[Routing] => u \in readers'[Routing]
                                   /\ writer[Routing] = u => writer'[Routing] = u
       /\ writer'[Routing] # NoThread => readers'[Routing] = {}
  BY <1>5, RoutingLocks DEF Control, RoutingHeld
<1>11. Control'
  BY <1>1, <1>2, <1>3, <1>4, <1>7, <1>8, <1>9, <1>10, SnapshotMoves
<1>12. QED
  BY <1>2, <1>3, <1>9, <1>11, QuietStep, PCOthers

\* SnapshotUnwind preserves HomeInv.
LEMMA HomeSnapshotUnwind ==
  ASSUME HomeInv, NEW t \in Threads, SnapshotUnwind(t)
  PROVE  HomeInv'
<1> USE DEF HomeInv
<1>1. /\ pc[t] = "collect" /\ pc[t] \in SnapPCs
      /\ "return" \in PCs /\ "return" \notin Pinned /\ PanickedReply \in Replies
      /\ Routing \in Locks
  BY DEF SnapshotUnwind, SnapPCs, PCs, Pinned, KeyPCs, TxnPCs, Replies, Locks
<1>2. cut' \in [Threads -> Nat]
  BY DEF SnapshotUnwind, Control, CallType
<1>3. CallType'
  BY <1>1, <1>2, ThreadTypes, LockTypes DEF SnapshotUnwind, Control, CallType, counters
<1>4. Control'
  BY <1>1, <1>3, SnapshotMoves, RoutingLocks, SayOthers
     DEF SnapshotUnwind, Control, RoutingHeld
<1>5. QED
  BY <1>4, QuietStep, PCOthers DEF SnapshotUnwind

\* FillCache preserves HomeInv.
LEMMA HomeFillCache ==
  ASSUME HomeInv, NEW t \in Threads, FillCache(t)
  PROVE  HomeInv'
<1> USE DEF HomeInv
<1>1. /\ pc[t] = "cache" /\ pc[t] \in SnapPCs
      /\ "return" \in PCs /\ "return" \notin Pinned
  BY DEF FillCache, SnapPCs, PCs, Pinned, KeyPCs, TxnPCs
<1>2. reply[t] \in [tag : {"snapshot"}, epoch : Nat, items : SUBSET (Keys \X Vals)]
  <2>1. reply[t] \in Replies /\ reply[t].tag = "snapshot"
    BY <1>1 DEF Control, CallType, CallMatches
  <2>2. QED
    BY <2>1 DEF Replies, NoReply, DoneReply, PanickedReply
<1>3. snapshot_cache' \in SUBSET [epoch : Nat, items : SUBSET (Keys \X Vals)]
  BY <1>2 DEF FillCache, Control, CallType
<1>4. CallType'
  BY <1>1, <1>3, ThreadTypes, LockTypes DEF FillCache, Control, CallType, counters
<1>5. Control'
  BY <1>1, <1>4, SnapshotMoves, RoutingLocks, RoutingApart
     DEF FillCache, Control, RoutingHeld
<1>6. QED
  BY <1>5, QuietStep, PCOthers DEF FillCache

\* A thread stays inside its transaction, and routing does not change.
LEMMA TxnMoves ==
  ASSUME Control, CallType', NEW t \in Threads, pc[t] \in TxnPCs \ {"txn_route"},
         NEW to \in (TxnPCs \ {"txn_route"}) \cup {"return"}, Goto(t, to), UNCHANGED call,
         \A u \in Threads \ {t} : reply'[u] = reply[u] /\ at'[u] = at[u],
         to = "txn_apply" => at'[t] # 0,
         readers'[Routing] = readers[Routing], writer'[Routing] = writer[Routing]
  PROVE  Control'
<1>1. to \in PCs
  BY DEF PCs
<1>2. to \notin KeyPCs \cup SnapPCs \cup SweepPCs \cup WriterPCs \cup {"sweep", "cache"}
  BY DEF KeyPCs, TxnPCs, SnapPCs, SweepPCs, WriterPCs
<1>3. call[t] \in TxnCalls /\ t \in readers[Routing]
  BY DEF Control, CallMatches, RoutingHeld, Pinned
<1>4. QED
  BY <1>1, <1>2, <1>3, ThreadMoves DEF Control, RoutingHeld

\* TxnRouting preserves HomeInv.
LEMMA HomeTxnRouting ==
  ASSUME HomeInv, NEW t \in Threads, TxnRouting(t)
  PROVE  HomeInv'
<1> USE DEF HomeInv
<1>1. /\ "txn_resolve" \in PCs /\ "txn_resolve" \in TxnPCs
      /\ "txn_resolve" \notin KeyPCs \cup SnapPCs \cup SweepPCs \cup WriterPCs
  BY DEF PCs, TxnPCs, KeyPCs, SnapPCs, SweepPCs, WriterPCs
<1>2. CallType'
  BY <1>1, ThreadTypes, LockTypes DEF TxnRouting, Control, CallType, counters
<1>3. call[t] \in TxnCalls
  BY DEF TxnRouting, Control, CallMatches, TxnPCs
<1>4. Control'
  BY <1>1, <1>2, <1>3, ThreadMoves, RoutingLocks DEF TxnRouting
<1>5. QED
  BY <1>4, QuietStep, PCOthers DEF TxnRouting

\* TxnResolve preserves HomeInv.
LEMMA HomeTxnResolve ==
  ASSUME HomeInv, NEW t \in Threads, TxnResolve(t)
  PROVE  HomeInv'
<1> USE DEF HomeInv
<1>1. pc[t] = "txn_resolve" /\ pc[t] \in TxnPCs \ {"txn_route"}
  BY DEF TxnResolve, TxnPCs
<1>2. PICK to \in {"txn_resolve", "txn_lock"} : Goto(t, to)
  BY <1>1 DEF TxnResolve, Goto, Control, CallType
<1>3. to \in PCs /\ to \in (TxnPCs \ {"txn_route"}) \cup {"return"} /\ to # "txn_apply"
  BY DEF PCs, TxnPCs
<1>4. CallType'
  BY <1>2, <1>3, ThreadTypes DEF TxnResolve, Control, CallType, counters, locks
<1>5. Control'
  BY <1>1, <1>2, <1>3, <1>4, TxnMoves DEF TxnResolve, locks
<1>6. EmptyShard \in Shard /\ \A k \in Keys : Lookup(EmptyShard, k) = Nil
  BY DEF EmptyShard, Shard, OptVal, Lookup
<1>7. \A k \in TxnKeys(t) : k \in Keys
  <2>1. call[t].steps \in Seq(TxnSteps)
    BY <1>1 DEF Control, CallMatches, TxnCalls
  <2>2. \A i \in DOMAIN call[t].steps : call[t].steps[i] \in TxnSteps
    BY <2>1
  <2>3. QED
    BY <2>2 DEF TxnKeys, TxnSteps
<1>8. /\ shards' \in [Idx -> Shard \cup {NoShard}]
      /\ \A m \in Idx : \/ shards'[m] = shards[m]
                        \/ m < shard_count /\ shards'[m] = EmptyShard
  <2>1. CASE UNCHANGED shards
    BY <2>1 DEF Layout, DirectoryType
  <2>2. CASE \E i \in Vacant(t) : shards' = [shards EXCEPT ![i] = EmptyShard]
    <3>1. PICK i \in Vacant(t) : shards' = [shards EXCEPT ![i] = EmptyShard]
      BY <2>2
    <3>2. i \in Idx /\ i \in 0..(shard_count - 1)
      BY <1>7, IndexInRange DEF Vacant, Layout
    <3>3. i < shard_count
      BY <3>2, ConfigAssumption DEF Layout, DirectoryType
    <3>4. QED
      BY <1>6, <3>1, <3>2, <3>3 DEF Layout, DirectoryType
  <2>3. QED
    BY <2>1, <2>2 DEF TxnResolve
<1>9. \A m \in Idx : m >= shard_count => shards'[m] = NoShard
  <2>1. \A m \in Idx : m \in Nat /\ shard_count \in Nat
    BY ConfigAssumption DEF Idx, Layout, DirectoryType
  <2>2. QED
    BY <1>8, <2>1 DEF Layout, DirectoryType
<1>10. \A m \in Idx, k \in Keys : Lookup(shards'[m], k) # Nil => Lookup(shards[m], k) # Nil
  BY <1>6, <1>8
<1>11. /\ Layout'
       /\ \A k \in Keys : Lookup(previous_shard(k), k) = Nil =>
                             Lookup(previous_shard(k), k)' = Nil
  BY <1>8, <1>9, <1>10, LayoutKept DEF TxnResolve, Layout, DirectoryType
<1>12. Emptied'
  BY <1>2, <1>11, PCOthers, EmptiedKept DEF TxnResolve, Control
<1>13. QED
  BY <1>5, <1>11, <1>12

\* TxnAbort preserves HomeInv.
LEMMA HomeTxnAbort ==
  ASSUME HomeInv, NEW t \in Threads, TxnAbort(t)
  PROVE  HomeInv'
<1> USE DEF HomeInv
<1>1. /\ pc[t] = "txn_resolve" /\ pc[t] \in TxnPCs \ {"txn_route"}
      /\ "return" \in PCs /\ PanickedReply \in Replies
  BY DEF TxnAbort, TxnPCs, PCs, Replies
<1>2. CallType'
  BY <1>1, ThreadTypes DEF TxnAbort, Control, CallType, counters, locks
<1>3. Control'
  BY <1>1, <1>2, TxnMoves, SayOthers DEF TxnAbort, locks
<1>4. QED
  BY <1>3, QuietStep, PCOthers DEF TxnAbort

\* TxnLock preserves HomeInv.
LEMMA HomeTxnLock ==
  ASSUME HomeInv, NEW t \in Threads, TxnLock(t)
  PROVE  HomeInv'
<1> USE DEF HomeInv
<1>1. pc[t] = "txn_lock" /\ pc[t] \in TxnPCs \ {"txn_route"}
  BY DEF TxnLock, TxnPCs
<1>2. PICK to \in {"txn_lock", "txn_apply"} :
         /\ Goto(t, to)
         /\ at' \in [Threads -> Nat] /\ \A u \in Threads \ {t} : at'[u] = at[u]
         /\ to = "txn_apply" => at'[t] # 0
  BY <1>1 DEF TxnLock, Goto, Control, CallType
<1>3. to \in PCs /\ to \in (TxnPCs \ {"txn_route"}) \cup {"return"} /\ to # "apply"
  BY DEF PCs, TxnPCs
<1>4. \A l \in TxnLocks(t) : l # Routing
  BY RoutingApart DEF TxnLocks
<1>5. UNCHANGED locks \/ \E l : l # Routing /\ WriteLock(t, l)
  BY <1>4 DEF TxnLock, Wanted
<1>6. CallType'
  BY <1>2, <1>3, <1>5, ThreadTypes, LockTypes DEF TxnLock, Control, CallType, counters, locks
<1>7. Control'
  BY <1>1, <1>2, <1>3, <1>5, <1>6, TxnMoves, RoutingLocks DEF TxnLock, locks
<1>8. QED
  BY <1>2, <1>3, <1>7, QuietStep, PCOthers DEF TxnLock

\* TxnApply preserves HomeInv.
LEMMA HomeTxnApply ==
  ASSUME HomeInv, NEW t \in Threads, TxnApply(t)
  PROVE  HomeInv'
<1> USE DEF HomeInv
<1> DEFINE step == call[t].steps[at[t]]
           k == step.key
           source == previous_shard(k)
           new == CASE step.op = "read"   -> Stored(k)
                    [] step.op = "write"  -> step.new
                    [] step.op = "remove" -> Nil
<1>1. pc[t] = "txn_apply" /\ pc[t] \in TxnPCs \ {"txn_route"} /\ pc[t] \in PCs
  BY DEF TxnApply, TxnPCs, PCs
<1>2. Goto(t, "txn_apply")
  BY <1>1 DEF TxnApply, Goto, Control, CallType
<1>0. at[t] <= Len(call[t].steps) /\ at' = [at EXCEPT ![t] = @ + 1]
  BY DEF TxnApply
<1>3. step \in TxnSteps
  <2>1. call[t].steps \in Seq(TxnSteps) /\ at[t] \in Nat \ {0}
    BY <1>1 DEF Control, CallType, CallMatches, TxnCalls
  <2>2. at[t] \in 1..Len(call[t].steps)
    BY <2>1, <1>0
  <2>3. QED
    BY <2>1, <2>2
<1>4. k \in Keys /\ step.op \in {"read", "write", "remove"} /\ step.new \in OptVal
  BY <1>3 DEF TxnSteps
<1>5. Stored(k) \in OptVal /\ Nil \in OptVal
  BY <1>4, SlotTypes DEF Layout, OptVal
<1>6. new \in OptVal
  BY <1>4, <1>5
<1>7. /\ shards' = [shards EXCEPT ![shard_index(k)] = Put(@, k, new)]
      /\ previous_shards' = IF source = NoShard THEN previous_shards
                            ELSE [previous_shards EXCEPT ![previous_index(k)] = Detached(@, k)]
      /\ preimage' = [preimage EXCEPT ![k] = IF @ = Clean THEN Stored(k) ELSE @]
      /\ ShardMutationDrop(Stored(k), new, step.op = "write")
      /\ UNCHANGED <<shard_count, previous_shard_count, migrating, moved_shards,
                     snapshot_cache, locks, call, reply, cut>>
  BY DEF TxnApply
<1> HIDE DEF new
<1>8. /\ Layout'
      /\ \A j \in Keys : Lookup(previous_shard(j), j) = Nil =>
                            Lookup(previous_shard(j), j)' = Nil
  <2>1. CASE source = NoShard
    <3>1. Lookup(previous_shard(k), k) = Nil
      BY <2>1 DEF Lookup
    <3>2. QED
      BY <1>4, <1>6, <1>7, <2>1, <3>1, StoreKept
  <2>2. CASE source # NoShard
    BY <1>4, <1>6, <1>7, <2>2, MoveKept
  <2>3. QED
    BY <2>1, <2>2
<1>9. CallType'
  <2>1. preimage' \in [Keys -> OptVal \cup {Clean}]
    BY <1>4, <1>5, <1>7 DEF Control, CallType
  <2>2. total_len' \in Int /\ write_epoch' \in Nat
    BY <1>7, SMTT(30) DEF ShardMutationDrop, Entries, Control, CallType
  <2>3. at' \in [Threads -> Nat]
    BY <1>0 DEF Control, CallType
  <2>4. QED
    BY <1>7, <2>1, <2>2, <2>3 DEF TxnApply, Control, CallType, locks
<1>10. at'[t] # 0 /\ \A u \in Threads \ {t} : at'[u] = at[u]
  BY <1>0 DEF Control, CallType
<1>11. Control'
  BY <1>1, <1>2, <1>7, <1>9, <1>10, TxnMoves DEF locks
<1>12. Emptied'
  BY <1>1, <1>2, <1>7, <1>8, PCOthers, EmptiedKept DEF Control
<1>13. QED
  BY <1>8, <1>11, <1>12

\* TxnEnd preserves HomeInv.
LEMMA HomeTxnEnd ==
  ASSUME HomeInv, NEW t \in Threads, TxnCommit(t) \/ TxnUnwind(t)
  PROVE  HomeInv'
<1> USE DEF HomeInv
<1>1. /\ pc[t] = "txn_apply" /\ pc[t] \in TxnPCs \ {"txn_route"}
      /\ "return" \in PCs
  BY DEF TxnCommit, TxnUnwind, TxnPCs, PCs
<1>2. PICK r \in Replies : TxnEnd(t, r)
  BY DEF TxnCommit, TxnUnwind, Replies
<1>3. write_epoch' \in Nat
  BY DEF TxnCommit, TxnUnwind, Control, CallType
<1>4. /\ preimage' \in [Keys -> OptVal \cup {Clean}]
      /\ at' \in [Threads -> Nat] /\ \A u \in Threads \ {t} : at'[u] = at[u]
  BY <1>2 DEF TxnEnd, Control, CallType
<1>5. CallType'
  BY <1>1, <1>2, <1>3, <1>4, ThreadTypes, LockTypes DEF TxnEnd, Control, CallType
<1>6. Control'
  BY <1>1, <1>2, <1>4, <1>5, TxnMoves, RoutingLocks, RoutingApart, SayOthers DEF TxnEnd
<1>7. QED
  BY <1>2, <1>6, QuietStep, PCOthers DEF TxnEnd

\* Nobody who uses indices is under way while routing has no readers.
LEMMA NobodyPinned ==
  ASSUME Control, readers[Routing] = {}
  PROVE  \A u \in Threads : pc[u] \notin Pinned /\ pc[u] # "apply"
BY DEF Control, RoutingHeld, Pinned, KeyPCs

\* SweepRouting preserves HomeInv.
LEMMA HomeSweepRouting ==
  ASSUME HomeInv, NEW t \in Threads, SweepRouting(t)
  PROVE  HomeInv'
<1> USE DEF HomeInv
<1>1. /\ "sweep" \in PCs /\ "sweep" \in SweepPCs
      /\ "sweep" \notin KeyPCs \cup SnapPCs \cup TxnPCs \cup WriterPCs \cup Pinned
  BY DEF PCs, TxnPCs, KeyPCs, SnapPCs, SweepPCs, WriterPCs, Pinned
<1>2. CallType'
  BY <1>1, ThreadTypes, LockTypes DEF SweepRouting, Control, CallType, counters
<1>3. call[t] \in SweepCalls
  BY DEF SweepRouting, Control, CallMatches, SweepPCs
<1>4. \A u \in Threads : writer[Routing] # u
  BY RoutingLocks, DistinctAssumption DEF SweepRouting
<1>5. Control'
  BY <1>1, <1>2, <1>3, <1>4, ThreadMoves, RoutingLocks DEF SweepRouting
<1>6. QED
  BY <1>5, QuietStep, PCOthers DEF SweepRouting

\* Taking keys out of a slot.
LEMMA RemoveHelpers ==
  ASSUME NEW slot \in Shard, NEW gone
  PROVE  /\ Remove(slot, gone) \in Shard
         /\ \A k \in Keys : Lookup(slot, k) = Nil => Lookup(Remove(slot, gone), k) = Nil
BY DistinctAssumption DEF Remove, Shard, OptVal, Lookup

\* SweepShard preserves HomeInv.
LEMMA HomeSweepShard ==
  ASSUME HomeInv, NEW t \in Threads, SweepShard(t)
  PROVE  HomeInv'
<1> USE DEF HomeInv
<1>1. pc[t] = "sweep" /\ UNCHANGED <<pc, locks, call, reply, at, cut, snapshot_cache>>
      /\ UNCHANGED <<shard_count, previous_shard_count, migrating, moved_shards>>
  BY DEF SweepShard
<1>2. PICK l \in ShardLocks, gone \in SUBSET Keys :
         /\ Condemned(t, l) # {}
         /\ preimage' = [k \in Keys |-> IF k \in gone /\ preimage[k] = Clean
                                        THEN SlotOf(l)[k] ELSE preimage[k]]
         /\ IF l[1] = "active"
            THEN /\ shards' = [shards EXCEPT ![l[2]] = Remove(@, gone)]
                 /\ UNCHANGED previous_shards
            ELSE /\ previous_shards' = [previous_shards EXCEPT ![l[2]] = Remove(@, gone)]
                 /\ UNCHANGED shards
         /\ record_write(Cardinality(gone))
  BY DEF SweepShard
<1>3. l[2] \in Idx /\ l[1] \in {"active", "previous"}
  BY DEF ShardLocks
<1>4. SlotOf(l) \in Shard
  <2>1. SlotOf(l) # NoShard
    BY <1>2 DEF Condemned, Present
  <2>2. QED
    BY <1>3, <2>1 DEF SlotOf, Layout, DirectoryType
<1>5. /\ Remove(SlotOf(l), gone) \in Shard
      /\ \A k \in Keys : Lookup(SlotOf(l), k) = Nil => Lookup(Remove(SlotOf(l), gone), k) = Nil
  BY <1>4, RemoveHelpers
<1>6. preimage' \in [Keys -> OptVal \cup {Clean}]
  BY <1>2, <1>4 DEF Shard, Control, CallType
<1>7. total_len' \in Int /\ write_epoch' \in Nat
  <2>1. Cardinality(gone) \in Nat
    BY ConfigAssumption, FS_Subset, FS_CardinalityType
  <2>2. QED
    BY <1>2, <2>1 DEF record_write, Control, CallType
<1>8. Control'
  BY <1>1, <1>6, <1>7 DEF Control, CallType, CallMatches, RoutingHeld, locks
<1>9. readers[Routing] = {}
  BY <1>1, DistinctAssumption DEF Control, RoutingHeld
<1>10. Emptied'
  BY <1>1, <1>9, NobodyPinned DEF Emptied
<1>11. Layout'
  <2>1. CASE l[1] = "active"
    <3>1. SlotOf(l) = shards[l[2]]
      BY <2>1 DEF SlotOf
    <3>2. /\ shards' \in [Idx -> Shard \cup {NoShard}] /\ UNCHANGED previous_shards
          /\ \A m \in Idx : \/ shards'[m] = shards[m]
                            \/ m = l[2] /\ shards'[m] = Remove(SlotOf(l), gone)
      BY <1>2, <1>3, <1>5, <2>1, <3>1 DEF Layout, DirectoryType
    <3>3. \A m \in Idx : m >= shard_count => shards'[m] = NoShard
      BY <1>4, <3>1, <3>2, DistinctAssumption DEF Layout, DirectoryType
    <3>4. \A m \in Idx, k \in Keys : Lookup(shards'[m], k) # Nil => Lookup(shards[m], k) # Nil
      BY <1>5, <3>1, <3>2
    <3>5. QED
      BY <1>1, <3>2, <3>3, <3>4, LayoutKept DEF Layout, DirectoryType
  <2>2. CASE l[1] = "previous"
    <3>1. SlotOf(l) = previous_shards[l[2]]
      BY <2>2 DEF SlotOf
    <3>2. /\ previous_shards' \in [Idx -> Shard \cup {NoShard}] /\ UNCHANGED shards
          /\ \A m \in Idx : \/ previous_shards'[m] = previous_shards[m]
                            \/ m = l[2] /\ previous_shards'[m] = Remove(SlotOf(l), gone)
      BY <1>2, <1>3, <1>5, <2>2, <3>1 DEF Layout, DirectoryType
    <3>3. \A m \in Idx : previous_shards[m] = NoShard => previous_shards'[m] = NoShard
      BY <1>4, <3>1, <3>2, DistinctAssumption
    <3>4. \A m \in Idx, k \in Keys :
             Lookup(previous_shards[m], k) = Nil => Lookup(previous_shards'[m], k) = Nil
      BY <1>5, <3>1, <3>2
    <3>5. QED
      BY <1>1, <3>2, <3>3, <3>4, LayoutKept DEF Layout, DirectoryType
  <2>3. QED
    BY <1>3, <2>1, <2>2
<1>12. QED
  BY <1>8, <1>10, <1>11

\* The previous generation is dropped with the end of a migration.
LEMMA HomeSweepEnd ==
  ASSUME HomeInv, NEW t \in Threads, SweepFinish(t) \/ SweepUnwind(t)
  PROVE  HomeInv'
<1> USE DEF HomeInv
<1>1. /\ pc[t] = "sweep" /\ "return" \in PCs
      /\ "return" \notin KeyPCs \cup WriterPCs \cup TxnPCs \cup SnapPCs \cup SweepPCs \cup Pinned
  BY DEF SweepFinish, SweepUnwind, PCs, KeyPCs, WriterPCs, TxnPCs, SnapPCs, SweepPCs, Pinned
<1>2. PICK r \in Replies : SweepEnd(t, r)
  BY DEF SweepFinish, SweepUnwind, Replies
<1>3. CallType'
  <2>1. preimage' \in [Keys -> OptVal \cup {Clean}]
    BY <1>2 DEF SweepEnd
  <2>2. QED
    BY <1>1, <1>2, <2>1, ThreadTypes, LockTypes DEF SweepEnd, Control, CallType, counters
<1>4. readers[Routing] = {} /\ writer[Routing] = t
  BY <1>1, DistinctAssumption DEF Control, RoutingHeld
<1>5. Control'
  BY <1>1, <1>2, <1>3, <1>4, ThreadMoves, RoutingLocks, SayOthers DEF SweepEnd
<1>6. Emptied'
  BY <1>2, <1>4, PCOthers, NobodyPinned DEF SweepEnd, Emptied
<1>7. Layout'
  <2>1. CASE UNCHANGED topology
    BY <2>1, LayoutUnchanged
  <2>2. CASE /\ previous_shards' = [i \in Idx |-> NoShard] /\ previous_shard_count' = 0
             /\ migrating' = FALSE /\ moved_shards' = 0
             /\ UNCHANGED <<shards, shard_count>>
    <3>1. DirectoryType'
      BY <2>2 DEF Layout, DirectoryType
    <3>2. MigrationState'
      BY <2>2 DEF MigrationState
    <3>3. OneHome'
      BY <2>2 DEF Layout, OneHome, Lookup, previous_shard, shard_index
    <3>4. QED
      BY <3>1, <3>2, <3>3 DEF Layout
  <2>3. QED
    BY <1>2, <2>1, <2>2 DEF SweepFinish, SweepUnwind, SweepEnd, topology
<1>8. QED
  BY <1>5, <1>6, <1>7

\* Layout changes run while no thread is pinned, and touch no thread.
LEMMA MigrationQuiet ==
  ASSUME HomeInv, Exclusive, Layout',
         UNCHANGED <<counters, snapshot_cache, locks, pc, call, reply, at, cut, preimage>>
  PROVE  HomeInv'
<1> USE DEF HomeInv
<1>1. Control'
  BY DEF Control, CallType, CallMatches, RoutingHeld, locks, counters
<1>2. Emptied'
  BY NobodyPinned DEF Emptied, Exclusive, Available
<1>3. QED
  BY <1>1, <1>2

\* StartRebalance preserves HomeInv.
LEMMA HomeStartRebalance ==
  ASSUME HomeInv, NEW target \in Counts, StartRebalance(target)
  PROVE  HomeInv'
<1> USE DEF HomeInv
<1>1. previous_shard_count = 0 /\ shard_count \in Nat /\ shard_count > 0
  BY ConfigAssumption DEF StartRebalance, Layout, MigrationState, DirectoryType
<1>2. DirectoryType'
  BY <1>1 DEF StartRebalance, Layout, DirectoryType
<1>3. MigrationState'
  <2>1. \A i \in Idx : i \in Nat
    BY ConfigAssumption DEF Idx
  <2>2. /\ migrating' = TRUE /\ previous_shard_count' = shard_count
        /\ moved_shards' = 0
    BY DEF StartRebalance
  <2>3. QED
    BY <1>1, <2>1, <2>2 DEF MigrationState
<1>4. OneHome'
  <2>1. \A k \in Keys : previous_index(k)' = shard_index(k)
    BY DEF StartRebalance, previous_index, shard_index
  <2>2. QED
    BY <1>1, <2>1 DEF StartRebalance, Layout, OneHome, Lookup
<1>5. QED
  BY <1>2, <1>3, <1>4, MigrationQuiet DEF StartRebalance, Layout

(*****************************************************************************)
(* The end of a turn of the batch loop: the drained slot, and with the last  *)
(* one the generation, is dropped.                                           *)
(*****************************************************************************)
LEMMA AfterSourceKept ==
  ASSUME Layout, migrating, NEW s \in Shard \cup {NoShard}, AfterSource(moved_shards, s)
  PROVE  /\ moved_shards \in Idx
         /\ previous_shards' \in [Idx -> Shard \cup {NoShard}]
         /\ previous_shard_count' \in Counts \cup {0}
         /\ \A i \in Idx : i >= previous_shard_count' => previous_shards'[i] = NoShard
         /\ migrating' \in BOOLEAN /\ moved_shards' \in Nat
         /\ MigrationState'
         /\ \A i \in Idx, k \in Keys :
              Lookup(previous_shards'[i], k) # Nil =>
                /\ previous_shard_count' = previous_shard_count
                /\ Lookup(IF i = moved_shards THEN s ELSE previous_shards[i], k) # Nil
<1>1. /\ previous_shard_count \in Nat /\ previous_shard_count \in Counts
      /\ moved_shards \in Nat /\ moved_shards < previous_shard_count
  BY ConfigAssumption DEF Layout, DirectoryType, MigrationState
<1>2. moved_shards \in Idx /\ Idx \subseteq Nat
  BY <1>1, ConfigAssumption DEF Idx
<1>3. CASE ~IsEmpty(s)
  <2>1. /\ previous_shards' = [previous_shards EXCEPT ![moved_shards] = s]
        /\ UNCHANGED <<previous_shard_count, migrating, moved_shards>>
    BY <1>3 DEF AfterSource
  <2>2. /\ previous_shards' \in [Idx -> Shard \cup {NoShard}]
        /\ previous_shards'[moved_shards] = s
        /\ \A i \in Idx \ {moved_shards} : previous_shards'[i] = previous_shards[i]
    BY <1>2, <2>1 DEF Layout, DirectoryType
  <2>3. \A i \in Idx : i >= previous_shard_count => previous_shards'[i] = NoShard
    BY <1>1, <1>2, <2>2 DEF Layout, DirectoryType
  <2>4. MigrationState'
    BY <1>1, <1>2, <2>1, <2>2 DEF Layout, MigrationState
  <2>5. QED
    BY <1>2, <2>1, <2>2, <2>3, <2>4 DEF Layout, DirectoryType
<1>4. CASE IsEmpty(s)
  <2>1. /\ previous_shards' = [previous_shards EXCEPT ![moved_shards] = NoShard]
        /\ previous_shard_count' = IF LastSource THEN 0 ELSE previous_shard_count
        /\ migrating' = ~LastSource
        /\ moved_shards' = IF LastSource THEN 0 ELSE moved_shards + 1
    BY <1>4 DEF AfterSource
  <2>2. /\ previous_shards' \in [Idx -> Shard \cup {NoShard}]
        /\ previous_shards'[moved_shards] = NoShard
        /\ \A i \in Idx \ {moved_shards} : previous_shards'[i] = previous_shards[i]
    BY <1>2, <2>1 DEF Layout, DirectoryType
  <2>3. \A i \in Idx : i <= moved_shards => previous_shards'[i] = NoShard
    BY <1>1, <1>2, <2>2 DEF Layout, MigrationState
  <2>4. \A i \in Idx : i >= previous_shard_count => previous_shards'[i] = NoShard
    BY <1>1, <1>2, <2>2 DEF Layout, DirectoryType
  <2>5. \A i \in Idx, k \in Keys :
          Lookup(previous_shards'[i], k) # Nil =>
             Lookup(IF i = moved_shards THEN s ELSE previous_shards[i], k) # Nil
    BY <2>2 DEF Lookup
  <2>6. CASE LastSource
    <3>1. previous_shard_count' = 0 /\ migrating' = FALSE /\ moved_shards' = 0
      BY <2>1, <2>6
    <3>2. \A i \in Idx : previous_shards'[i] = NoShard
      BY <1>1, <1>2, <2>3, <2>4, <2>6 DEF LastSource
    <3>3. MigrationState'
      BY <3>1, <3>2 DEF MigrationState
    <3>4. \A i \in Idx, k \in Keys : Lookup(previous_shards'[i], k) = Nil
      BY <3>2 DEF Lookup
    <3>5. QED
      BY <1>2, <2>2, <3>1, <3>2, <3>3, <3>4
  <2>7. CASE ~LastSource
    <3>1. /\ previous_shard_count' = previous_shard_count /\ migrating' = TRUE
          /\ moved_shards' = moved_shards + 1
      BY <2>1, <2>7
    <3>2. moved_shards + 1 < previous_shard_count
      BY <1>1, <2>7 DEF LastSource
    <3>3. MigrationState'
      BY <1>1, <1>2, <2>3, <3>1, <3>2 DEF MigrationState
    <3>4. moved_shards' \in Nat
      BY <1>1, <3>1
    <3>5. QED
      BY <1>1, <1>2, <2>2, <2>4, <2>5, <3>1, <3>3, <3>4
  <2>8. QED
    BY <2>6, <2>7
<1>5. QED
  BY <1>3, <1>4

\* If an entry's move is the only gain of the active generation, homes are kept.
LEMMA HomeMigrateEntry ==
  ASSUME HomeInv, MigrateEntry
  PROVE  HomeInv'
<1> USE DEF HomeInv
<1> DEFINE i == moved_shards
           source == previous_shards[i]
<1>1. migrating /\ Exclusive /\ UNCHANGED shard_count
  BY DEF MigrateEntry
<1>2. i \in Idx /\ source \in Shard \cup {NoShard}
  <2>1. /\ previous_shard_count \in Nat /\ previous_shard_count \in Counts
        /\ moved_shards \in Nat /\ moved_shards < previous_shard_count
    BY <1>1, ConfigAssumption DEF Layout, DirectoryType, MigrationState
  <2>2. i \in Idx
    BY <2>1 DEF Idx
  <2>3. QED
    BY <2>2 DEF Layout, DirectoryType
<1>3. \A k \in Keys : shard_index(k)' = shard_index(k)
  BY <1>1 DEF shard_index
<1>4. ASSUME NEW s \in Shard \cup {NoShard}, AfterSource(i, s),
             \A k \in Keys : Lookup(s, k) # Nil => Lookup(source, k) # Nil
      PROVE  /\ \A m \in Idx, k \in Keys :
                  Lookup(previous_shards'[m], k) # Nil =>
                    /\ previous_shard_count' = previous_shard_count
                    /\ Lookup(previous_shards[m], k) # Nil
             /\ \A k \in Keys : Lookup(previous_shard(k), k) = Nil =>
                                   Lookup(previous_shard(k), k)' = Nil
  <2>1. \A m \in Idx, k \in Keys :
           Lookup(previous_shards'[m], k) # Nil =>
             /\ previous_shard_count' = previous_shard_count
             /\ Lookup(previous_shards[m], k) # Nil
    BY <1>1, <1>4, AfterSourceKept
  <2>2. \A k \in Keys : Lookup(NoShard, k) = Nil
    BY DEF Lookup
  <2>3. ASSUME NEW k \in Keys, Lookup(previous_shard(k), k)' # Nil
        PROVE  Lookup(previous_shard(k), k) # Nil
    <3>1. previous_shard_count' # 0 /\ Lookup(previous_shards'[previous_index(k)'], k) # Nil
      BY <2>2, <2>3 DEF previous_shard
    <3>2. CASE previous_shard_count' = previous_shard_count
      <4>1. previous_index(k)' = previous_index(k) /\ previous_index(k) \in Idx
        BY <3>1, <3>2, PreviousInRange DEF previous_index, Layout
      <4>2. QED
        BY <2>1, <3>1, <3>2, <4>1 DEF previous_shard
    <3>3. CASE previous_shard_count' # previous_shard_count
      BY <1>4, <3>1, <3>3 DEF AfterSource
    <3>4. QED
      BY <3>2, <3>3
  <2>4. QED
    BY <2>1, <2>3
<1>5. CASE IsEmpty(source)
  <2>1. UNCHANGED shards /\ AfterSource(i, source)
    BY <1>5 DEF MigrateEntry
  <2>2. DirectoryType' /\ MigrationState'
    BY <1>1, <1>2, <2>1, AfterSourceKept DEF Layout, DirectoryType
  <2>3. OneHome'
    BY <1>2, <1>3, <1>4, <2>1 DEF Layout, OneHome, previous_index
  <2>4. QED
    BY <1>1, <2>2, <2>3, MigrationQuiet DEF MigrateEntry, Layout
<1>6. CASE ~IsEmpty(source)
  <2>1. PICK k \in Keys :
           /\ source[k] # Nil
           /\ shards' = [shards EXCEPT ![shard_index(k)] = Promoted(@, source, k)]
           /\ AfterSource(i, Detached(source, k))
    BY <1>6 DEF MigrateEntry
  <2>2. source \in Shard /\ source # NoShard
    BY <1>2, <1>6 DEF IsEmpty
  <2>3. /\ Detached(source, k) \in Shard
        /\ Lookup(Detached(source, k), k) = Nil
        /\ \A j \in Keys : Lookup(Detached(source, k), j) # Nil => Lookup(source, j) # Nil
    BY <2>2, DistinctAssumption DEF Detached, Put, Lookup, Shard, EmptyShard, OptVal
  <2>4. i = previous_index(k) /\ previous_shard_count # 0
    BY <1>2, <2>1, <2>2 DEF Layout, OneHome, Lookup
  <2>5. shard_index(k) \in Idx /\ shard_index(k) \in 0..(shard_count - 1)
    BY IndexInRange DEF Layout
  <2>6. /\ Promoted(Slot(k), source, k) \in Shard
        /\ \A j \in Keys \ {k} : Lookup(Promoted(Slot(k), source, k), j) = Lookup(Slot(k), j)
    <3>1. Slot(k) \in Shard \cup {NoShard}
      BY SlotTypes DEF Layout
    <3>2. PICK v \in OptVal : Promoted(Slot(k), source, k) = Put(Slot(k), k, v)
      BY <2>2, <3>1 DEF Promoted, Lookup, Shard
    <3>3. QED
      BY <3>1, <3>2, DistinctAssumption DEF Put, Lookup, Shard, EmptyShard, OptVal
  <2>7. /\ shards' \in [Idx -> Shard \cup {NoShard}]
        /\ \A m \in Idx \ {shard_index(k)} : shards'[m] = shards[m]
        /\ shards'[shard_index(k)] = Promoted(Slot(k), source, k)
    BY <2>1, <2>5, <2>6 DEF Layout, DirectoryType, Slot
  <2>8. \A m \in Idx : m >= shard_count => shards'[m] = NoShard
    BY <2>5, <2>7, ConfigAssumption DEF Layout, DirectoryType
  <2>9. DirectoryType' /\ MigrationState'
    BY <1>1, <2>1, <2>3, <2>7, <2>8, AfterSourceKept DEF Layout, DirectoryType
  <2>10. Lookup(previous_shard(k), k)' = Nil
    <3>1. Lookup(previous_shards'[i], k) = Nil
      BY <1>1, <1>2, <2>1, <2>3, AfterSourceKept
    <3>2. CASE previous_shard_count' = 0
      BY <3>2 DEF previous_shard, Lookup
    <3>3. CASE previous_shard_count' = previous_shard_count
      BY <2>4, <3>1, <3>3 DEF previous_shard, previous_index, Lookup
    <3>4. QED
      BY <2>1, <3>2, <3>3 DEF AfterSource
  <2>11. OneHome'
    <3>1. \A m \in Idx, j \in Keys :
             Lookup(shards'[m], j) # Nil =>
               m = shard_index(j) /\ Lookup(previous_shard(j), j)' = Nil
      <4>1. \A m \in Idx, j \in Keys : Lookup(shards'[m], j) # Nil =>
              Lookup(shards[m], j) # Nil \/ (m = shard_index(k) /\ j = k)
        BY <2>6, <2>7 DEF Slot
      <4>2. \A j \in Keys : Lookup(previous_shard(j), j) = Nil =>
                               Lookup(previous_shard(j), j)' = Nil
        BY <1>4, <2>1, <2>3
      <4>3. QED
        BY <2>10, <4>1, <4>2 DEF Layout, OneHome
    <3>2. \A m \in Idx, j \in Keys :
            Lookup(previous_shards'[m], j) # Nil =>
              previous_shard_count' # 0 /\ m = previous_index(j)'
      BY <1>4, <2>1, <2>3, <2>4 DEF Layout, OneHome, previous_index
    <3>3. QED
      BY <1>3, <3>1, <3>2 DEF OneHome
  <2>12. QED
    BY <1>1, <2>9, <2>11, MigrationQuiet DEF MigrateEntry, Layout
<1>7. QED
  BY <1>5, <1>6

\* StopTheWorld preserves HomeInv.
LEMMA HomeStopTheWorld ==
  ASSUME HomeInv, NEW target \in Counts, StopTheWorld(target)
  PROVE  HomeInv'
<1> USE DEF HomeInv
<1>1. /\ shards' = Staged(target) /\ previous_shards' = [i \in Idx |-> NoShard]
      /\ previous_shard_count' = 0 /\ shard_count' = target
      /\ migrating' = FALSE /\ moved_shards' = 0
  BY DEF StopTheWorld
<1>2. \A k \in Keys : Stored(k) \in OptVal
  BY SlotTypes DEF Layout
<1>3. \A k \in Keys : Hash[k] % target \in 0..(target - 1)
  <2>1. target \in Nat /\ target > 0 /\ \A k \in Keys : Hash[k] \in Nat
    BY ConfigAssumption
  <2>2. QED
    BY <2>1
<1>4. /\ Staged(target) \in [Idx -> Shard \cup {NoShard}]
      /\ \A i \in Idx, k \in Keys : Lookup(Staged(target)[i], k) # Nil => Hash[k] % target = i
      /\ \A i \in Idx : i >= target => Staged(target)[i] = NoShard
  <2> DEFINE routed(i) == {k \in Keys : Hash[k] % target = i /\ Stored(k) # Nil}
             image(i) == [k \in Keys |-> IF k \in routed(i) THEN Stored(k) ELSE Nil]
  <2>1. \A i \in Idx : Staged(target)[i] = IF routed(i) = {} THEN NoShard ELSE image(i)
    BY DEF Staged
  <2>2. \A i \in Idx : image(i) \in Shard
    BY <1>2 DEF Shard, OptVal
  <2>3. Staged(target) \in [Idx -> Shard \cup {NoShard}]
    BY <2>1, <2>2 DEF Staged
  <2>4. \A i \in Idx, k \in Keys : Lookup(Staged(target)[i], k) # Nil => k \in routed(i)
    BY <2>1 DEF Lookup
  <2>5. \A i \in Idx : i >= target => routed(i) = {}
    <3>1. \A i \in Idx : i \in Nat
      BY ConfigAssumption DEF Idx
    <3>2. target \in Nat
      BY ConfigAssumption
    <3>3. QED
      BY <1>3, <3>1, <3>2
  <2>6. QED
    BY <2>1, <2>3, <2>4, <2>5
<1>5. DirectoryType'
  BY <1>1, <1>4 DEF DirectoryType
<1>6. MigrationState'
  BY <1>1 DEF MigrationState
<1>7. OneHome'
  BY <1>1, <1>4 DEF OneHome, shard_index, previous_shard, Lookup
<1>8. QED
  BY <1>5, <1>6, <1>7, MigrationQuiet DEF StopTheWorld, Layout

\* Every step keeps the invariant.
LEMMA HomeNext ==
  ASSUME HomeInv, [Next]_vars
  PROVE  HomeInv'
<1>1. ASSUME NEW t \in Threads, NEW c \in Calls, Invoke(t, c) PROVE HomeInv'
  BY <1>1, HomeInvoke
<1>2. ASSUME NEW t \in Threads, KeyStep(t) PROVE HomeInv'
  BY <1>2, HomeAcquireRouting, HomeFindSlot, HomeInitSlot, HomeReadActive, HomeReadPrevious,
     HomeLockActive, HomePromote, HomeApply, HomeUnwind, HomePublish, HomeRelease DEF KeyStep
<1>3. ASSUME NEW t \in Threads, TxnStep(t) PROVE HomeInv'
  BY <1>3, HomeTxnRouting, HomeTxnResolve, HomeTxnAbort, HomeTxnLock, HomeTxnApply,
     HomeTxnEnd DEF TxnStep
<1>4. ASSUME NEW t \in Threads, SnapshotStep(t) PROVE HomeInv'
  BY <1>4, HomeCheckCache, HomeEnterGate, HomeRecheck, HomePin, HomeGuardNext, HomeLoadEpoch,
     HomeCollect, HomeSnapshotUnwind, HomeFillCache DEF SnapshotStep
<1>5. ASSUME NEW t \in Threads, SweepStep(t) PROVE HomeInv'
  BY <1>5, HomeSweepRouting, HomeSweepShard, HomeSweepEnd DEF SweepStep
<1>6. ASSUME NEW t \in Threads, Return(t) PROVE HomeInv'
  BY <1>6, HomeReturn
<1>7. ASSUME MigrationStep PROVE HomeInv'
  BY <1>7, HomeStartRebalance, HomeStopTheWorld, HomeMigrateEntry DEF MigrationStep
<1>8. ASSUME UNCHANGED vars PROVE HomeInv'
  <2>1. Layout'
    BY <1>8, LayoutUnchanged DEF vars, HomeInv
  <2>2. Control'
    BY <1>8 DEF vars, HomeInv, Control, CallType, CallMatches, RoutingHeld, locks, counters
  <2>3. Emptied'
    BY <1>8, EmptiedUnchanged DEF vars, HomeInv, Control
  <2>4. QED
    BY <2>1, <2>2, <2>3 DEF HomeInv
<1>9. QED
  BY <1>1, <1>2, <1>3, <1>4, <1>5, <1>6, <1>7, <1>8 DEF Next

\* The invariant holds throughout.
THEOREM HomeAlways == Spec => []HomeInv
<1>1. Init => HomeInv
  BY HomeInit
<1>2. HomeInv /\ [Next]_vars => HomeInv'
  BY HomeNext
<1>3. QED
  BY <1>1, <1>2, PTL DEF Spec

\* Every state has the declared shape; in particular no slot is ever indexed
\* outside a directory (shard_index, previous_shard).
THEOREM TypeCorrect == Spec => []TypeOK
<1>1. HomeInv => TypeOK
  BY DEF HomeInv, Layout, Control, TypeOK
<1>2. QED
  BY <1>1, HomeAlways, PTL

\* Every entry is where its key is routed and in one generation only, whatever
\* calls, promotions, panics and migrations interleave (promote_entry, move_one).
THEOREM EntriesHaveOneHome == Spec => []OneHome
<1>1. HomeInv => OneHome
  BY DEF HomeInv, Layout
<1>2. QED
  BY <1>1, HomeAlways, PTL

\* The tracker reports a migration exactly as long as lookups consult the
\* previous generation, and drained slots are gone (advance_rebalance_inner,
\* clear, rebalance_to).
THEOREM MigrationTracked == Spec => []MigrationState
<1>1. HomeInv => MigrationState
  BY DEF HomeInv, Layout
<1>2. QED
  BY <1>1, HomeAlways, PTL

-----------------------------------------------------------------------------
(*****************************************************************************)
(* Which locks a thread holds where it stands, and what it knows of the      *)
(* slots it reached through them.                                            *)
(*****************************************************************************)
\* From LockActive to Release a writer holds its key's active shard.
Guarding == {"promote", "apply", "publish", "release"}

Home(t) == Active(shard_index(Key(t)))

Exclusion == \A l \in Locks : writer[l] # NoThread => readers[l] = {}

KeyHolds(t) ==
  /\ pc[t] \in Guarding => writer[Home(t)] = t
  /\ pc[t] \in Guarding \cup {"lock", "read"} => Slot(Key(t)) # NoShard
  /\ pc[t] = "fallback" =>
       \/ t \in readers[Directory] /\ Slot(Key(t)) = NoShard
       \/ /\ t \in readers[Home(t)] /\ Slot(Key(t)) # NoShard
          /\ Lookup(Slot(Key(t)), Key(t)) = Nil

TxnHolds(t) ==
  /\ pc[t] \in {"txn_lock", "txn_apply"} => \A k \in TxnKeys(t) : Slot(k) # NoShard
  /\ pc[t] = "txn_apply" => \A k \in TxnKeys(t) : writer[Active(shard_index(k))] = t

BuilderHolds(t) ==
  /\ pc[t] \in {"guards", "collect"} => t \in readers[Directory]
  /\ pc[t] = "collect" => Unguarded(t) = {}

Holds(t) == KeyHolds(t) /\ TxnHolds(t) /\ BuilderHolds(t)

LocksHeld == Exclusion /\ \A t \in Threads : Holds(t)

(*****************************************************************************)
(* Steps of one thread: the other threads stay where they are, at most one   *)
(* lock operation happens, and a slot changes only under its write lock, or  *)
(* from uninitialized to initialized under the directory's.                  *)
(*****************************************************************************)
OthersStay(t) == \A u \in Threads \ {t} : pc'[u] = pc[u] /\ call'[u] = call[u]

LockStep(t) ==
  \/ UNCHANGED locks
  \/ \E l : ReadLock(t, l) \/ WriteLock(t, l)
  \/ \E L : Unlock(t, L)

SlotStep(t) ==
  /\ UNCHANGED <<shard_count, previous_shard_count>>
  /\ \A i \in Idx :
       \/ shards'[i] = shards[i]
       \/ shards[i] # NoShard /\ shards'[i] # NoShard /\ writer[Active(i)] = t
       \/ shards[i] = NoShard /\ Available(Directory)
  /\ \A i \in Idx : (previous_shards'[i] = NoShard) <=> (previous_shards[i] = NoShard)

\* A step that leaves the directories alone respects the locks.
LEMMA SlotStepQuiet ==
  ASSUME UNCHANGED topology
  PROVE  \A t : SlotStep(t)
BY DEF topology, SlotStep

\* Taking or dropping locks takes nothing from the others.
LEMMA OthersKeepLocks ==
  ASSUME CallType, Exclusion, NEW t \in Threads, LockStep(t)
  PROVE  /\ Exclusion'
         /\ \A u \in Threads \ {t}, l \in Locks :
              /\ u \in readers[l] => u \in readers'[l]
              /\ writer[l] = u => writer'[l] = u
<1>1. CASE UNCHANGED locks
  BY <1>1 DEF locks, Exclusion
<1>2. ASSUME NEW l, ReadLock(t, l)
      PROVE  /\ Exclusion'
             /\ \A u \in Threads \ {t}, m \in Locks :
                  /\ u \in readers[m] => u \in readers'[m]
                  /\ writer[m] = u => writer'[m] = u
  BY <1>2 DEF CallType, Exclusion, ReadLock, Readable
<1>3. ASSUME NEW l, WriteLock(t, l)
      PROVE  /\ Exclusion'
             /\ \A u \in Threads \ {t}, m \in Locks :
                  /\ u \in readers[m] => u \in readers'[m]
                  /\ writer[m] = u => writer'[m] = u
  BY <1>3, DistinctAssumption DEF CallType, Exclusion, WriteLock, Available
<1>4. ASSUME NEW L, Unlock(t, L)
      PROVE  /\ Exclusion'
             /\ \A u \in Threads \ {t}, m \in Locks :
                  /\ u \in readers[m] => u \in readers'[m]
                  /\ writer[m] = u => writer'[m] = u
  <2>1. \A m \in Locks :
          /\ readers'[m] = IF m \in L THEN readers[m] \ {t} ELSE readers[m]
          /\ writer'[m] = IF m \in L /\ writer[m] = t THEN NoThread ELSE writer[m]
    BY <1>4 DEF Unlock
  <2>2. QED
    BY <2>1 DEF Exclusion
<1>5. QED
  BY <1>1, <1>2, <1>3, <1>4 DEF LockStep

\* Locks of different things differ.
LEMMA LockNames ==
  /\ Directory \in Locks /\ Routing \in Locks /\ Gate \in Locks
  /\ \A i \in Idx : Active(i) \in Locks /\ Active(i) \in ShardLocks
  /\ \A i \in Idx : Previous(i) \in Locks /\ Previous(i) \in ShardLocks
  /\ \A i, j \in Idx : Active(i) # Directory /\ Active(i) # Previous(j)
  /\ Directory \notin ShardLocks /\ Gate \notin ShardLocks
BY DEF Locks, ShardLocks, Directory, Routing, Gate, Active, Previous

\* The keys of a transaction are keys.
LEMMA TxnKeysTyped ==
  ASSUME NEW t \in Threads, call[t] \in TxnCalls
  PROVE  /\ call[t].steps \in Seq(TxnSteps)
         /\ \A i \in 1..Len(call[t].steps) : call[t].steps[i] \in TxnSteps
         /\ TxnKeys(t) \subseteq Keys
<1>1. call[t].steps \in Seq(TxnSteps)
  BY DEF TxnCalls
<1>2. \A i \in 1..Len(call[t].steps) : call[t].steps[i] \in TxnSteps
  BY <1>1
<1>3. QED
  BY <1>1, <1>2 DEF TxnKeys, TxnSteps

\* Nobody's holdings are touched by another thread's step.
LEMMA OthersHold ==
  ASSUME HomeInv, LocksHeld, NEW t \in Threads, OthersStay(t), LockStep(t), SlotStep(t)
  PROVE  /\ Exclusion'
         /\ \A u \in Threads \ {t} : Holds(u)'
<1> USE DEF HomeInv
<1>1. /\ Exclusion'
      /\ \A u \in Threads \ {t}, l \in Locks :
           /\ u \in readers[l] => u \in readers'[l]
           /\ writer[l] = u => writer'[l] = u
  BY OthersKeepLocks DEF Control, LocksHeld
<1> SUFFICES ASSUME NEW u \in Threads \ {t}
             PROVE  Holds(u)'
  BY <1>1
<1>2. Holds(u) /\ pc'[u] = pc[u] /\ call'[u] = call[u] /\ UNCHANGED <<Key(u), TxnKeys(u)>>
  BY DEF LocksHeld, OthersStay, Key, TxnKeys
<1>3. \A k \in Keys : UNCHANGED <<shard_index(k), previous_index(k)>>
                      /\ shard_index(k) \in Idx /\ Active(shard_index(k)) \in Locks
  BY IndexInRange, LockNames DEF SlotStep, shard_index, previous_index, Layout
<1>4. \A k \in Keys : Slot(k) # NoShard => Slot(k)' # NoShard
  BY <1>3 DEF SlotStep, Slot
<1>5. KeyHolds(u)'
  <2>1. CASE pc[u] \in Guarding \cup {"lock", "read", "fallback"}
    <3>1. Key(u) \in Keys
      BY <2>1 DEF Guarding, Control, CallMatches, KeyPCs, KeyCalls, Key
    <3>2. UNCHANGED Home(u) /\ Home(u) \in Locks
      BY <1>2, <1>3, <3>1 DEF Home
    <3>3. CASE pc[u] # "fallback"
      BY <1>1, <1>2, <1>4, <3>1, <3>2, <3>3 DEF Holds, KeyHolds
    <3>4. CASE pc[u] = "fallback"
      <4>1. CASE u \in readers[Directory] /\ Slot(Key(u)) = NoShard
        <5>1. u \in readers'[Directory]
          BY <1>1, <4>1, LockNames
        <5>2. ~Available(Directory)
          BY <4>1 DEF Available
        <5>3. UNCHANGED Slot(Key(u))
          BY <1>2, <1>3, <3>1, <4>1, <5>2 DEF SlotStep, Slot
        <5>4. QED
          BY <1>2, <3>4, <4>1, <5>1, <5>3 DEF KeyHolds, Guarding
      <4>2. CASE /\ u \in readers[Home(u)] /\ Slot(Key(u)) # NoShard
                 /\ Lookup(Slot(Key(u)), Key(u)) = Nil
        <5>1. u \in readers'[Home(u)]
          BY <1>1, <3>2, <4>2
        <5>2. writer[Home(u)] # t
          BY <3>2, <4>2, DistinctAssumption DEF LocksHeld, Exclusion
        <5>3. UNCHANGED Slot(Key(u))
          BY <1>2, <1>3, <3>1, <4>2, <5>2 DEF SlotStep, Slot, Home
        <5>4. QED
          BY <1>2, <3>2, <3>4, <4>2, <5>1, <5>3 DEF KeyHolds, Guarding
      <4>3. QED
        BY <1>2, <3>4, <4>1, <4>2 DEF Holds, KeyHolds
    <3>5. QED
      BY <3>3, <3>4
  <2>2. CASE pc[u] \notin Guarding \cup {"lock", "read", "fallback"}
    BY <1>2, <2>2 DEF KeyHolds, Guarding
  <2>3. QED
    BY <2>1, <2>2
<1>6. TxnHolds(u)'
  <2>1. CASE pc[u] \in TxnPCs
    <3>1. TxnKeys(u) \subseteq Keys
      BY <2>1, TxnKeysTyped DEF Control, CallMatches
    <3>2. QED
      BY <1>1, <1>2, <1>3, <1>4, <3>1 DEF Holds, TxnHolds
  <2>2. CASE pc[u] \notin TxnPCs
    BY <1>2, <2>2 DEF TxnHolds, TxnPCs
  <2>3. QED
    BY <2>1, <2>2
<1>7. BuilderHolds(u)'
  <2>1. ASSUME pc[u] \in {"guards", "collect"}
        PROVE  u \in readers[Directory] /\ u \in readers'[Directory]
    BY <1>1, <1>2, <2>1, LockNames DEF Holds, BuilderHolds
  <2>2. ASSUME pc[u] = "collect"
        PROVE  Unguarded(u)' = {}
    <3>1. ~Available(Directory)
      BY <2>1, <2>2 DEF Available
    <3>2. Initialized' \subseteq Initialized
      BY <3>1 DEF Initialized, SlotStep
    <3>3. Initialized \subseteq Locks
      BY LockNames DEF Initialized
    <3>4. \A l \in Initialized : u \in readers[l]
      BY <1>2, <2>2 DEF Holds, BuilderHolds, Unguarded
    <3>5. QED
      BY <1>1, <3>2, <3>3, <3>4 DEF Unguarded
  <2>3. QED
    BY <1>2, <2>1, <2>2 DEF BuilderHolds
<1>8. QED
  BY <1>5, <1>6, <1>7 DEF Holds

\* Where a thread needs to hold nothing but routing.
Bare == PCs \ (Guarding \cup {"lock", "read", "fallback", "txn_lock", "txn_apply",
                              "guards", "collect"})

\* Where no lock is needed there is nothing to hold.
LEMMA BareHolds ==
  ASSUME NEW t, pc[t] \in Bare
  PROVE  Holds(t)
BY DEF Bare, Guarding, Holds, KeyHolds, TxnHolds, BuilderHolds

\* A thread that goes where it needs no lock.
LEMMA GoesBare ==
  ASSUME HomeInv, LocksHeld, NEW t \in Threads, OthersStay(t), LockStep(t), SlotStep(t),
         pc'[t] \in Bare
  PROVE  LocksHeld'
<1>1. Exclusion' /\ \A u \in Threads \ {t} : Holds(u)'
  BY OthersHold
<1>2. Holds(t)'
  BY DEF Bare, Guarding, Holds, KeyHolds, TxnHolds, BuilderHolds
<1>3. QED
  BY <1>1, <1>2 DEF LocksHeld

\* Nobody holds anything while routing has no readers.
LEMMA NobodyHolds ==
  ASSUME Control, readers[Routing] = {}
  PROVE  \A u \in Threads : pc[u] \in Bare
<1>1. \A u \in Threads : pc[u] \notin Pinned /\ pc[u] \in PCs
  BY NobodyPinned DEF Control, CallType
<1>2. QED
  BY <1>1 DEF Bare, Guarding, Pinned, KeyPCs, TxnPCs

\* In the beginning nobody holds anything.
LEMMA LocksInit == Init => LocksHeld
<1> SUFFICES ASSUME Init PROVE LocksHeld
  OBVIOUS
<1>1. Exclusion
  BY DEF Init, Exclusion
<1>2. \A t \in Threads : pc[t] \in Bare
  BY DEF Init, Bare, PCs, Guarding
<1>3. QED
  BY <1>1, <1>2, BareHolds DEF LocksHeld

\* Calls and returns, and the steps of a key call that end without a guard.
LEMMA LocksPlain ==
  ASSUME HomeInv, LocksHeld, NEW t \in Threads,
         \/ \E c \in Calls : Invoke(t, c)
         \/ Return(t) \/ AcquireRouting(t) \/ ReadPrevious(t) \/ Release(t)
         \/ CheckCache(t) \/ EnterGate(t) \/ Recheck(t) \/ PinRouting(t)
         \/ Collect(t) \/ SnapshotUnwind(t) \/ FillCache(t)
         \/ TxnRouting(t) \/ TxnAbort(t) \/ TxnCommit(t) \/ TxnUnwind(t)
  PROVE  LocksHeld'
<1> USE DEF HomeInv
<1>1. PICK to \in Bare : Goto(t, to)
  <2>1. {"idle", "return", "lookup", "gate", "pin", "recheck", "pin_directory", "cache",
         "txn_resolve"} \subseteq Bare
    BY DEF Bare, PCs, KeyPCs, SnapPCs, TxnPCs, Guarding
  <2>2. ASSUME NEW c \in Calls, Invoke(t, c)
        PROVE  \E to \in Bare : Goto(t, to)
    <3>1. c \in AllCalls
      BY CallsAssumption
    <3>2. FirstStep(c) \in {"route", "txn_route", "cached", "gate", "exclusive"}
      BY <3>1 DEF AllCalls, KeyCalls, TxnCalls, SnapCalls, SweepCalls, FirstStep, KeyOps
    <3>3. FirstStep(c) \in Bare
      BY <3>2 DEF Bare, PCs, KeyPCs, SnapPCs, TxnPCs, SweepPCs, Guarding
    <3>4. QED
      BY <2>2, <3>3 DEF Invoke
  <2>3. QED
    BY <2>1, <2>2 DEF Return, AcquireRouting, ReadPrevious, Release, CheckCache, EnterGate,
       Recheck, PinRouting, Collect, SnapshotUnwind, FillCache, TxnRouting, TxnAbort,
       TxnCommit, TxnUnwind, TxnEnd
<1>2. pc'[t] \in Bare /\ OthersStay(t)
  <2>1. \A u \in Threads \ {t} : call'[u] = call[u]
    BY DEF Invoke, Return, AcquireRouting, ReadPrevious, Release, CheckCache, EnterGate,
       Recheck, PinRouting, Collect, SnapshotUnwind, FillCache, TxnRouting, TxnAbort,
       TxnCommit, TxnUnwind, TxnEnd, Control, CallType
  <2>2. QED
    BY <1>1, <2>1, PCOthers DEF OthersStay
<1>3. LockStep(t)
  BY DEF Invoke, Return, AcquireRouting, ReadPrevious, Release, CheckCache, EnterGate,
     Recheck, PinRouting, Collect, SnapshotUnwind, FillCache, TxnRouting, TxnAbort,
     TxnCommit, TxnUnwind, TxnEnd, LockStep
<1>4. UNCHANGED topology
  BY DEF Invoke, Return, AcquireRouting, ReadPrevious, Release, CheckCache, EnterGate,
     Recheck, PinRouting, Collect, SnapshotUnwind, FillCache, TxnRouting, TxnAbort,
     TxnCommit, TxnUnwind, TxnEnd
<1>5. QED
  BY <1>2, <1>3, <1>4, SlotStepQuiet, GoesBare

\* The thread of a key call works under one key.
LEMMA KeyTyped ==
  ASSUME HomeInv, NEW t \in Threads, pc[t] \in KeyPCs
  PROVE  /\ Key(t) \in Keys /\ call[t] \in KeyCalls
         /\ shard_index(Key(t)) \in Idx /\ Home(t) \in Locks
<1>1. Key(t) \in Keys /\ call[t] \in KeyCalls
  BY DEF HomeInv, Control, CallMatches, KeyCalls, Key
<1>2. QED
  BY <1>1, IndexInRange, LockNames DEF HomeInv, Layout, Home

\* FindSlot keeps the directory only for the fallback to a vacant slot.
LEMMA LocksFindSlot ==
  ASSUME HomeInv, LocksHeld, NEW t \in Threads, FindSlot(t)
  PROVE  LocksHeld'
<1>1. /\ pc[t] = "lookup" /\ UNCHANGED <<topology, call>>
      /\ Key(t) \in Keys /\ UNCHANGED <<Key(t), Slot(Key(t))>>
  BY KeyTyped DEF FindSlot, KeyPCs, topology, Key, Slot, shard_index
<1>2. PICK to \in {"read", "lock", "fallback", "return", "init"} :
        /\ Goto(t, to)
        /\ to \in {"read", "lock"} => Slot(Key(t)) # NoShard
        /\ to = "fallback" => Slot(Key(t)) = NoShard /\ ReadLock(t, Directory)
  BY DEF FindSlot, HoldForFallback
<1>3. pc'[t] = to /\ OthersStay(t)
  BY <1>1, <1>2, PCOthers DEF OthersStay, HomeInv
<1>4. LockStep(t)
  BY DEF FindSlot, HoldForFallback, LockStep
<1>5. Exclusion' /\ \A u \in Threads \ {t} : Holds(u)'
  BY <1>1, <1>3, <1>4, SlotStepQuiet, OthersHold
<1>6. to = "fallback" => t \in readers'[Directory]
  BY <1>2, LockNames DEF ReadLock, HomeInv, Control, CallType
<1>7. Holds(t)'
  BY <1>1, <1>2, <1>3, <1>6 DEF Holds, KeyHolds, TxnHolds, BuilderHolds, Guarding
<1>8. QED
  BY <1>5, <1>7 DEF LocksHeld

\* InitSlot fills a slot that nobody else stands on.
LEMMA LocksInitSlot ==
  ASSUME HomeInv, LocksHeld, NEW t \in Threads, InitSlot(t)
  PROVE  LocksHeld'
<1>1. /\ pc[t] = "init" /\ Goto(t, "lock") /\ UNCHANGED <<locks, call>>
      /\ Key(t) \in Keys /\ shard_index(Key(t)) \in Idx
      /\ UNCHANGED <<previous_shards, shard_count, previous_shard_count>>
  BY KeyTyped DEF InitSlot, KeyPCs
<1>2. pc'[t] = "lock" /\ OthersStay(t) /\ LockStep(t)
  BY <1>1, PCOthers DEF OthersStay, LockStep, HomeInv
<1>3. EmptyShard # NoShard
  BY DistinctAssumption DEF EmptyShard, Shard, OptVal
<1>4. \A i \in Idx : \/ shards'[i] = shards[i]
                     \/ shards[i] = NoShard /\ Available(Directory)
  BY DEF InitSlot, HomeInv, Layout, DirectoryType
<1>5. shards'[shard_index(Key(t))] # NoShard
  BY <1>1, <1>3 DEF InitSlot, HomeInv, Layout, DirectoryType
<1>6. SlotStep(t)
  BY <1>1, <1>4 DEF SlotStep
<1>7. Slot(Key(t))' # NoShard
  BY <1>1, <1>5 DEF Slot, Key, shard_index
<1>8. Holds(t)'
  BY <1>2, <1>7 DEF Holds, KeyHolds, TxnHolds, BuilderHolds, Guarding
<1>9. QED
  BY <1>2, <1>6, <1>8, OthersHold DEF LocksHeld

\* ReadActive keeps the active shard's guard for the fallback.
LEMMA LocksReadActive ==
  ASSUME HomeInv, LocksHeld, NEW t \in Threads, ReadActive(t)
  PROVE  LocksHeld'
<1>1. /\ pc[t] = "read" /\ UNCHANGED <<topology, call>>
      /\ Key(t) \in Keys /\ Home(t) \in Locks
      /\ UNCHANGED <<Key(t), Slot(Key(t)), Home(t)>>
  BY KeyTyped DEF ReadActive, KeyPCs, topology, Key, Slot, shard_index, Home
<1>2. PICK to \in {"return", "fallback"} :
        /\ Goto(t, to)
        /\ to = "fallback" => Lookup(Slot(Key(t)), Key(t)) = Nil /\ ReadLock(t, Home(t))
  BY DEF ReadActive, HoldForFallback, Home
<1>3. pc'[t] = to /\ OthersStay(t)
  BY <1>1, <1>2, PCOthers DEF OthersStay, HomeInv
<1>4. LockStep(t)
  BY DEF ReadActive, HoldForFallback, LockStep
<1>5. Exclusion' /\ \A u \in Threads \ {t} : Holds(u)'
  BY <1>1, <1>3, <1>4, SlotStepQuiet, OthersHold
<1>6. to = "fallback" => t \in readers'[Home(t)]
  BY <1>1, <1>2 DEF ReadLock, HomeInv, Control, CallType
<1>7. Slot(Key(t)) # NoShard
  BY <1>1 DEF LocksHeld, Holds, KeyHolds
<1>8. Holds(t)'
  BY <1>1, <1>2, <1>3, <1>6, <1>7 DEF Holds, KeyHolds, TxnHolds, BuilderHolds, Guarding
<1>9. QED
  BY <1>5, <1>8 DEF LocksHeld

\* LockActive takes the active shard's guard.
LEMMA LocksLockActive ==
  ASSUME HomeInv, LocksHeld, NEW t \in Threads, LockActive(t)
  PROVE  LocksHeld'
<1>1. /\ pc[t] = "lock" /\ Goto(t, "promote") /\ UNCHANGED <<topology, call>>
      /\ Key(t) \in Keys /\ Home(t) \in Locks /\ WriteLock(t, Home(t))
      /\ UNCHANGED <<Key(t), Slot(Key(t)), Home(t)>>
  BY KeyTyped DEF LockActive, KeyPCs, topology, Key, Slot, shard_index, Home
<1>2. pc'[t] = "promote" /\ OthersStay(t) /\ LockStep(t)
  BY <1>1, PCOthers DEF OthersStay, LockStep, HomeInv
<1>3. writer'[Home(t)] = t
  BY <1>1 DEF WriteLock, HomeInv, Control, CallType
<1>4. Slot(Key(t)) # NoShard
  BY <1>1 DEF LocksHeld, Holds, KeyHolds
<1>5. Holds(t)'
  BY <1>1, <1>2, <1>3, <1>4 DEF Holds, KeyHolds, TxnHolds, BuilderHolds, Guarding
<1>6. QED
  BY <1>1, <1>2, <1>5, SlotStepQuiet, OthersHold DEF LocksHeld

(*****************************************************************************)
(* Storing v under k in an initialized slot, with the previous generation    *)
(* rid of k before or by the step: what promote_previous and every store     *)
(* under a shard guard amount to.                                            *)
(*****************************************************************************)
Writing(k, v) ==
  /\ shards' = [shards EXCEPT ![shard_index(k)] = Put(@, k, v)]
  /\ \/ UNCHANGED previous_shards /\ Lookup(previous_shard(k), k) = Nil
     \/ /\ previous_shard(k) # NoShard
        /\ previous_shards' = [previous_shards EXCEPT ![previous_index(k)] = Detached(@, k)]
  /\ UNCHANGED <<shard_count, previous_shard_count>>

\* A write to one key changes what is stored under that key and no other key's.
LEMMA WritingEffect ==
  ASSUME DirectoryType, NEW k \in Keys, NEW v \in OptVal, Writing(k, v), Slot(k) # NoShard
  PROVE  /\ Stored(k)' = v
         /\ \A j \in Keys \ {k} : Stored(j)' = Stored(j)
         /\ \A j \in Keys : Lookup(previous_shard(j), j) = Nil =>
                               Lookup(previous_shard(j), j)' = Nil
         /\ Lookup(previous_shard(k), k)' = Nil
         /\ Slot(k)' # NoShard
         /\ \A i \in Idx : \/ shards'[i] = shards[i]
                           \/ /\ i = shard_index(k)
                              /\ shards[i] # NoShard /\ shards'[i] # NoShard
         /\ \A i \in Idx : (previous_shards'[i] = NoShard) <=> (previous_shards[i] = NoShard)
<1> DEFINE i == shard_index(k)
           p == previous_index(k)
<1>1. i \in Idx /\ shards[i] \in Shard /\ shards[i] = Slot(k)
  BY IndexInRange, SlotTypes DEF Slot
<1>2. \A j \in Keys : shard_index(j)' = shard_index(j) /\ previous_index(j)' = previous_index(j)
                      /\ shard_index(j) \in Idx
  BY IndexInRange DEF Writing, shard_index, previous_index
<1>3. /\ Put(shards[i], k, v) \in Shard
      /\ Lookup(Put(shards[i], k, v), k) = v
      /\ \A j \in Keys \ {k} : Lookup(Put(shards[i], k, v), j) = Lookup(shards[i], j)
  BY <1>1, DistinctAssumption DEF Put, Lookup, Shard, OptVal
<1>4. /\ shards'[i] = Put(shards[i], k, v)
      /\ \A m \in Idx \ {i} : shards'[m] = shards[m]
  BY <1>1 DEF Writing, DirectoryType
<1>5. /\ Lookup(Slot(k), k)' = v
      /\ \A j \in Keys \ {k} : Lookup(Slot(j), j)' = Lookup(Slot(j), j)
      /\ Slot(k)' # NoShard
  <2>1. shards'[i] # NoShard
    BY <1>3, <1>4, DistinctAssumption
  <2>2. \A j \in Keys : Slot(j)' = shards'[shard_index(j)]
    BY <1>2 DEF Slot
  <2>3. Lookup(shards'[i], k) = v
    BY <1>3, <1>4
  <2>4. \A j \in Keys \ {k} : Lookup(shards'[shard_index(j)], j)
                                = Lookup(shards[shard_index(j)], j)
    BY <1>2, <1>3, <1>4
  <2>5. QED
    BY <1>1, <2>1, <2>2, <2>3, <2>4 DEF Slot, Lookup
<1>6. /\ Lookup(previous_shard(k), k)' = Nil
      /\ \A j \in Keys \ {k} : Lookup(previous_shard(j), j)' = Lookup(previous_shard(j), j)
      /\ \A m \in Idx : (previous_shards'[m] = NoShard) <=> (previous_shards[m] = NoShard)
  <2>1. CASE UNCHANGED previous_shards /\ Lookup(previous_shard(k), k) = Nil
    <3>1. \A j \in Keys : UNCHANGED previous_shard(j)
      BY <1>2, <2>1 DEF Writing, previous_shard
    <3>2. QED
      BY <2>1, <3>1 DEF Lookup
  <2>2. CASE /\ previous_shard(k) # NoShard
             /\ previous_shards' = [previous_shards EXCEPT ![p] = Detached(@, k)]
    <3>1. previous_shard_count # 0 /\ p \in Idx /\ previous_shards[p] \in Shard
      <4>1. previous_shard_count # 0 /\ previous_shards[p] # NoShard
        BY <2>2 DEF previous_shard
      <4>2. QED
        BY <4>1, PreviousInRange DEF DirectoryType
    <3>2. /\ Detached(previous_shards[p], k) \in Shard
          /\ Lookup(Detached(previous_shards[p], k), k) = Nil
          /\ \A j \in Keys \ {k} : Lookup(Detached(previous_shards[p], k), j)
                                     = Lookup(previous_shards[p], j)
      BY <3>1, DistinctAssumption DEF Detached, Put, Lookup, Shard, OptVal
    <3>3. /\ previous_shards'[p] = Detached(previous_shards[p], k)
          /\ \A m \in Idx \ {p} : previous_shards'[m] = previous_shards[m]
      BY <2>2, <3>1 DEF DirectoryType
    <3>4. \A j \in Keys : /\ previous_index(j) \in Idx
                          /\ previous_shard(j) = previous_shards[previous_index(j)]
                          /\ previous_shard(j)' = previous_shards'[previous_index(j)]
      BY <1>2, <3>1, PreviousInRange DEF Writing, previous_shard
    <3>5. Lookup(previous_shards'[p], k) = Nil
      BY <3>2, <3>3
    <3>6. \A j \in Keys \ {k} : Lookup(previous_shards'[previous_index(j)], j)
                                  = Lookup(previous_shards[previous_index(j)], j)
      BY <3>2, <3>3, <3>4
    <3>7. /\ Lookup(previous_shard(k), k)' = Nil
          /\ \A j \in Keys \ {k} : Lookup(previous_shard(j), j)' = Lookup(previous_shard(j), j)
      BY <3>4, <3>5, <3>6 DEF Lookup
    <3>8. \A m \in Idx : (previous_shards'[m] = NoShard) <=> (previous_shards[m] = NoShard)
      BY <3>1, <3>2, <3>3, DistinctAssumption
    <3>9. QED
      BY <3>7, <3>8
  <2>3. QED
    BY <2>1, <2>2 DEF Writing
<1>7. Stored(k)' = v /\ \A j \in Keys \ {k} : Stored(j)' = Stored(j)
  BY <1>5, <1>6 DEF Stored
<1>8. \A m \in Idx : \/ shards'[m] = shards[m]
                     \/ m = shard_index(k) /\ shards[m] # NoShard /\ shards'[m] # NoShard
  BY <1>1, <1>3, <1>4, DistinctAssumption
<1>9. QED
  BY <1>5, <1>6, <1>7, <1>8

\* promote_previous leaves every value what it was.
LEMMA PromoteWrites ==
  ASSUME HomeInv, NEW t \in Threads, Promote(t)
  PROVE  \/ UNCHANGED topology /\ Lookup(previous_shard(Key(t)), Key(t)) = Nil
         \/ Writing(Key(t), Stored(Key(t)))
<1> DEFINE k == Key(t)
           source == previous_shard(k)
<1>1. pc[t] = "promote" /\ k \in Keys
  BY KeyTyped DEF Promote, KeyPCs
<1>2. CASE Lookup(source, k) = Nil
  BY <1>2 DEF Promote, topology
<1>3. CASE Lookup(source, k) # Nil
  <2>1. source # NoShard /\ source[k] = Lookup(source, k)
    BY <1>3 DEF Lookup
  <2>2. shards' = [shards EXCEPT ![shard_index(k)] = Promoted(@, source, k)]
    BY <1>3 DEF Promote
  <2>3. Lookup(Slot(k), k) = Nil
    BY <1>1, <1>3, IndexInRange DEF HomeInv, Layout, OneHome, Slot
  <2>4. Promoted(Slot(k), source, k) = Put(Slot(k), k, Stored(k))
    BY <2>1, <2>3 DEF Promoted, Stored
  <2>5. shards' = [shards EXCEPT ![shard_index(k)] = Put(@, k, Stored(k))]
    BY <2>2, <2>4 DEF Slot
  <2>6. QED
    BY <1>3, <2>1, <2>5 DEF Promote, Writing
<1>4. QED
  BY <1>2, <1>3

\* A store under the write lock leaves initialized slots initialized.
LEMMA StepOfWriting ==
  ASSUME HomeInv, NEW t \in Threads, NEW k \in Keys, NEW v \in OptVal, Writing(k, v),
         Slot(k) # NoShard, writer[Active(shard_index(k))] = t
  PROVE  SlotStep(t) /\ \A j \in Keys : Slot(j) # NoShard => Slot(j)' # NoShard
<1>1. SlotStep(t)
  BY WritingEffect DEF HomeInv, Layout, SlotStep, Writing
<1>2. \A j \in Keys : shard_index(j) \in Idx /\ UNCHANGED shard_index(j)
  BY IndexInRange DEF HomeInv, Layout, Writing, shard_index
<1>3. QED
  BY <1>1, <1>2 DEF SlotStep, Slot

\* A writer moves on under its guard.
LEMMA GuardKept ==
  ASSUME HomeInv, LocksHeld, NEW t \in Threads, pc[t] \in Guarding, pc'[t] \in Guarding,
         OthersStay(t), UNCHANGED <<locks, call>>,
         \/ UNCHANGED topology
         \/ \E v \in OptVal : Writing(Key(t), v)
  PROVE  LocksHeld'
<1>1. /\ Key(t) \in Keys /\ UNCHANGED Key(t) /\ writer[Home(t)] = t
      /\ Slot(Key(t)) # NoShard
  BY KeyTyped DEF Guarding, KeyPCs, Key, LocksHeld, Holds, KeyHolds
<1>2. SlotStep(t) /\ Slot(Key(t))' # NoShard /\ UNCHANGED shard_index(Key(t))
  <2>1. CASE UNCHANGED topology
    BY <1>1, <2>1, SlotStepQuiet DEF topology, Slot, shard_index, Key
  <2>2. CASE \E v \in OptVal : Writing(Key(t), v)
    BY <1>1, <2>2, StepOfWriting DEF Home, Writing, shard_index, Key, Slot
  <2>3. QED
    BY <2>1, <2>2
<1>3. Holds(t)'
  BY <1>1, <1>2 DEF locks, Home, Holds, KeyHolds, TxnHolds, BuilderHolds, Guarding
<1>4. QED
  BY <1>2, <1>3, OthersHold DEF LocksHeld, LockStep

\* What Apply and Unwind store.
LEMMA StoreWrites ==
  ASSUME HomeInv, NEW t \in Threads, pc[t] = "apply", NEW v \in OptVal, Store(t, Key(t), v),
         UNCHANGED <<previous_shards, shard_count, previous_shard_count>>
  PROVE  Writing(Key(t), v)
BY DEF HomeInv, Emptied, Key, Store, Writing

\* What Apply does: it stores a value and goes on to publish, or stores nothing.
LEMMA ApplyStores ==
  ASSUME HomeInv, NEW t \in Threads, Apply(t)
  PROVE  /\ pc[t] = "apply" /\ Key(t) \in Keys /\ call[t] \in KeyCalls /\ call[t].op # "get"
         /\ Stored(Key(t)) = Lookup(Slot(Key(t)), Key(t))
         /\ \/ /\ pc' = [pc EXCEPT ![t] = "publish"]
               /\ \E v \in OptVal : Writing(Key(t), v) /\ Store(t, Key(t), v)
            \/ /\ pc' = [pc EXCEPT ![t] = "release"]
               /\ UNCHANGED <<topology, preimage>>
<1>1. pc[t] = "apply" /\ Key(t) \in Keys /\ call[t] \in KeyCalls /\ call[t].op # "get"
  BY KeyTyped DEF Apply, KeyPCs, WriterPCs, HomeInv, Control, CallMatches
<1>2. Stored(Key(t)) = Lookup(Slot(Key(t)), Key(t))
  BY <1>1 DEF HomeInv, Emptied, Stored, Key
<1>3. call[t].new \in OptVal /\ Nil \in OptVal
  BY <1>1 DEF KeyCalls, OptVal
<1>4. CASE pc' = [pc EXCEPT ![t] = "publish"] /\ \E v \in OptVal : Store(t, Key(t), v)
  BY <1>1, <1>2, <1>4, StoreWrites DEF Apply
<1>5. CASE pc' = [pc EXCEPT ![t] = "release"] /\ UNCHANGED <<shards, preimage>>
  BY <1>1, <1>2, <1>5 DEF Apply, topology
<1>6. QED
  BY <1>3, <1>4, <1>5 DEF Apply, Goto

\* What a panic leaves stored.
LEMMA UnwindStores ==
  ASSUME HomeInv, NEW t \in Threads, Unwind(t)
  PROVE  /\ Key(t) \in Keys /\ call[t] \in KeyCalls
         /\ \/ /\ pc[t] \in {"promote", "apply"}
               /\ pc' = [pc EXCEPT ![t] = "release"]
               /\ UNCHANGED <<topology, preimage, locks>>
            \/ /\ pc[t] \in {"lookup", "init", "read", "fallback"}
               /\ pc' = [pc EXCEPT ![t] = "return"]
               /\ UNCHANGED <<topology, preimage>>
               /\ Unlock(t, {Directory} \cup ShardLocks)
            \/ /\ pc[t] = "apply"
               /\ pc' = [pc EXCEPT ![t] = "publish"]
               /\ \E v \in OptVal : Writing(Key(t), v) /\ Store(t, Key(t), v)
               /\ UNCHANGED locks
<1>1. Key(t) \in Keys /\ call[t] \in KeyCalls
  BY KeyTyped DEF Unwind, KeyPCs
<1>2. call[t].new \in OptVal /\ Nil \in OptVal /\ Lookup(Slot(Key(t)), Key(t)) \in OptVal
  BY <1>1, SlotTypes DEF KeyCalls, OptVal, HomeInv, Layout
<1>3. CASE /\ pc[t] = "apply" /\ pc' = [pc EXCEPT ![t] = "publish"] /\ UNCHANGED locks
           /\ \E v \in OptVal : Store(t, Key(t), v)
  BY <1>1, <1>3, StoreWrites DEF Unwind
<1>4. CASE /\ pc[t] \in {"promote", "apply"} /\ pc' = [pc EXCEPT ![t] = "release"]
           /\ UNCHANGED <<shards, preimage, locks>>
  BY <1>1, <1>4 DEF Unwind, topology
<1>5. CASE /\ pc[t] \in {"lookup", "init", "read", "fallback"}
           /\ pc' = [pc EXCEPT ![t] = "return"]
           /\ UNCHANGED <<shards, preimage>> /\ Unlock(t, {Directory} \cup ShardLocks)
  BY <1>1, <1>5 DEF Unwind, topology
<1>6. QED
  BY <1>2, <1>3, <1>4, <1>5 DEF Unwind, Goto

\* A writer keeps its guard from LockActive to Release.
LEMMA LocksGuarded ==
  ASSUME HomeInv, LocksHeld, NEW t \in Threads,
         Promote(t) \/ Apply(t) \/ Unwind(t) \/ Publish(t)
  PROVE  LocksHeld'
<1>1. CASE Promote(t)
  <2>1. pc[t] = "promote" /\ Goto(t, "apply") /\ UNCHANGED <<locks, call>>
    BY <1>1 DEF Promote
  <2>2. pc'[t] = "apply" /\ OthersStay(t)
    BY <2>1, PCOthers DEF OthersStay, HomeInv
  <2>3. Stored(Key(t)) \in OptVal
    BY <2>1, KeyTyped, SlotTypes DEF KeyPCs, HomeInv, Layout
  <2>4. QED
    BY <1>1, <2>1, <2>2, <2>3, PromoteWrites, GuardKept DEF Guarding
<1>2. CASE Apply(t)
  <2>1. UNCHANGED <<locks, call>>
    BY <1>2 DEF Apply
  <2>2. pc'[t] \in {"publish", "release"} /\ OthersStay(t)
    BY <1>2, <2>1, ApplyStores, PCOthers DEF OthersStay, HomeInv, Goto
  <2>3. QED
    BY <1>2, <2>1, <2>2, ApplyStores, GuardKept DEF Guarding
<1>3. CASE Unwind(t)
  <2>1. UNCHANGED call
    BY <1>3 DEF Unwind
  <2>2. CASE /\ pc[t] \in {"lookup", "init", "read", "fallback"}
             /\ pc' = [pc EXCEPT ![t] = "return"]
             /\ UNCHANGED topology
             /\ Unlock(t, {Directory} \cup ShardLocks)
    <3>1. pc'[t] = "return" /\ OthersStay(t)
      BY <2>1, <2>2, PCOthers DEF OthersStay, HomeInv, Goto
    <3>2. pc'[t] \in Bare
      BY <3>1 DEF Bare, PCs, Guarding
    <3>3. QED
      BY <2>2, <3>1, <3>2, SlotStepQuiet, GoesBare DEF LockStep
  <2>3. CASE /\ pc[t] \in {"promote", "apply"}
             /\ \E to \in {"release", "publish"} : pc' = [pc EXCEPT ![t] = to]
             /\ UNCHANGED locks
             /\ \/ UNCHANGED topology
                \/ \E v \in OptVal : Writing(Key(t), v)
    <3>1. pc'[t] \in {"publish", "release"} /\ OthersStay(t)
      BY <2>1, <2>3, PCOthers DEF OthersStay, HomeInv, Goto
    <3>2. QED
      BY <2>1, <2>3, <3>1, GuardKept DEF Guarding
  <2>4. QED
    BY <1>3, <2>2, <2>3, UnwindStores
<1>4. CASE Publish(t)
  <2>1. pc[t] = "publish" /\ Goto(t, "release") /\ UNCHANGED <<topology, locks, call>>
    BY <1>4 DEF Publish
  <2>2. pc'[t] = "release" /\ OthersStay(t)
    BY <2>1, PCOthers DEF OthersStay, HomeInv
  <2>3. QED
    BY <2>1, <2>2, GuardKept DEF Guarding
<1>5. QED
  BY <1>1, <1>2, <1>3, <1>4

\* The builder of a snapshot gathers the guards of every shard.
LEMMA LocksBuilder ==
  ASSUME HomeInv, LocksHeld, NEW t \in Threads,
         PinDirectory(t) \/ GuardNext(t) \/ LoadEpoch(t)
  PROVE  LocksHeld'
<1>1. PICK to \in {"guards", "collect"} :
        /\ Goto(t, to) /\ UNCHANGED <<topology, call>>
        /\ to = "collect" => Unguarded(t) = {} /\ UNCHANGED locks
  BY DEF PinDirectory, GuardNext, LoadEpoch, Goto, HomeInv, Control, CallType
<1>2. pc'[t] = to /\ OthersStay(t)
  BY <1>1, PCOthers DEF OthersStay, HomeInv
<1>3. LockStep(t)
  BY DEF PinDirectory, GuardNext, LoadEpoch, LockStep
<1>4. Exclusion' /\ \A u \in Threads \ {t} : Holds(u)'
  BY <1>1, <1>2, <1>3, SlotStepQuiet, OthersHold
<1>5. t \in readers'[Directory]
  <2>1. CASE PinDirectory(t)
    BY <2>1, LockNames DEF PinDirectory, ReadLock, HomeInv, Control, CallType
  <2>2. CASE GuardNext(t) \/ LoadEpoch(t)
    <3>1. t \in readers[Directory]
      BY <2>2 DEF GuardNext, LoadEpoch, LocksHeld, Holds, BuilderHolds
    <3>2. QED
      BY <2>2, <3>1, LockNames
         DEF GuardNext, LoadEpoch, ReadLock, locks, HomeInv, Control, CallType
  <2>3. QED
    BY <2>1, <2>2
<1>6. to = "collect" => Unguarded(t)' = {}
  BY <1>1 DEF Unguarded, Initialized, topology, locks
<1>7. Holds(t)'
  BY <1>2, <1>5, <1>6 DEF Holds, KeyHolds, TxnHolds, BuilderHolds, Guarding
<1>8. QED
  BY <1>4, <1>7 DEF LocksHeld

\* Slots of the active directory turn from uninitialized into empty: nothing is
\* stored or lost.
LEMMA InitializingEffect ==
  ASSUME DirectoryType, UNCHANGED <<previous_shards, shard_count, previous_shard_count>>,
         \A i \in Idx : shards'[i] = shards[i] \/ (shards[i] = NoShard /\ shards'[i] = EmptyShard)
  PROVE  /\ \A k \in Keys : Stored(k)' = Stored(k)
         /\ \A k \in Keys : Lookup(previous_shard(k), k)' = Lookup(previous_shard(k), k)
         /\ \A k \in Keys : Slot(k) # NoShard => Slot(k)' # NoShard
<1>1. \A k \in Keys : shard_index(k) \in Idx /\ UNCHANGED <<shard_index(k), previous_shard(k)>>
  BY IndexInRange DEF shard_index, previous_shard, previous_index
<1>2. \A k \in Keys : Lookup(EmptyShard, k) = Nil /\ Lookup(NoShard, k) = Nil
  BY DEF EmptyShard, Lookup
<1>3. \A k \in Keys : Slot(k)' = Slot(k) \/ (Slot(k) = NoShard /\ Slot(k)' = EmptyShard)
  BY <1>1 DEF Slot
<1>4. \A k \in Keys : Lookup(Slot(k), k)' = Lookup(Slot(k), k)
  BY <1>2, <1>3 DEF Lookup
<1>5. \A k \in Keys : Lookup(previous_shard(k), k)' = Lookup(previous_shard(k), k)
  BY <1>1 DEF Lookup
<1>6. QED
  BY <1>3, <1>4, <1>5 DEF Stored

\* Resolving a transaction only creates empty shards in vacant slots.
LEMMA TxnResolveInitializes ==
  ASSUME HomeInv, NEW t \in Threads, TxnResolve(t)
  PROVE  \A i \in Idx : \/ shards'[i] = shards[i]
                        \/ /\ shards[i] = NoShard /\ shards'[i] = EmptyShard
                           /\ Available(Directory)
<1>1. CASE UNCHANGED shards
  BY <1>1
<1>2. CASE \E i \in Vacant(t) : shards' = [shards EXCEPT ![i] = EmptyShard]
           /\ Available(Directory)
  BY <1>2 DEF Vacant, HomeInv, Layout, DirectoryType
<1>3. QED
  BY <1>1, <1>2 DEF TxnResolve

\* A resolved transaction stands on slots that exist.
LEMMA LocksTxnResolve ==
  ASSUME HomeInv, LocksHeld, NEW t \in Threads, TxnResolve(t)
  PROVE  LocksHeld'
<1>1. /\ pc[t] = "txn_resolve" /\ UNCHANGED <<locks, call>>
      /\ UNCHANGED <<previous_shards, shard_count, previous_shard_count>>
  BY DEF TxnResolve
<1>2. SlotStep(t) /\ LockStep(t)
  BY <1>1, TxnResolveInitializes DEF SlotStep, LockStep
<1>3. CASE Vacant(t) = {}
  <2>1. Goto(t, "txn_lock") /\ UNCHANGED shards
    BY <1>3 DEF TxnResolve
  <2>2. pc'[t] = "txn_lock" /\ OthersStay(t)
    BY <1>1, <2>1, PCOthers DEF OthersStay, HomeInv
  <2>3. \A k \in TxnKeys(t) : Slot(k) # NoShard
    BY <1>3 DEF Vacant, Slot
  <2>4. Holds(t)'
    BY <1>1, <2>1, <2>2, <2>3
       DEF Holds, KeyHolds, TxnHolds, BuilderHolds, Guarding, TxnKeys, Slot, shard_index
  <2>5. QED
    BY <1>2, <2>2, <2>4, OthersHold DEF LocksHeld
<1>4. CASE Vacant(t) # {}
  <2>1. UNCHANGED pc
    BY <1>4 DEF TxnResolve
  <2>2. OthersStay(t) /\ pc'[t] \in Bare
    BY <1>1, <2>1 DEF OthersStay, Bare, PCs, TxnPCs, Guarding
  <2>3. QED
    BY <1>2, <2>2, GoesBare
<1>5. QED
  BY <1>3, <1>4

\* A transaction gathers the guards of its shards in order.
LEMMA LocksTxnLock ==
  ASSUME HomeInv, LocksHeld, NEW t \in Threads, TxnLock(t)
  PROVE  LocksHeld'
<1>1. pc[t] = "txn_lock" /\ UNCHANGED <<topology, call>>
  BY DEF TxnLock
<1>2. PICK to \in {"txn_lock", "txn_apply"} :
        /\ Goto(t, to)
        /\ to = "txn_apply" => Wanted(t) = {} /\ UNCHANGED locks
  BY <1>1 DEF TxnLock, Goto, HomeInv, Control, CallType
<1>3. pc'[t] = to /\ OthersStay(t)
  BY <1>1, <1>2, PCOthers DEF OthersStay, HomeInv
<1>4. LockStep(t)
  BY DEF TxnLock, LockStep
<1>5. \A k \in TxnKeys(t) : Slot(k) # NoShard
  BY <1>1 DEF LocksHeld, Holds, TxnHolds
<1>6. to = "txn_apply" => \A k \in TxnKeys(t) : writer[Active(shard_index(k))] = t
  BY <1>2 DEF Wanted, TxnLocks
<1>7. UNCHANGED TxnKeys(t) /\ \A k : UNCHANGED <<Slot(k), shard_index(k)>>
  BY <1>1 DEF TxnKeys, topology, Slot, shard_index
<1>8. Holds(t)'
  BY <1>2, <1>3, <1>5, <1>6, <1>7
     DEF Holds, KeyHolds, TxnHolds, BuilderHolds, Guarding, locks
<1>9. QED
  BY <1>1, <1>3, <1>4, <1>8, SlotStepQuiet, OthersHold DEF LocksHeld

\* The step a transaction is at, and what a step leaves under its key.
StepNow(t) == call[t].steps[at[t]]

Leaves(step, old) ==
  CASE step.op = "read"   -> old
    [] step.op = "write"  -> step.new
    [] step.op = "remove" -> Nil

\* What one step of a transaction writes.
LEMMA TxnApplyWrites ==
  ASSUME HomeInv, NEW t \in Threads, TxnApply(t)
  PROVE  LET s == StepNow(t)
             new == Leaves(s, Stored(s.key))
         IN  /\ pc[t] = "txn_apply" /\ UNCHANGED <<pc, call, locks>>
             /\ call[t] \in TxnCalls
             /\ at[t] \in 1..Len(call[t].steps) /\ at' = [at EXCEPT ![t] = @ + 1]
             /\ s \in TxnSteps /\ s.key \in Keys /\ s.key \in TxnKeys(t)
             /\ new \in OptVal /\ Writing(s.key, new)
             /\ preimage' = [preimage EXCEPT ![s.key] =
                                IF @ = Clean THEN Stored(s.key) ELSE @]
             /\ ShardMutationDrop(Stored(s.key), new, s.op = "write")
<1> DEFINE s == StepNow(t)
           k == s.key
           new == Leaves(s, Stored(k))
<1>1. pc[t] = "txn_apply" /\ UNCHANGED <<pc, call, locks>>
      /\ at[t] <= Len(call[t].steps) /\ at' = [at EXCEPT ![t] = @ + 1]
  BY DEF TxnApply
<1>2. call[t] \in TxnCalls /\ at[t] \in Nat \ {0}
  BY <1>1 DEF HomeInv, Control, CallType, CallMatches, TxnPCs
<1>3. /\ call[t].steps \in Seq(TxnSteps)
      /\ \A i \in 1..Len(call[t].steps) : call[t].steps[i] \in TxnSteps
      /\ TxnKeys(t) \subseteq Keys
  BY <1>2, TxnKeysTyped
<1>4. at[t] \in 1..Len(call[t].steps) /\ DOMAIN call[t].steps = 1..Len(call[t].steps)
  BY <1>1, <1>2, <1>3
<1>5. s \in TxnSteps /\ k \in Keys /\ k \in TxnKeys(t)
  BY <1>3, <1>4 DEF TxnKeys, StepNow
<1>6. new \in OptVal
  <2>1. Stored(k) \in OptVal /\ Nil \in OptVal
    BY <1>5, SlotTypes DEF HomeInv, Layout, OptVal
  <2>2. QED
    BY <1>5, <2>1 DEF TxnSteps, Leaves
<1>7. /\ shards' = [shards EXCEPT ![shard_index(k)] = Put(@, k, new)]
      /\ previous_shards' = IF previous_shard(k) = NoShard THEN previous_shards
                            ELSE [previous_shards EXCEPT ![previous_index(k)] = Detached(@, k)]
      /\ preimage' = [preimage EXCEPT ![k] = IF @ = Clean THEN Stored(k) ELSE @]
      /\ ShardMutationDrop(Stored(k), new, s.op = "write")
      /\ UNCHANGED <<shard_count, previous_shard_count>>
  BY DEF TxnApply, StepNow, Leaves
<1>8. Writing(k, new)
  <2>1. previous_shard(k) = NoShard => Lookup(previous_shard(k), k) = Nil
    BY DEF Lookup
  <2>2. QED
    BY <1>7, <2>1 DEF Writing
<1>9. QED
  BY <1>1, <1>2, <1>4, <1>5, <1>6, <1>7, <1>8

\* Applying a step keeps every guard.
LEMMA LocksTxnApply ==
  ASSUME HomeInv, LocksHeld, NEW t \in Threads, TxnApply(t)
  PROVE  LocksHeld'
<1>1. PICK k \in TxnKeys(t), v \in OptVal :
        /\ pc[t] = "txn_apply" /\ UNCHANGED <<pc, call, locks>> /\ call[t] \in TxnCalls
        /\ k \in Keys /\ Writing(k, v)
  BY TxnApplyWrites
<1>2. OthersStay(t) /\ LockStep(t) /\ UNCHANGED TxnKeys(t)
  BY <1>1 DEF OthersStay, LockStep, TxnKeys
<1>3. \A j \in TxnKeys(t) : Slot(j) # NoShard /\ writer[Active(shard_index(j))] = t
  BY <1>1 DEF LocksHeld, Holds, TxnHolds
<1>4. SlotStep(t) /\ \A j \in Keys : Slot(j) # NoShard => Slot(j)' # NoShard
  BY <1>1, <1>3, StepOfWriting
<1>5. TxnKeys(t) \subseteq Keys /\ \A j : UNCHANGED shard_index(j)
  BY <1>1, TxnKeysTyped DEF Writing, shard_index
<1>6. Holds(t)'
  BY <1>1, <1>2, <1>3, <1>4, <1>5
     DEF Holds, KeyHolds, TxnHolds, BuilderHolds, Guarding, locks
<1>7. QED
  BY <1>2, <1>4, <1>6, OthersHold DEF LocksHeld

\* Sweeps and layout changes run while nobody holds a shard or the directory.
LEMMA LocksAlone ==
  ASSUME HomeInv, LocksHeld,
         \/ \E t \in Threads : SweepStep(t)
         \/ MigrationStep
  PROVE  LocksHeld'
<1> USE DEF HomeInv
<1>1. readers[Routing] = {}
  <2>1. ASSUME NEW t \in Threads, SweepRouting(t) PROVE readers[Routing] = {}
    BY <2>1 DEF SweepRouting, WriteLock, Available
  <2>2. ASSUME NEW t \in Threads, pc[t] = "sweep" PROVE readers[Routing] = {}
    BY <2>2, DistinctAssumption DEF Control, RoutingHeld
  <2>3. QED
    BY <2>1, <2>2 DEF SweepStep, SweepShard, SweepFinish, SweepUnwind, MigrationStep,
       StartRebalance, StopTheWorld, MigrateEntry, Exclusive, Available
<1>2. \A u \in Threads : pc[u] \in Bare
  BY <1>1, NobodyHolds
<1>3. {"sweep", "return"} \subseteq Bare
  BY DEF Bare, PCs, SweepPCs, Guarding
<1>4. CASE MigrationStep
  <2>1. UNCHANGED <<locks, pc>>
    BY <1>4 DEF MigrationStep, StartRebalance, StopTheWorld, MigrateEntry
  <2>2. \A u \in Threads : Holds(u)'
    BY <1>2, <2>1 DEF Bare, Guarding, Holds, KeyHolds, TxnHolds, BuilderHolds
  <2>3. QED
    BY <2>1, <2>2 DEF LocksHeld, Exclusion, locks
<1>5. ASSUME NEW t \in Threads, SweepStep(t)
      PROVE  LocksHeld'
  <2>1. LockStep(t)
    BY <1>5 DEF SweepStep, SweepRouting, SweepShard, SweepFinish, SweepUnwind, SweepEnd, LockStep
  <2>2. Exclusion'
    BY <2>1, OthersKeepLocks DEF LocksHeld, Control
  <2>3. UNCHANGED pc \/ \E to \in {"sweep", "return"} : Goto(t, to)
    BY <1>5 DEF SweepStep, SweepRouting, SweepShard, SweepFinish, SweepUnwind, SweepEnd
  <2>4. \A u \in Threads : pc'[u] \in Bare
    BY <1>2, <1>3, <2>3, PCOthers
  <2>5. \A u \in Threads : Holds(u)'
    BY <2>4 DEF Bare, Guarding, Holds, KeyHolds, TxnHolds, BuilderHolds
  <2>6. QED
    BY <2>2, <2>5 DEF LocksHeld
<1>6. QED
  BY <1>4, <1>5

\* Every step preserves LocksHeld.
LEMMA LocksNext ==
  ASSUME HomeInv, LocksHeld, [Next]_vars
  PROVE  LocksHeld'
<1>1. ASSUME NEW t \in Threads, KeyStep(t) PROVE LocksHeld'
  BY <1>1, LocksPlain, LocksFindSlot, LocksInitSlot, LocksReadActive, LocksLockActive,
     LocksGuarded DEF KeyStep
<1>2. ASSUME NEW t \in Threads, TxnStep(t) PROVE LocksHeld'
  BY <1>2, LocksPlain, LocksTxnResolve, LocksTxnLock, LocksTxnApply DEF TxnStep
<1>3. ASSUME NEW t \in Threads, SnapshotStep(t) PROVE LocksHeld'
  BY <1>3, LocksPlain, LocksBuilder DEF SnapshotStep
<1>4. CASE UNCHANGED vars
  <2>1. ASSUME NEW t \in Threads PROVE Holds(t)'
    BY <1>4 DEF vars, topology, locks, LocksHeld, Holds, KeyHolds, TxnHolds, BuilderHolds,
       Home, Key, TxnKeys, Slot, shard_index, Unguarded, Initialized
  <2>2. QED
    BY <1>4, <2>1 DEF vars, locks, LocksHeld, Exclusion
<1>5. QED
  BY <1>1, <1>2, <1>3, <1>4, LocksPlain, LocksAlone DEF Next

(*****************************************************************************)
(* Who may change what is stored under a key.                                *)
(*****************************************************************************)
\* t may have stored under k without having dropped its guards yet.
Dirties(t, k) ==
  \/ pc[t] \in {"publish", "release"} /\ Key(t) = k
  \/ pc[t] = "txn_apply" /\ k \in TxnKeys(t)
  \/ pc[t] = "sweep"

Possesses(t, k) == Dirties(t, k) \/ (pc[t] \in {"promote", "apply"} /\ Key(t) = k)

\* Who may change a key holds its shard's guard, or routing exclusively.
LEMMA PossessorLocks ==
  ASSUME HomeInv, LocksHeld, NEW t \in Threads, NEW k \in Keys, Possesses(t, k)
  PROVE  LET l == Active(shard_index(k))
         IN  \/ pc[t] = "sweep" /\ writer[Routing] = t /\ readers[Routing] = {}
             \/ /\ pc[t] # "sweep" /\ t \in readers[Routing]
                /\ writer[l] = t /\ readers[l] = {} /\ Slot(k) # NoShard
<1>1. Active(shard_index(k)) \in Locks
  BY IndexInRange, LockNames DEF HomeInv, Layout
<1>2. CASE pc[t] = "sweep"
  BY <1>2, DistinctAssumption DEF HomeInv, Control, RoutingHeld
<1>3. CASE pc[t] \in Guarding /\ Key(t) = k
  <2>1. t \in readers[Routing] /\ pc[t] # "sweep"
    BY <1>3 DEF HomeInv, Control, RoutingHeld, Pinned, KeyPCs, Guarding
  <2>2. writer[Active(shard_index(k))] = t /\ Slot(k) # NoShard
    BY <1>3 DEF LocksHeld, Holds, KeyHolds, Home
  <2>3. QED
    BY <1>1, <2>1, <2>2, DistinctAssumption DEF LocksHeld, Exclusion
<1>4. CASE pc[t] = "txn_apply" /\ k \in TxnKeys(t)
  <2>1. t \in readers[Routing]
    BY <1>4 DEF HomeInv, Control, RoutingHeld, Pinned, TxnPCs
  <2>2. writer[Active(shard_index(k))] = t /\ Slot(k) # NoShard
    BY <1>4 DEF LocksHeld, Holds, TxnHolds
  <2>3. QED
    BY <1>1, <1>4, <2>1, <2>2, DistinctAssumption DEF LocksHeld, Exclusion
<1>5. QED
  BY <1>2, <1>3, <1>4 DEF Possesses, Dirties, Guarding

\* Two threads never possess the same key: the shard lock and routing exclude it.
LEMMA OnePossessor ==
  ASSUME HomeInv, LocksHeld, NEW t \in Threads, NEW u \in Threads, NEW k \in Keys,
         Possesses(t, k), Possesses(u, k)
  PROVE  t = u
BY PossessorLocks

\* Nobody possesses a key whose shard a thread with routing reads, finds
\* unlocked or finds uninitialized.
LEMMA NotPossessed ==
  ASSUME HomeInv, LocksHeld, NEW u \in Threads, u \in readers[Routing], NEW k \in Keys,
         \/ Readable(Active(shard_index(k)))
         \/ u \in readers[Active(shard_index(k))]
         \/ Slot(k) = NoShard
  PROVE  \A t \in Threads : ~Possesses(t, k)
<1> DEFINE l == Active(shard_index(k))
<1> SUFFICES ASSUME NEW t \in Threads, Possesses(t, k) PROVE FALSE
  OBVIOUS
<1>1. writer[l] = t /\ readers[l] = {} /\ Slot(k) # NoShard
  BY PossessorLocks
<1>2. QED
  BY <1>1, DistinctAssumption DEF Readable

\* A snapshot builder with all its guards excludes every writer.
LEMMA BuilderAlone ==
  ASSUME HomeInv, LocksHeld, NEW u \in Threads, pc[u] \in {"guards", "collect"},
         Unguarded(u) = {}
  PROVE  \A t \in Threads, k \in Keys : ~Possesses(t, k)
<1> SUFFICES ASSUME NEW k \in Keys PROVE \A t \in Threads : ~Possesses(t, k)
  OBVIOUS
<1>1. u \in readers[Routing]
  BY DEF HomeInv, Control, RoutingHeld, Pinned
<1>2. shard_index(k) \in Idx
  BY IndexInRange DEF HomeInv, Layout
<1>3. Slot(k) # NoShard => Active(shard_index(k)) \in Initialized
  BY <1>2 DEF Slot, Initialized
<1>4. Slot(k) # NoShard => u \in readers[Active(shard_index(k))]
  BY <1>3 DEF Unguarded
<1>5. QED
  BY <1>1, <1>4, NotPossessed

\* So does whoever holds routing exclusively.
LEMMA NoneWhileExclusive ==
  ASSUME HomeInv, LocksHeld, Exclusive
  PROVE  \A t \in Threads, k \in Keys : ~Possesses(t, k)
BY PossessorLocks, DistinctAssumption DEF Exclusive, Available

\* Under a sweep nobody holds anything else.
LEMMA SweepAlone ==
  ASSUME HomeInv, LocksHeld, NEW u \in Threads, pc[u] = "sweep"
  PROVE  /\ readers[Routing] = {} /\ writer[Routing] = u
         /\ \A t \in Threads : pc[t] \in Bare
         /\ \A t \in Threads : pc[t] = "sweep" => t = u
<1>1. readers[Routing] = {} /\ writer[Routing] = u
  BY DistinctAssumption DEF HomeInv, Control, RoutingHeld
<1>2. QED
  BY <1>1, NobodyHolds DEF HomeInv, Control, RoutingHeld

(*****************************************************************************)
(* The counters and the snapshots.  A key differs from its preimage only in  *)
(* its possessor's hands; once the difference is published, no captured      *)
(* snapshot carries the current epoch until the guards have dropped.         *)
(*****************************************************************************)
DirtyOwned == \A k \in Keys : preimage[k] # Clean => \E t \in Threads : Dirties(t, k)

Marked ==
  \A t \in Threads : pc[t] = "publish" =>
    preimage[Key(t)] # Clean /\ Lookup(previous_shard(Key(t)), Key(t)) = Nil

NoneCurrent == \A a \in Captured : a.epoch < write_epoch

CapturedCurrent ==
  \A a \in Captured :
    a.epoch <= write_epoch /\ (a.epoch = write_epoch => a.items = Pairs(Contents))

Settled ==
  \A k \in Keys : preimage[k] # Clean /\ k \notin Unpublished =>
                    preimage[k] = Stored(k) \/ NoneCurrent

CutCurrent == \A t \in Threads : pc[t] = "collect" => cut[t] = write_epoch

ValueInv ==
  /\ DirtyOwned /\ Marked /\ LenExact
  /\ CapturedCurrent /\ VersionNamesContents /\ Settled /\ CutCurrent

\* What total_len counts under k.
Counted(k) == IF k \in Unpublished THEN preimage[k] ELSE Stored(k)

\* The length stays exact where what it counts stays.
LEMMA CountKept ==
  ASSUME LenExact, UNCHANGED total_len, \A k \in Keys : Counted(k)' = Counted(k)
  PROVE  LenExact'
<1>1. {k \in Keys : Counted(k) # Nil}' = {k \in Keys : Counted(k) # Nil}
  OBVIOUS
<1>2. QED
  BY <1>1 DEF LenExact, Counted

\* Captured snapshots are well formed.
LEMMA CapturedTypes ==
  ASSUME CallType
  PROVE  \A a \in Captured : a.epoch \in Nat /\ a.items \in SUBSET (Keys \X Vals)
<1>1. \A t \in Threads : reply[t].tag = "snapshot" =>
         reply[t].epoch \in Nat /\ reply[t].items \in SUBSET (Keys \X Vals)
  BY DEF CallType, Replies, NoReply, DoneReply, PanickedReply
<1>2. QED
  BY <1>1 DEF CallType, Captured

\* A step in which nothing new is captured.
LEMMA CapturedKept ==
  ASSUME NEW t \in Threads, snapshot_cache' \subseteq Captured,
         \A u \in Threads \ {t} : reply'[u] = reply[u],
         \/ reply'[t] = reply[t]
         \/ reply'[t].tag # "snapshot"
         \/ [epoch |-> reply'[t].epoch, items |-> reply'[t].items] \in Captured
  PROVE  Captured' \subseteq Captured
<1>1. ASSUME NEW a \in Captured'
      PROVE  a \in Captured
  <2>1. CASE a \in snapshot_cache'
    BY <2>1
  <2>2. ASSUME NEW u \in Threads, reply'[u].tag = "snapshot",
               a = [epoch |-> reply'[u].epoch, items |-> reply'[u].items]
        PROVE  a \in Captured
    <3>1. CASE reply'[u] = reply[u]
      BY <2>2, <3>1 DEF Captured
    <3>2. CASE u = t
      BY <2>2, <3>1, <3>2
    <3>3. QED
      BY <3>1, <3>2
  <2>3. QED
    BY <2>1, <2>2 DEF Captured
<1>2. QED
  BY <1>1

\* Nothing stored changes with the directories unchanged.
LEMMA QuietValues ==
  ASSUME UNCHANGED topology
  PROVE  /\ \A k \in Keys : Stored(k)' = Stored(k)
         /\ \A k \in Keys : Lookup(previous_shard(k), k)' = Lookup(previous_shard(k), k)
         /\ \A k \in Keys : Slot(k)' = Slot(k)
BY DEF topology, Stored, Lookup, Slot, shard_index, previous_shard, previous_index

\* The contents stay where the stored values and the images before unfinished changes stay.
LEMMA ContentsKept ==
  ASSUME UNCHANGED preimage, \A k \in Keys : Stored(k)' = Stored(k)
  PROVE  Contents' = Contents
BY DEF Contents, Visible

(*****************************************************************************)
(* A step that neither stores, counts nor captures anything new.             *)
(*****************************************************************************)
LEMMA ValueSilent ==
  ASSUME CallType, CallMatches, ValueInv, UNCHANGED <<preimage, counters>>,
         Captured' \subseteq Captured,
         \A k \in Keys : Stored(k)' = Stored(k),
         \/ \A k \in Keys : Lookup(previous_shard(k), k) = Nil =>
                               Lookup(previous_shard(k), k)' = Nil
         \/ \A u \in Threads : pc[u] # "publish",
         \A u \in Threads, k \in Keys : Dirties(u, k) => Dirties(u, k)',
         \A u \in Threads : (pc[u] = "publish") <=> (pc'[u] = "publish"),
         \A u \in Threads : pc[u] = "publish" => call'[u] = call[u],
         \A u \in Threads : pc'[u] = "collect" => cut'[u] = write_epoch
  PROVE  ValueInv'
<1> USE DEF ValueInv
<1>1. Unpublished' = Unpublished
  BY DEF Unpublished
<1>2. Contents' = Contents
  BY ContentsKept
<1>3. DirtyOwned'
  BY DEF DirtyOwned
<1>4. Marked'
  <2>1. \A u \in Threads : pc[u] = "publish" => Key(u) \in Keys /\ Key(u)' = Key(u)
    BY DEF CallMatches, KeyPCs, KeyCalls, Key
  <2>2. QED
    BY <2>1 DEF Marked
<1>5. LenExact'
  BY <1>1, CountKept DEF Counted, counters
<1>6. CapturedCurrent'
  BY <1>2 DEF CapturedCurrent, counters, Pairs
<1>7. VersionNamesContents'
  BY DEF VersionNamesContents
<1>8. Settled'
  BY <1>1 DEF Settled, NoneCurrent, counters
<1>9. CutCurrent'
  BY DEF CutCurrent, counters
<1>10. QED
  BY <1>3, <1>4, <1>5, <1>6, <1>7, <1>8, <1>9

\* Where a thread has stored nothing that is not visible yet.
NotDirty == PCs \ {"publish", "release", "txn_apply", "sweep"}

\* The same for a step of one thread that had stored nothing.
LEMMA ThreadSilent ==
  ASSUME Control, ValueInv, NEW t \in Threads, OthersStay(t), pc[t] \in NotDirty,
         pc'[t] # "publish",
         UNCHANGED <<preimage, counters>>, Captured' \subseteq Captured,
         \A k \in Keys : Stored(k)' = Stored(k),
         \A k \in Keys : Lookup(previous_shard(k), k) = Nil =>
                            Lookup(previous_shard(k), k)' = Nil,
         \A u \in Threads \ {t} : cut'[u] = cut[u],
         pc'[t] = "collect" => cut'[t] = write_epoch
  PROVE  ValueInv'
<1>1. \A u \in Threads, k \in Keys : Dirties(u, k) => Dirties(u, k)'
  <2>1. \A k \in Keys : ~Dirties(t, k)
    BY DEF Dirties, NotDirty
  <2>2. \A u \in Threads \ {t}, k \in Keys : Dirties(u, k) => Dirties(u, k)'
    BY DEF OthersStay, Dirties, Key, TxnKeys
  <2>3. QED
    BY <2>1, <2>2
<1>2. \A u \in Threads : (pc[u] = "publish") <=> (pc'[u] = "publish")
  BY DEF OthersStay, NotDirty
<1>3. \A u \in Threads : pc[u] = "publish" => call'[u] = call[u]
  BY DEF OthersStay, NotDirty
<1>4. \A u \in Threads : pc'[u] = "collect" => cut'[u] = write_epoch
  BY DEF OthersStay, ValueInv, CutCurrent
<1>5. QED
  BY <1>1, <1>2, <1>3, <1>4, ValueSilent DEF Control

\* Steps that touch neither directories nor counters, and capture nothing.
LEMMA ValuePlain ==
  ASSUME HomeInv, ValueInv, NEW t \in Threads,
         \/ \E c \in Calls : Invoke(t, c)
         \/ Return(t) \/ AcquireRouting(t) \/ FindSlot(t) \/ ReadActive(t) \/ ReadPrevious(t)
         \/ LockActive(t) \/ EnterGate(t) \/ PinRouting(t) \/ PinDirectory(t)
         \/ GuardNext(t) \/ LoadEpoch(t) \/ SnapshotUnwind(t)
         \/ TxnRouting(t) \/ TxnAbort(t) \/ TxnLock(t) \/ SweepRouting(t)
  PROVE  ValueInv'
<1> USE DEF HomeInv
<1> DEFINE Froms == {"idle", "return", "route", "lookup", "read", "fallback", "lock", "gate",
                     "pin", "pin_directory", "guards", "collect", "txn_route", "txn_resolve",
                     "txn_lock", "exclusive"}
<1>1. pc[t] \in Froms
  BY DEF Invoke, Return, AcquireRouting, FindSlot, ReadActive, ReadPrevious, LockActive,
     EnterGate, PinRouting, PinDirectory, GuardNext, LoadEpoch, SnapshotUnwind, TxnRouting,
     TxnAbort, TxnLock, SweepRouting
<1>2. pc[t] \in NotDirty
  BY <1>1 DEF NotDirty, PCs, KeyPCs, SnapPCs, TxnPCs, SweepPCs
<1>3. UNCHANGED <<topology, counters, snapshot_cache, preimage>>
  BY DEF Invoke, Return, AcquireRouting, FindSlot, ReadActive, ReadPrevious, LockActive,
     EnterGate, PinRouting, PinDirectory, GuardNext, LoadEpoch, SnapshotUnwind, TxnRouting,
     TxnAbort, TxnLock, SweepRouting
<1>4. \E to : Goto(t, to) /\ to # "publish" /\ (to = "collect" => LoadEpoch(t))
  <2> DEFINE Tos == {"route", "txn_route", "cached", "exclusive", "idle", "lookup", "read",
                     "lock", "fallback", "return", "init", "promote", "gate", "pin", "recheck",
                     "pin_directory", "guards", "txn_resolve", "txn_lock", "txn_apply", "sweep"}
  <2>1. ASSUME NEW c \in Calls, Invoke(t, c)
        PROVE  \E to \in Tos : Goto(t, to)
    <3>1. c \in AllCalls
      BY CallsAssumption
    <3>2. FirstStep(c) \in Tos
      BY <3>1 DEF AllCalls, KeyCalls, TxnCalls, SnapCalls, SweepCalls, FirstStep, KeyOps
    <3>3. QED
      BY <2>1, <3>2 DEF Invoke
  <2>2. ASSUME GuardNext(t) \/ TxnLock(t)
        PROVE  \E to \in Tos : Goto(t, to)
    BY <2>2 DEF GuardNext, TxnLock, Goto, Control, CallType
  <2>3. ASSUME ~LoadEpoch(t)
        PROVE  \E to \in Tos : Goto(t, to)
    BY <2>1, <2>2, <2>3
       DEF Return, AcquireRouting, FindSlot, ReadActive, ReadPrevious, LockActive,
       EnterGate, PinRouting, PinDirectory, SnapshotUnwind, TxnRouting, TxnAbort, SweepRouting
  <2>4. \A to \in Tos : to # "publish" /\ to # "collect"
    OBVIOUS
  <2>5. ASSUME LoadEpoch(t) PROVE Goto(t, "collect")
    BY <2>5 DEF LoadEpoch
  <2> HIDE DEF Tos
  <2>6. QED
    BY <2>3, <2>4, <2>5
<1>5. pc'[t] # "publish" /\ OthersStay(t) /\ (pc'[t] = "collect" => LoadEpoch(t))
  <2>1. \A u \in Threads \ {t} : call'[u] = call[u]
    BY DEF Invoke, Return, AcquireRouting, FindSlot, ReadActive, ReadPrevious, LockActive,
       EnterGate, PinRouting, PinDirectory, GuardNext, LoadEpoch, SnapshotUnwind, TxnRouting,
       TxnAbort, TxnLock, SweepRouting, Control, CallType
  <2>2. QED
    BY <1>4, <2>1, PCOthers DEF OthersStay
<1>6. /\ \A u \in Threads \ {t} : cut'[u] = cut[u]
      /\ pc'[t] = "collect" => cut'[t] = write_epoch
  <2>1. ASSUME LoadEpoch(t) PROVE cut'[t] = write_epoch
    BY <2>1 DEF LoadEpoch, Control, CallType
  <2>2. UNCHANGED cut \/ \E n : cut' = [cut EXCEPT ![t] = n]
    BY DEF Invoke, Return, AcquireRouting, FindSlot, ReadActive, ReadPrevious, LockActive,
       EnterGate, PinRouting, PinDirectory, GuardNext, LoadEpoch, SnapshotUnwind, TxnRouting,
       TxnAbort, TxnLock, SweepRouting
  <2>3. QED
    BY <1>5, <2>1, <2>2 DEF Control, CallType
<1>7. UNCHANGED reply \/ \E r : Say(t, r) /\ r.tag # "snapshot"
  BY DEF Invoke, Return, AcquireRouting, FindSlot, ReadActive, ReadPrevious, LockActive,
     EnterGate, PinRouting, PinDirectory, GuardNext, LoadEpoch, SnapshotUnwind, TxnRouting,
     TxnAbort, TxnLock, SweepRouting, KeyReply, NoReply, PanickedReply
<1>8. Captured' \subseteq Captured
  <2>1. snapshot_cache' \subseteq Captured
    BY <1>3 DEF Captured
  <2>2. /\ \A u \in Threads \ {t} : reply'[u] = reply[u]
        /\ reply'[t] = reply[t] \/ reply'[t].tag # "snapshot"
    BY <1>7 DEF Say, Control, CallType
  <2>3. QED
    BY <2>1, <2>2, CapturedKept
<1>9. QED
  BY <1>2, <1>3, <1>5, <1>6, <1>8, QuietValues, ThreadSilent

\* A snapshot served from the cache, or put into it, is one already captured.
LEMMA ValueCache ==
  ASSUME HomeInv, ValueInv, NEW t \in Threads, CheckCache(t) \/ Recheck(t) \/ FillCache(t)
  PROVE  ValueInv'
<1> USE DEF HomeInv
<1>1. pc[t] \in NotDirty
  BY DEF CheckCache, Recheck, FillCache, NotDirty, PCs, SnapPCs
<1>2. UNCHANGED <<topology, counters, call, cut, preimage>>
  BY DEF CheckCache, Recheck, FillCache
<1>3. \E to \in {"gate", "pin", "return"} : Goto(t, to)
  BY DEF CheckCache, Recheck, FillCache
<1>4. pc'[t] \in {"gate", "pin", "return"} /\ OthersStay(t)
  BY <1>2, <1>3, PCOthers DEF OthersStay
<1>5. Captured' \subseteq Captured
  <2>1. CASE CheckCache(t) \/ Recheck(t)
    <3>1. UNCHANGED snapshot_cache
      BY <2>1 DEF CheckCache, Recheck
    <3>2. UNCHANGED reply \/ \E c \in snapshot_cache : Say(t, SnapshotReply(c.epoch, c.items))
      BY <2>1 DEF CheckCache, Recheck, Hits
    <3>3. ASSUME NEW c \in snapshot_cache, Say(t, SnapshotReply(c.epoch, c.items))
          PROVE  /\ \A u \in Threads \ {t} : reply'[u] = reply[u]
                 /\ [epoch |-> reply'[t].epoch, items |-> reply'[t].items] \in Captured
      <4>1. reply'[t] = SnapshotReply(c.epoch, c.items)
        BY <3>3 DEF Say, Control, CallType
      <4>2. c = [epoch |-> c.epoch, items |-> c.items]
        BY DEF Control, CallType
      <4>3. [epoch |-> reply'[t].epoch, items |-> reply'[t].items] = c
        BY <4>1, <4>2 DEF SnapshotReply
      <4>4. QED
        BY <3>3, <4>3, SayOthers DEF Captured
    <3>4. snapshot_cache' \subseteq Captured
      BY <3>1 DEF Captured
    <3>5. QED
      BY <3>2, <3>3, <3>4, CapturedKept
  <2>2. CASE FillCache(t)
    <3>1. UNCHANGED reply
      BY <2>2 DEF FillCache
    <3>2. reply[t].tag = "snapshot"
      BY <2>2 DEF FillCache, Control, CallMatches
    <3>3. snapshot_cache' \subseteq Captured
      BY <2>2, <3>2 DEF FillCache, Captured
    <3>4. QED
      BY <3>1, <3>3, CapturedKept
  <2>3. QED
    BY <2>1, <2>2
<1>6. QED
  BY <1>1, <1>2, <1>4, <1>5, QuietValues, ThreadSilent

\* Nothing is captured by a step that leaves replies alone, or answers with
\* anything but a snapshot.
LEMMA NothingCaptured ==
  ASSUME CallType, NEW t \in Threads, UNCHANGED snapshot_cache,
         UNCHANGED reply \/ \E r : Say(t, r) /\ r.tag # "snapshot"
  PROVE  Captured' \subseteq Captured
<1>1. snapshot_cache' \subseteq Captured
  BY DEF Captured
<1>2. /\ \A u \in Threads \ {t} : reply'[u] = reply[u]
      /\ reply'[t] = reply[t] \/ reply'[t].tag # "snapshot"
  BY DEF Say, CallType
<1>3. QED
  BY <1>1, <1>2, CapturedKept

\* Initializing slots and promoting a key changes no value.
LEMMA ValueInvisible ==
  ASSUME HomeInv, LocksHeld, ValueInv, NEW t \in Threads,
         InitSlot(t) \/ Promote(t) \/ TxnResolve(t)
  PROVE  ValueInv' /\ \A k \in Keys : Stored(k)' = Stored(k)
<1> USE DEF HomeInv
<1>1. pc[t] \in NotDirty
  BY DEF InitSlot, Promote, TxnResolve, NotDirty, PCs, KeyPCs, TxnPCs
<1>2. UNCHANGED <<counters, snapshot_cache, call, reply, cut, preimage>>
  BY DEF InitSlot, Promote, TxnResolve
<1>3. UNCHANGED pc \/ \E to \in {"lock", "apply", "txn_lock"} : Goto(t, to)
  BY DEF InitSlot, Promote, TxnResolve
<1>4. pc'[t] \notin {"publish", "collect"} /\ OthersStay(t)
  <2>1. CASE UNCHANGED pc
    BY <1>2, <2>1 DEF OthersStay, InitSlot, Promote, TxnResolve
  <2>2. CASE \E to \in {"lock", "apply", "txn_lock"} : Goto(t, to)
    BY <1>2, <2>2, PCOthers DEF OthersStay
  <2>3. QED
    BY <1>3, <2>1, <2>2
<1>5. /\ \A k \in Keys : Stored(k)' = Stored(k)
      /\ \A k \in Keys : Lookup(previous_shard(k), k) = Nil =>
                            Lookup(previous_shard(k), k)' = Nil
  <2>1. CASE InitSlot(t)
    <3>1. \A i \in Idx : shards'[i] = shards[i] \/ (shards[i] = NoShard /\ shards'[i] = EmptyShard)
      BY <2>1 DEF InitSlot, Layout, DirectoryType
    <3>2. QED
      BY <2>1, <3>1, InitializingEffect DEF InitSlot, Layout
  <2>2. CASE TxnResolve(t)
    BY <2>2, TxnResolveInitializes, InitializingEffect DEF TxnResolve, Layout
  <2>3. CASE Promote(t)
    <3>1. Key(t) \in Keys /\ Slot(Key(t)) # NoShard /\ Stored(Key(t)) \in OptVal
      BY <2>3, KeyTyped, SlotTypes
         DEF Promote, KeyPCs, Layout, LocksHeld, Holds, KeyHolds, Guarding
    <3>2. CASE UNCHANGED topology
      BY <3>2, QuietValues
    <3>3. CASE Writing(Key(t), Stored(Key(t)))
      BY <3>1, <3>3, WritingEffect DEF Layout
    <3>4. QED
      BY <2>3, <3>2, <3>3, PromoteWrites
  <2>4. QED
    BY <2>1, <2>2, <2>3
<1>6. Captured' \subseteq Captured
  BY <1>2, NothingCaptured DEF Control
<1>7. QED
  BY <1>1, <1>2, <1>4, <1>5, <1>6, ThreadSilent

\* Captured snapshots while the epoch stands still, and once it has grown.
LEMMA SameEpoch ==
  ASSUME CallType, ValueInv, UNCHANGED write_epoch, Captured' \subseteq Captured,
         Contents' = Contents \/ NoneCurrent
  PROVE  CapturedCurrent' /\ VersionNamesContents' /\ (NoneCurrent => NoneCurrent')
<1>1. NoneCurrent => NoneCurrent'
  BY DEF NoneCurrent
<1>2. VersionNamesContents'
  BY DEF ValueInv, VersionNamesContents
<1>3. CASE Contents' = Contents
  BY <1>1, <1>2, <1>3 DEF ValueInv, CapturedCurrent, Pairs
<1>4. CASE NoneCurrent
  <2>1. \A a \in Captured' : a.epoch \in Nat /\ a.epoch < write_epoch' /\ write_epoch' \in Nat
    BY <1>4, CapturedTypes DEF NoneCurrent, CallType
  <2>2. CapturedCurrent'
    BY <2>1 DEF CapturedCurrent
  <2>3. QED
    BY <1>1, <1>2, <2>2
<1>5. QED
  BY <1>3, <1>4

\* A new version names no captured snapshot.
LEMMA EpochGrows ==
  ASSUME CallType, ValueInv, write_epoch' = write_epoch + 1, Captured' \subseteq Captured
  PROVE  CapturedCurrent' /\ VersionNamesContents' /\ NoneCurrent'
<1>1. VersionNamesContents'
  BY DEF ValueInv, VersionNamesContents
<1>2. \A a \in Captured' : a.epoch \in Nat /\ a.epoch < write_epoch'
  BY CapturedTypes DEF ValueInv, CapturedCurrent, CallType
<1>3. CapturedCurrent' /\ NoneCurrent'
  BY <1>2 DEF CapturedCurrent, NoneCurrent, CallType
<1>4. QED
  BY <1>1, <1>3

\* One key's count changes, and total_len by as much.
LEMMA CountChanges ==
  ASSUME LenExact, NEW k \in Keys, \A j \in Keys \ {k} : Counted(j)' = Counted(j),
         total_len' = total_len + Entries(Counted(k)') - Entries(Counted(k))
  PROVE  LenExact'
<1> DEFINE S == {j \in Keys : Counted(j) # Nil}
<1>1. total_len = Cardinality(S)
  BY DEF LenExact, Counted
<1>2. IsFiniteSet(S) /\ Cardinality(S) \in Nat
  BY ConfigAssumption, FS_Subset, FS_CardinalityType
<1>3. /\ Counted(k)' # Nil => S' = S \cup {k}
      /\ Counted(k)' = Nil => S' = S \ {k}
  OBVIOUS
<1>4. k \in S <=> Counted(k) # Nil
  OBVIOUS
<1>5. /\ Cardinality(S \cup {k}) = IF k \in S THEN Cardinality(S) ELSE Cardinality(S) + 1
      /\ Cardinality(S \ {k}) = IF k \in S THEN Cardinality(S) - 1 ELSE Cardinality(S)
  BY <1>2, FS_AddElement, FS_RemoveElement
<1> HIDE DEF S
<1>6. total_len' = Cardinality(S')
  BY <1>1, <1>2, <1>3, <1>4, <1>5 DEF Entries
<1>7. QED
  BY <1>6 DEF LenExact, Counted, S

\* A store under the active guard: the old value is what the outside still sees
\* and what total_len still counts.
LEMMA ValueStore ==
  ASSUME HomeInv, LocksHeld, ValueInv, NEW t \in Threads, pc[t] = "apply",
         pc' = [pc EXCEPT ![t] = "publish"], NEW v \in OptVal,
         Writing(Key(t), v), Store(t, Key(t), v),
         UNCHANGED <<counters, call, cut>>, Captured' \subseteq Captured
  PROVE  ValueInv' /\ Contents' = Contents
<1> USE DEF HomeInv, ValueInv
<1>0. PICK k \in Keys : k = Key(t)
  BY KeyTyped DEF KeyPCs
<1>1. Slot(k) # NoShard /\ Stored(k) \in OptVal
  BY <1>0, SlotTypes DEF Layout, LocksHeld, Holds, KeyHolds, Guarding
<1>2. pc'[t] = "publish" /\ OthersStay(t) /\ Key(t)' = k
  BY <1>0, PCOthers DEF OthersStay, Goto, Key
<1>3. Possesses(t, k) /\ \A j \in Keys : ~Dirties(t, j)
  BY <1>0 DEF Possesses, Dirties
<1>4. \A u \in Threads \ {t} : ~Possesses(u, k)
  BY <1>1, <1>3, OnePossessor
<1>5. preimage[k] = Clean
  BY <1>1, <1>3, <1>4 DEF DirtyOwned, Possesses
<1>6. /\ preimage'[k] = Stored(k) /\ preimage'[k] # Clean
      /\ \A j \in Keys \ {k} : preimage'[j] = preimage[j]
  <2>1. Stored(k) = Lookup(Slot(k), k)
    BY <1>0 DEF Emptied, Stored, Key
  <2>2. QED
    BY <1>0, <1>1, <2>1, DistinctAssumption DEF Store, Control, CallType
<1>7. /\ Stored(k)' = v
      /\ \A j \in Keys \ {k} : Stored(j)' = Stored(j)
      /\ \A j \in Keys : Lookup(previous_shard(j), j) = Nil =>
                            Lookup(previous_shard(j), j)' = Nil
      /\ Lookup(previous_shard(k), k)' = Nil
  BY <1>0, <1>1, WritingEffect DEF Layout
<1>8. k \notin Unpublished /\ Unpublished' = Unpublished \cup {k}
  <2>1. k \notin Unpublished
    BY <1>3, <1>4 DEF Unpublished, Possesses, Dirties, Key
  <2>2. \A u \in Threads : pc'[u] = "publish" <=> (u = t \/ pc[u] = "publish")
    BY <1>2 DEF OthersStay
  <2>3. QED
    BY <1>0, <2>1, <2>2 DEF Unpublished, Key
<1>9. Contents' = Contents
  <2>1. \A j \in Keys : Visible(j)' = Visible(j)
    BY <1>5, <1>6, <1>7 DEF Visible
  <2>2. QED
    BY <2>1 DEF Contents
<1>10. DirtyOwned'
  <2>1. Dirties(t, k)'
    BY <1>2 DEF Dirties
  <2>2. \A u \in Threads \ {t}, j \in Keys : Dirties(u, j) => Dirties(u, j)'
    BY <1>2 DEF OthersStay, Dirties, Key, TxnKeys
  <2>3. QED
    BY <1>3, <1>6, <2>1, <2>2 DEF DirtyOwned
<1>11. Marked'
  <2>1. ASSUME NEW u \in Threads \ {t}, pc[u] = "publish"
        PROVE  Key(u) \in Keys \ {k} /\ UNCHANGED Key(u)
    BY <1>4, <2>1, KeyTyped DEF Possesses, Dirties, KeyPCs, Key
  <2>2. QED
    BY <1>1, <1>2, <1>6, <1>7, <2>1 DEF Marked, OthersStay
<1>12. LenExact'
  BY <1>6, <1>7, <1>8, CountKept DEF Counted, counters
<1>13. CapturedCurrent' /\ VersionNamesContents' /\ (NoneCurrent => NoneCurrent')
  BY <1>9, SameEpoch DEF counters, Control
<1>14. Settled'
  BY <1>6, <1>7, <1>8, <1>13 DEF Settled
<1>15. CutCurrent'
  BY <1>2 DEF CutCurrent, OthersStay, counters
<1>16. QED
  BY <1>9, <1>10, <1>11, <1>12, <1>13, <1>14, <1>15

\* Storing, or panicking while storing, keeps ValueInv.
LEMMA ValueApply ==
  ASSUME HomeInv, LocksHeld, ValueInv, NEW t \in Threads, Apply(t) \/ Unwind(t)
  PROVE  ValueInv'
<1> USE DEF HomeInv
<1>1. UNCHANGED <<counters, snapshot_cache, call, cut>>
  BY DEF Apply, Unwind
<1>2. Captured' \subseteq Captured
  <2>1. ASSUME Apply(t)
        PROVE  ReplyTo(call[t], Lookup(Slot(Key(t)), Key(t))).tag # "snapshot"
    <3>1. call[t] \in KeyCalls /\ call[t].op # "get"
      BY <2>1, ApplyStores
    <3>2. QED
      BY <3>1 DEF ReplyTo, KeyReply, KeyCalls, KeyOps
  <2>2. \E r : Say(t, r) /\ r.tag # "snapshot"
    BY <2>1 DEF Apply, Unwind, PanickedReply
  <2>3. QED
    BY <1>1, <2>2, NothingCaptured DEF Control
<1>3. CASE /\ pc[t] = "apply" /\ pc' = [pc EXCEPT ![t] = "publish"]
           /\ \E v \in OptVal : Writing(Key(t), v) /\ Store(t, Key(t), v)
  BY <1>1, <1>2, <1>3, ValueStore
<1>4. CASE /\ pc[t] \in {"lookup", "init", "read", "fallback", "promote", "apply"}
           /\ \E to \in {"return", "release"} : pc' = [pc EXCEPT ![t] = to]
           /\ UNCHANGED <<topology, preimage>>
  <2>1. pc'[t] \in {"return", "release"} /\ OthersStay(t)
    BY <1>1, <1>4, PCOthers DEF OthersStay, Goto
  <2>2. pc[t] \in NotDirty
    BY <1>4 DEF NotDirty, PCs, KeyPCs
  <2>3. QED
    BY <1>1, <1>2, <1>4, <2>1, <2>2, QuietValues, ThreadSilent
<1>5. QED
  BY <1>3, <1>4, ApplyStores, UnwindStores

\* Nobody is copying while a thread possesses a key.
LEMMA NoCollector ==
  ASSUME HomeInv, LocksHeld, NEW t \in Threads, NEW k \in Keys, Possesses(t, k)
  PROVE  \A u \in Threads : pc[u] # "collect"
BY BuilderAlone DEF LocksHeld, Holds, BuilderHolds

\* ShardMutation::drop: the count and the epoch catch up with the store.
LEMMA ValuePublish ==
  ASSUME HomeInv, LocksHeld, ValueInv, NEW t \in Threads, Publish(t)
  PROVE  ValueInv' /\ Contents' = Contents
<1> USE DEF HomeInv, ValueInv
<1>0. pc[t] = "publish" /\ Goto(t, "release")
      /\ UNCHANGED <<topology, snapshot_cache, call, reply, cut, preimage>>
  BY DEF Publish
<1>1. PICK k \in Keys : k = Key(t) /\ k = Key(t)'
  BY <1>0, KeyTyped DEF KeyPCs, Key
<1>2. pc'[t] = "release" /\ OthersStay(t)
  BY <1>0, PCOthers DEF OthersStay
<1>3. /\ preimage[k] # Clean /\ Lookup(previous_shard(k), k) = Nil
      /\ Stored(k) = Lookup(Slot(k), k)
  BY <1>0, <1>1 DEF Marked, Stored
<1>4. /\ total_len' = total_len + Entries(Stored(k)) - Entries(preimage[k])
      /\ write_epoch' = write_epoch + 1
  BY <1>1, <1>3 DEF Publish, ShardMutationDrop
<1>5. Possesses(t, k) /\ \A u \in Threads \ {t} : ~Possesses(u, k)
  <2>1. Possesses(t, k)
    BY <1>0, <1>1 DEF Possesses, Dirties
  <2>2. QED
    BY <2>1, OnePossessor
<1>6. k \in Unpublished /\ Unpublished' = Unpublished \ {k}
  <2>1. \A u \in Threads : pc'[u] = "publish" <=> (u # t /\ pc[u] = "publish")
    BY <1>0, <1>2 DEF OthersStay
  <2>2. \A u \in Threads \ {t} : pc[u] = "publish" => call[u].key # k
    BY <1>5 DEF Possesses, Dirties, Key
  <2>3. QED
    BY <1>0, <1>1, <2>1, <2>2 DEF Unpublished, Key
<1>7. \A j \in Keys : /\ Stored(j)' = Stored(j)
                      /\ Lookup(previous_shard(j), j)' = Lookup(previous_shard(j), j)
  BY <1>0, QuietValues
<1>8. Contents' = Contents
  BY <1>0, <1>7, ContentsKept
<1>9. Captured' \subseteq Captured
  BY <1>0, NothingCaptured DEF Control
<1>10. CapturedCurrent' /\ VersionNamesContents' /\ NoneCurrent'
  BY <1>4, <1>9, EpochGrows DEF Control
<1>11. DirtyOwned'
  <2>1. \A u \in Threads, j \in Keys : Dirties(u, j) => Dirties(u, j)'
    BY <1>0, <1>1, <1>2 DEF OthersStay, Dirties, Key, TxnKeys
  <2>2. QED
    BY <1>0, <2>1 DEF DirtyOwned
<1>12. Marked'
  <2>1. \A u \in Threads : pc'[u] = "publish" =>
           pc[u] = "publish" /\ Key(u) \in Keys /\ Key(u)' = Key(u)
    BY <1>0, <1>2, KeyTyped DEF OthersStay, KeyPCs, Key
  <2>2. QED
    BY <1>0, <1>7, <2>1 DEF Marked
<1>13. LenExact'
  <2>1. Counted(k) = preimage[k] /\ Counted(k)' = Stored(k)
    BY <1>6, <1>7 DEF Counted
  <2>2. \A j \in Keys \ {k} : Counted(j)' = Counted(j)
    BY <1>0, <1>6, <1>7 DEF Counted
  <2>3. QED
    BY <1>4, <2>1, <2>2, CountChanges
<1>14. Settled'
  BY <1>10 DEF Settled
<1>15. CutCurrent'
  BY <1>2, <1>5, NoCollector DEF CutCurrent, OthersStay
<1>16. QED
  BY <1>8, <1>10, <1>11, <1>12, <1>13, <1>14, <1>15

(*****************************************************************************)
(* A thread drops the guards of the keys K it has stored under: the stores   *)
(* become visible.  Either they change nothing the outside can tell, or no   *)
(* captured snapshot carries the current epoch.                              *)
(*****************************************************************************)
LEMMA ValueDrop ==
  ASSUME HomeInv, LocksHeld, ValueInv, NEW t \in Threads, OthersStay(t),
         pc[t] # "publish", pc'[t] = "return", NEW K \in SUBSET Keys,
         \A j \in Keys : Dirties(t, j) <=> j \in K,
         preimage' = [j \in Keys |-> IF j \in K THEN Clean ELSE preimage[j]],
         \A j \in Keys : Stored(j)' = Stored(j),
         \/ \A j \in Keys : Lookup(previous_shard(j), j) = Nil =>
                               Lookup(previous_shard(j), j)' = Nil
         \/ \A u \in Threads : pc[u] # "publish",
         UNCHANGED total_len,
         \/ UNCHANGED write_epoch
         \/ write_epoch' = write_epoch + 1 /\ K # {},
         UNCHANGED <<snapshot_cache, cut>>, Captured' \subseteq Captured
  PROVE  ValueInv'
<1> USE DEF HomeInv, ValueInv
<1>1. \A j \in K : Possesses(t, j) /\ \A u \in Threads \ {t} : ~Possesses(u, j)
  BY OnePossessor DEF Possesses
<1>2. Unpublished' = Unpublished /\ \A j \in K : j \notin Unpublished
  <2>1. \A u \in Threads : /\ (pc'[u] = "publish") <=> (pc[u] = "publish")
                           /\ pc[u] = "publish" => call'[u] = call[u]
    BY DEF OthersStay
  <2>2. \A j \in K : j \notin Unpublished
    BY <1>1 DEF Unpublished, Possesses, Dirties, Key
  <2>3. QED
    BY <2>1, <2>2 DEF Unpublished
<1>3. Contents' = Contents \/ NoneCurrent
  <2>1. SUFFICES ASSUME ~NoneCurrent PROVE Contents' = Contents
    OBVIOUS
  <2>2. \A j \in K : preimage[j] = Clean \/ preimage[j] = Stored(j)
    BY <1>2, <2>1 DEF Settled
  <2>3. \A j \in Keys : Visible(j)' = Visible(j)
    BY <2>2 DEF Visible
  <2>4. QED
    BY <2>3 DEF Contents
<1>4. CapturedCurrent' /\ VersionNamesContents' /\ (NoneCurrent => NoneCurrent')
  <2>1. CASE UNCHANGED write_epoch
    BY <1>3, <2>1, SameEpoch DEF Control
  <2>2. CASE write_epoch' = write_epoch + 1
    BY <2>2, EpochGrows DEF Control
  <2>3. QED
    BY <2>1, <2>2
<1>5. DirtyOwned'
  <2>1. ASSUME NEW j \in Keys, preimage'[j] # Clean
        PROVE  \E u \in Threads : Dirties(u, j)'
    <3>1. j \notin K /\ preimage[j] # Clean
      BY <2>1
    <3>2. PICK u \in Threads : Dirties(u, j)
      BY <3>1 DEF DirtyOwned
    <3>3. u # t
      BY <3>1, <3>2
    <3>4. Dirties(u, j)'
      BY <3>2, <3>3 DEF OthersStay, Dirties, Key, TxnKeys
    <3>5. QED
      BY <3>4
  <2>2. QED
    BY <2>1 DEF DirtyOwned
<1>6. Marked'
  <2>1. ASSUME NEW u \in Threads, pc'[u] = "publish"
        PROVE  /\ u # t /\ pc[u] = "publish" /\ Key(u) \in Keys \ K /\ Key(u)' = Key(u)
    <3>1. u # t /\ pc[u] = "publish" /\ Key(u)' = Key(u)
      BY <2>1 DEF OthersStay, Key
    <3>2. Key(u) \in Keys /\ Possesses(u, Key(u))
      BY <3>1, KeyTyped DEF KeyPCs, Possesses, Dirties
    <3>3. QED
      BY <1>1, <3>1, <3>2
  <2>2. QED
    BY <2>1 DEF Marked
<1>7. LenExact'
  BY <1>2, CountKept DEF Counted
<1>8. Settled'
  <2>1. CASE UNCHANGED write_epoch
    BY <1>2, <1>4, <2>1 DEF Settled
  <2>2. CASE write_epoch' = write_epoch + 1
    BY <2>2, EpochGrows DEF Settled, Control
  <2>3. QED
    BY <2>1, <2>2
<1>9. CutCurrent'
  <2>1. CASE UNCHANGED write_epoch
    BY <2>1 DEF CutCurrent, OthersStay
  <2>2. CASE K # {}
    BY <1>1, <2>2, NoCollector DEF CutCurrent, OthersStay
  <2>3. QED
    BY <2>1, <2>2
<1>10. QED
  BY <1>4, <1>5, <1>6, <1>7, <1>8, <1>9

\* Dropping the guard of a key makes its change visible.
LEMMA ValueRelease ==
  ASSUME HomeInv, LocksHeld, ValueInv, NEW t \in Threads, Release(t)
  PROVE  ValueInv'
<1> USE DEF HomeInv
<1>1. /\ pc[t] = "release" /\ Goto(t, "return")
      /\ UNCHANGED <<topology, counters, snapshot_cache, call, reply, cut>>
  BY DEF Release
<1>2. PICK k \in Keys : k = Key(t)
  BY <1>1, KeyTyped DEF KeyPCs
<1>3. pc'[t] = "return" /\ OthersStay(t)
  BY <1>1, PCOthers DEF OthersStay
<1>4. \A j \in Keys : Dirties(t, j) <=> j \in {k}
  BY <1>1, <1>2 DEF Dirties
<1>5. preimage' = [j \in Keys |-> IF j \in {k} THEN Clean ELSE preimage[j]]
  BY <1>2 DEF Release, Control, CallType
<1>6. Captured' \subseteq Captured
  BY <1>1, NothingCaptured DEF Control
<1>7. QED
  BY <1>1, <1>3, <1>4, <1>5, <1>6, QuietValues, ValueDrop DEF counters

\* A transaction makes all its changes visible at once.
LEMMA ValueTxnEnd ==
  ASSUME HomeInv, LocksHeld, ValueInv, NEW t \in Threads, TxnCommit(t) \/ TxnUnwind(t)
  PROVE  ValueInv'
<1> USE DEF HomeInv
<1>1. /\ pc[t] = "txn_apply" /\ Goto(t, "return")
      /\ UNCHANGED <<topology, total_len, snapshot_cache, call, cut>>
      /\ preimage' = [k \in Keys |-> IF k \in TxnKeys(t) THEN Clean ELSE preimage[k]]
      /\ \E r \in {DoneReply, PanickedReply} : Say(t, r)
  BY DEF TxnCommit, TxnUnwind, TxnEnd
<1>2. call[t] \in TxnCalls /\ TxnKeys(t) \subseteq Keys
  BY <1>1, TxnKeysTyped DEF Control, CallMatches, TxnPCs
<1>3. pc'[t] = "return" /\ OthersStay(t)
  BY <1>1, PCOthers DEF OthersStay
<1>4. PICK K \in SUBSET Keys : K = TxnKeys(t)
  BY <1>2
<1>5. \A j \in Keys : Dirties(t, j) <=> j \in K
  BY <1>1, <1>4 DEF Dirties
<1>6. Captured' \subseteq Captured
  BY <1>1, NothingCaptured DEF Control, DoneReply, PanickedReply
<1>7. \/ UNCHANGED write_epoch
      \/ write_epoch' = write_epoch + 1 /\ K # {}
  <2>1. ASSUME call[t].steps # <<>> PROVE K # {}
    <3>1. call[t].steps \in Seq(TxnSteps)
      BY <1>2, TxnKeysTyped
    <3>2. 1 \in DOMAIN call[t].steps
      BY <2>1, <3>1
    <3>3. QED
      BY <1>4, <3>2 DEF TxnKeys
  <2>2. QED
    BY <2>1 DEF TxnCommit, TxnUnwind
<1>8. QED
  BY <1>1, <1>3, <1>4, <1>5, <1>6, <1>7, QuietValues, ValueDrop

\* One step of a transaction stores and publishes under its guards.
LEMMA ValueTxnApply ==
  ASSUME HomeInv, LocksHeld, ValueInv, NEW t \in Threads, TxnApply(t)
  PROVE  ValueInv' /\ Contents' = Contents
<1> USE DEF HomeInv, ValueInv
<1>1. PICK k \in Keys, new \in OptVal, s \in TxnSteps :
        /\ s = StepNow(t) /\ k = s.key /\ new = Leaves(s, Stored(k)) /\ k \in TxnKeys(t)
        /\ pc[t] = "txn_apply" /\ UNCHANGED <<pc, call>>
        /\ Writing(k, new)
        /\ preimage' = [preimage EXCEPT ![k] = IF @ = Clean THEN Stored(k) ELSE @]
        /\ ShardMutationDrop(Stored(k), new, s.op = "write")
  BY TxnApplyWrites
<1>2. UNCHANGED <<snapshot_cache, reply, cut>>
  BY DEF TxnApply
<1>3. Slot(k) # NoShard /\ Stored(k) \in OptVal
  BY <1>1, SlotTypes DEF LocksHeld, Holds, TxnHolds, Layout
<1>4. /\ Stored(k)' = new
      /\ \A j \in Keys \ {k} : Stored(j)' = Stored(j)
      /\ \A j \in Keys : Lookup(previous_shard(j), j) = Nil =>
                            Lookup(previous_shard(j), j)' = Nil
  BY <1>1, <1>3, WritingEffect DEF Layout
<1>5. /\ preimage'[k] = IF preimage[k] = Clean THEN Stored(k) ELSE preimage[k]
      /\ \A j \in Keys \ {k} : preimage'[j] = preimage[j]
      /\ preimage'[k] # Clean
  BY <1>1, <1>3, DistinctAssumption DEF Control, CallType
<1>6. Possesses(t, k) /\ \A u \in Threads \ {t} : ~Possesses(u, k)
  <2>1. Possesses(t, k)
    BY <1>1 DEF Possesses, Dirties
  <2>2. QED
    BY <2>1, OnePossessor
<1>7. k \notin Unpublished /\ Unpublished' = Unpublished
  BY <1>1, <1>6 DEF Unpublished, Possesses, Dirties, Key
<1>8. Contents' = Contents
  <2>1. \A j \in Keys : Visible(j)' = Visible(j)
    BY <1>4, <1>5, DistinctAssumption DEF Visible
  <2>2. QED
    BY <2>1 DEF Contents
<1>9. Captured' \subseteq Captured
  BY <1>2, NothingCaptured DEF Control
<1>10. DirtyOwned'
  <2>1. \A u \in Threads, j \in Keys : Dirties(u, j) => Dirties(u, j)'
    BY <1>1 DEF Dirties, Key, TxnKeys
  <2>2. Dirties(t, k)
    BY <1>1 DEF Dirties
  <2>3. QED
    BY <1>5, <2>1, <2>2 DEF DirtyOwned
<1>11. Marked'
  <2>1. \A u \in Threads : pc[u] = "publish" => Key(u) \in Keys \ {k} /\ Key(u)' = Key(u)
    BY <1>1, <1>6, KeyTyped DEF KeyPCs, Possesses, Dirties, Key
  <2>2. QED
    BY <1>1, <1>4, <1>5, <2>1 DEF Marked
<1>12. LenExact'
  <2>1. Counted(k) = Stored(k) /\ Counted(k)' = new
    BY <1>4, <1>7 DEF Counted
  <2>2. \A j \in Keys \ {k} : Counted(j)' = Counted(j)
    BY <1>4, <1>5, <1>7 DEF Counted
  <2>3. QED
    BY <1>1, <2>1, <2>2, CountChanges DEF ShardMutationDrop
<1>13. \/ UNCHANGED write_epoch /\ new = Stored(k)
       \/ write_epoch' = write_epoch + 1
  BY <1>1, <1>3 DEF ShardMutationDrop, Leaves, TxnSteps, Entries
<1>14. CapturedCurrent' /\ VersionNamesContents' /\ Settled'
  <2>1. CASE UNCHANGED write_epoch /\ new = Stored(k)
    <3>1. CapturedCurrent' /\ VersionNamesContents' /\ (NoneCurrent => NoneCurrent')
      BY <1>8, <1>9, <2>1, SameEpoch DEF Control
    <3>2. Settled'
      BY <1>4, <1>5, <1>7, <2>1, <3>1 DEF Settled
    <3>3. QED
      BY <3>1, <3>2
  <2>2. CASE write_epoch' = write_epoch + 1
    BY <1>9, <2>2, EpochGrows DEF Settled, Control
  <2>3. QED
    BY <1>13, <2>1, <2>2
<1>15. CutCurrent'
  BY <1>1, <1>6, NoCollector DEF CutCurrent
<1>16. QED
  BY <1>8, <1>10, <1>11, <1>12, <1>14, <1>15

\* A copy of all shards of both generations is exactly what is stored.
LEMMA AllItemsStored ==
  ASSUME Layout
  PROVE  AllItems = {<<k, Stored(k)>> : k \in {j \in Keys : Stored(j) # Nil}}
<1> DEFINE P == {<<k, Stored(k)>> : k \in {j \in Keys : Stored(j) # Nil}}
<1>1. ASSUME NEW slot
      PROVE  Items(slot) = {<<k, Lookup(slot, k)>> : k \in {j \in Keys : Lookup(slot, j) # Nil}}
  BY DEF Items, Pairs, Lookup
<1>2. ASSUME NEW p \in AllItems
      PROVE  p \in P
  <2>1. PICK i \in Idx : p \in Items(shards[i]) \cup Items(previous_shards[i])
    BY DEF AllItems
  <2>2. CASE p \in Items(shards[i])
    <3>1. PICK k \in Keys : p = <<k, Lookup(shards[i], k)>> /\ Lookup(shards[i], k) # Nil
      BY <1>1, <2>2
    <3>2. i = shard_index(k)
      BY <3>1 DEF Layout, OneHome
    <3>3. Stored(k) = Lookup(shards[i], k)
      BY <3>1, <3>2 DEF Stored, Slot
    <3>4. QED
      BY <3>1, <3>3
  <2>3. CASE p \in Items(previous_shards[i])
    <3>1. PICK k \in Keys : /\ p = <<k, Lookup(previous_shards[i], k)>>
                            /\ Lookup(previous_shards[i], k) # Nil
      BY <1>1, <2>3
    <3>2. i = previous_index(k) /\ previous_shard_count # 0
      BY <3>1 DEF Layout, OneHome
    <3>3. Lookup(previous_shard(k), k) = Lookup(previous_shards[i], k)
      BY <3>2 DEF previous_shard
    <3>4. Lookup(Slot(k), k) = Nil
      BY <3>1, <3>3, IndexInRange DEF Layout, OneHome, Slot
    <3>5. Stored(k) = Lookup(previous_shards[i], k)
      BY <3>3, <3>4 DEF Stored
    <3>6. QED
      BY <3>1, <3>5
  <2>4. QED
    BY <2>1, <2>2, <2>3
<1>3. ASSUME NEW p \in P
      PROVE  p \in AllItems
  <2>1. PICK k \in Keys : p = <<k, Stored(k)>> /\ Stored(k) # Nil
    OBVIOUS
  <2>2. CASE Lookup(Slot(k), k) # Nil
    <3>1. Stored(k) = Lookup(shards[shard_index(k)], k) /\ shard_index(k) \in Idx
      BY <2>2, IndexInRange DEF Stored, Slot, Layout
    <3>2. p \in Items(shards[shard_index(k)])
      BY <1>1, <2>1, <3>1
    <3>3. QED
      BY <3>1, <3>2 DEF AllItems
  <2>3. CASE Lookup(Slot(k), k) = Nil
    <3>1. Stored(k) = Lookup(previous_shard(k), k)
      BY <2>3 DEF Stored
    <3>2. previous_shard_count # 0
      BY <2>1, <3>1 DEF previous_shard, Lookup
    <3>3. previous_index(k) \in Idx /\ Stored(k) = Lookup(previous_shards[previous_index(k)], k)
      BY <3>1, <3>2, PreviousInRange DEF previous_shard, Layout
    <3>4. p \in Items(previous_shards[previous_index(k)])
      BY <1>1, <2>1, <3>3
    <3>5. QED
      BY <3>3, <3>4 DEF AllItems
  <2>4. QED
    BY <2>2, <2>3
<1>4. QED
  BY <1>2, <1>3

\* With all preimages clean, the contents are what is stored.
LEMMA CleanContents ==
  ASSUME \A k \in Keys : preimage[k] = Clean
  PROVE  Pairs(Contents) = {<<k, Stored(k)>> : k \in {j \in Keys : Stored(j) # Nil}}
BY DEF Contents, Visible, Pairs

\* The builder copies under all its guards: it captures the current contents.
LEMMA CollectExact ==
  ASSUME HomeInv, LocksHeld, ValueInv, NEW t \in Threads, pc[t] = "collect"
  PROVE  /\ \A k \in Keys : preimage[k] = Clean
         /\ AllItems = Pairs(Contents)
         /\ cut[t] = write_epoch
<1>1. \A u \in Threads, k \in Keys : ~Possesses(u, k)
  BY BuilderAlone DEF LocksHeld, Holds, BuilderHolds
<1>2. \A k \in Keys : preimage[k] = Clean
  BY <1>1 DEF ValueInv, DirtyOwned, Possesses
<1>3. QED
  BY <1>2, AllItemsStored, CleanContents DEF HomeInv, ValueInv, CutCurrent

\* What is collected under all guards is the contents of its version.
LEMMA ValueCollect ==
  ASSUME HomeInv, LocksHeld, ValueInv, NEW t \in Threads, Collect(t)
  PROVE  ValueInv'
<1> USE DEF HomeInv, ValueInv
<1>1. /\ pc[t] = "collect" /\ UNCHANGED <<topology, counters, snapshot_cache, call, preimage>>
      /\ Say(t, SnapshotReply(cut[t], AllItems))
  BY DEF Collect
<1>2. PICK to \in {"return", "cache"} : Goto(t, to)
  BY DEF Collect
<1>3. pc'[t] = to /\ OthersStay(t)
  BY <1>1, <1>2, PCOthers DEF OthersStay
<1>4. /\ \A k \in Keys : preimage[k] = Clean
      /\ AllItems = Pairs(Contents) /\ cut[t] = write_epoch
  BY <1>1, CollectExact
<1> DEFINE new == [epoch |-> write_epoch, items |-> Pairs(Contents)]
<1>5. Captured' \subseteq Captured \cup {new}
  <2>1. /\ reply'[t] = SnapshotReply(write_epoch, Pairs(Contents))
        /\ \A u \in Threads \ {t} : reply'[u] = reply[u]
    BY <1>1, <1>4, SayOthers DEF Say, Control, CallType
  <2>2. [epoch |-> reply'[t].epoch, items |-> reply'[t].items] = new
    BY <2>1 DEF SnapshotReply
  <2>3. \A a \in Captured' : a \in Captured \/ a = new
    BY <1>1, <2>1, <2>2 DEF Captured
  <2>4. QED
    BY <2>3
<1>6. \A k \in Keys : /\ Stored(k)' = Stored(k)
                      /\ Lookup(previous_shard(k), k)' = Lookup(previous_shard(k), k)
  BY <1>1, QuietValues
<1>7. Contents' = Contents /\ write_epoch' = write_epoch
  BY <1>1, <1>6, ContentsKept DEF counters
<1>8. new.epoch = write_epoch /\ new.items = Pairs(Contents)
  OBVIOUS
<1> HIDE DEF new
<1>9. CapturedCurrent'
  <2>1. Pairs(Contents)' = Pairs(Contents)
    BY <1>7 DEF Pairs
  <2>2. \A a \in Captured' : a.epoch <= write_epoch /\
                             (a.epoch = write_epoch => a.items = Pairs(Contents))
    BY <1>5, <1>8 DEF CapturedCurrent, Control, CallType
  <2>3. QED
    BY <1>7, <2>1, <2>2 DEF CapturedCurrent
<1>10. VersionNamesContents'
  <2>1. \A p, q \in Pairs(Contents) : p[1] = q[1] => p = q
    BY DEF Pairs
  <2>2. \A a, b \in Captured \cup {new} : a.epoch = b.epoch => a.items = b.items
    BY <1>8 DEF VersionNamesContents, CapturedCurrent
  <2>3. \A a \in Captured \cup {new} : \A p, q \in a.items : p[1] = q[1] => p = q
    BY <1>8, <2>1 DEF VersionNamesContents
  <2>4. QED
    BY <1>5, <2>2, <2>3 DEF VersionNamesContents
<1>11. DirtyOwned' /\ Settled'
  BY <1>1, <1>4 DEF DirtyOwned, Settled
<1>12. Unpublished' = Unpublished
  <2>1. \A u \in Threads : (pc'[u] = "publish") <=> (pc[u] = "publish")
    BY <1>1, <1>3 DEF OthersStay
  <2>2. QED
    BY <1>1, <2>1 DEF Unpublished
<1>13. LenExact'
  BY <1>1, <1>6, <1>12, CountKept DEF Counted, counters
<1>14. Marked'
  BY <1>1, <1>3, <1>4, <1>6, KeyTyped DEF Marked, OthersStay, KeyPCs
<1>15. CutCurrent'
  BY <1>1, <1>3 DEF Collect, CutCurrent, OthersStay, counters, Control, CallType
<1>16. QED
  BY <1>9, <1>10, <1>11, <1>13, <1>14, <1>15

(*****************************************************************************)
(* Removals of a sweep: a condemned entry is the key's stored value, and     *)
(* afterwards nothing is stored under it.                                    *)
(*****************************************************************************)
Sweeping(l, gone) ==
  /\ IF l[1] = "active"
     THEN /\ shards' = [shards EXCEPT ![l[2]] = Remove(@, gone)]
          /\ UNCHANGED previous_shards
     ELSE /\ previous_shards' = [previous_shards EXCEPT ![l[2]] = Remove(@, gone)]
          /\ UNCHANGED shards
  /\ UNCHANGED <<shard_count, previous_shard_count>>

\* What removing the keys gone from one slot does to the values stored.
LEMMA SweepingEffect ==
  ASSUME Layout, NEW l \in ShardLocks, NEW gone \in SUBSET Present(SlotOf(l)),
         Sweeping(l, gone), SlotOf(l) # NoShard
  PROVE  /\ gone \subseteq Keys
         /\ \A k \in gone : Stored(k) = SlotOf(l)[k] /\ Stored(k) # Nil /\ Stored(k)' = Nil
         /\ \A k \in Keys \ gone : Stored(k)' = Stored(k)
<1>1. l[2] \in Idx /\ l[1] \in {"active", "previous"}
  BY DEF ShardLocks
<1>2. SlotOf(l) \in Shard
  BY <1>1 DEF SlotOf, Layout, DirectoryType
<1>3. /\ Remove(SlotOf(l), gone) \in Shard
      /\ \A k \in Keys : Lookup(Remove(SlotOf(l), gone), k)
                           = IF k \in gone THEN Nil ELSE Lookup(SlotOf(l), k)
  BY <1>2, DistinctAssumption DEF Remove, Shard, OptVal, Lookup
<1>4. gone \subseteq Keys /\ \A k \in gone : Lookup(SlotOf(l), k) = SlotOf(l)[k]
                                           /\ SlotOf(l)[k] # Nil
  BY DEF Present, Lookup
<1>5. \A k \in Keys : /\ shard_index(k)' = shard_index(k) /\ shard_index(k) \in Idx
                      /\ previous_index(k)' = previous_index(k)
                      /\ previous_shard_count # 0 => previous_index(k) \in Idx
                      /\ previous_shard_count' = previous_shard_count
  BY IndexInRange, PreviousInRange DEF Sweeping, shard_index, previous_index, Layout
<1>6. \A k \in Keys : Lookup(NoShard, k) = Nil
  BY DEF Lookup
<1>7. CASE l[1] = "active"
  <2>1. /\ SlotOf(l) = shards[l[2]] /\ UNCHANGED previous_shards
        /\ shards'[l[2]] = Remove(SlotOf(l), gone)
        /\ \A m \in Idx \ {l[2]} : shards'[m] = shards[m]
    BY <1>1, <1>7 DEF SlotOf, Sweeping, Layout, DirectoryType
  <2>2. \A k \in gone : l[2] = shard_index(k) /\ Lookup(previous_shard(k), k) = Nil
    BY <1>1, <1>4, <2>1 DEF Layout, OneHome
  <2>3. \A k \in Keys : Lookup(previous_shard(k), k)' = Lookup(previous_shard(k), k)
    BY <1>5, <2>1 DEF previous_shard, Lookup
  <2>4. \A k \in Keys : Lookup(Slot(k), k)' = IF k \in gone THEN Nil ELSE Lookup(Slot(k), k)
    <3>1. \A k \in Keys : Lookup(Slot(k), k)' = Lookup(shards'[shard_index(k)], k)
      BY <1>5 DEF Slot, Lookup
    <3>2. \A k \in Keys : Lookup(Slot(k), k) = Lookup(shards[shard_index(k)], k)
      BY DEF Slot
    <3>3. QED
      BY <1>3, <1>5, <2>1, <2>2, <3>1, <3>2
  <2>5. \A k \in gone : Lookup(Slot(k), k) = SlotOf(l)[k]
    BY <1>4, <2>1, <2>2 DEF Slot
  <2>6. QED
    BY <1>4, <2>2, <2>3, <2>4, <2>5 DEF Stored
<1>8. CASE l[1] = "previous"
  <2>1. /\ SlotOf(l) = previous_shards[l[2]] /\ UNCHANGED shards
        /\ previous_shards'[l[2]] = Remove(SlotOf(l), gone)
        /\ \A m \in Idx \ {l[2]} : previous_shards'[m] = previous_shards[m]
    BY <1>1, <1>8 DEF SlotOf, Sweeping, Layout, DirectoryType
  <2>2. \A k \in gone : l[2] = previous_index(k) /\ previous_shard_count # 0
    BY <1>1, <1>4, <2>1 DEF Layout, OneHome
  <2>3. \A k \in gone : previous_shard(k) = SlotOf(l)
    BY <2>1, <2>2 DEF previous_shard
  <2>4. \A k \in gone : Lookup(Slot(k), k) = Nil
    BY <1>4, <1>5, <2>3 DEF Layout, OneHome, Slot
  <2>5. \A k \in Keys : Lookup(Slot(k), k)' = Lookup(Slot(k), k)
    BY <1>5, <2>1 DEF Slot, Lookup
  <2>6. \A k \in Keys : Lookup(previous_shard(k), k)'
                          = IF k \in gone THEN Nil ELSE Lookup(previous_shard(k), k)
    <3>1. \A k \in Keys : previous_shard_count # 0 =>
             /\ Lookup(previous_shard(k), k)' = Lookup(previous_shards'[previous_index(k)], k)
             /\ Lookup(previous_shard(k), k) = Lookup(previous_shards[previous_index(k)], k)
      BY <1>5 DEF previous_shard, Lookup
    <3>2. \A k \in Keys : previous_shard_count = 0 =>
             Lookup(previous_shard(k), k)' = Nil /\ Lookup(previous_shard(k), k) = Nil
      BY <1>5, <1>6 DEF previous_shard, Lookup
    <3>3. QED
      BY <1>3, <1>5, <2>1, <2>2, <3>1, <3>2
  <2>7. QED
    BY <1>4, <2>3, <2>4, <2>5, <2>6 DEF Stored
<1>9. QED
  BY <1>1, <1>7, <1>8

\* Removing a set of entries that are all counted lowers the count by its size.
LEMMA CountDrops ==
  ASSUME LenExact, NEW gone \in SUBSET Keys,
         \A k \in gone : Counted(k) # Nil /\ Counted(k)' = Nil,
         \A k \in Keys \ gone : Counted(k)' = Counted(k),
         total_len' = total_len - Cardinality(gone)
  PROVE  LenExact'
<1> DEFINE S == {j \in Keys : Counted(j) # Nil}
<1>1. total_len = Cardinality(S)
  BY DEF LenExact, Counted
<1>2. IsFiniteSet(S) /\ IsFiniteSet(gone)
  BY ConfigAssumption, FS_Subset
<1>3. S' = S \ gone /\ S \cap gone = gone
  OBVIOUS
<1>4. Cardinality(S \ gone) = Cardinality(S) - Cardinality(S \cap gone)
  BY <1>2, FS_Difference
<1> HIDE DEF S
<1>5. total_len' = Cardinality(S')
  BY <1>1, <1>3, <1>4
<1>6. QED
  BY <1>5 DEF LenExact, Counted, S

\* One removal of a sweep and its record_write.
LEMMA ValueSweepShard ==
  ASSUME HomeInv, LocksHeld, ValueInv, NEW t \in Threads, SweepShard(t)
  PROVE  ValueInv' /\ Contents' = Contents
<1> USE DEF HomeInv, ValueInv
<1>1. /\ pc[t] = "sweep" /\ UNCHANGED <<pc, locks, call, reply, at, cut, snapshot_cache>>
      /\ UNCHANGED <<shard_count, previous_shard_count>>
  BY DEF SweepShard
<1>2. PICK l \in ShardLocks, gone \in SUBSET Keys :
         /\ Condemned(t, l) # {} /\ gone \subseteq Condemned(t, l)
         /\ preimage' = [k \in Keys |-> IF k \in gone /\ preimage[k] = Clean
                                        THEN SlotOf(l)[k] ELSE preimage[k]]
         /\ Sweeping(l, gone)
         /\ record_write(Cardinality(gone))
  BY <1>1 DEF SweepShard, Sweeping
<1>3. gone \in SUBSET Present(SlotOf(l)) /\ SlotOf(l) # NoShard
  BY <1>2 DEF Condemned, Present
<1>4. /\ \A k \in gone : Stored(k) = SlotOf(l)[k] /\ Stored(k) # Nil /\ Stored(k)' = Nil
      /\ \A k \in Keys \ gone : Stored(k)' = Stored(k)
  BY <1>2, <1>3, SweepingEffect
<1>5. /\ \A u \in Threads : pc[u] \notin {"publish", "collect"}
      /\ Unpublished = {} /\ Unpublished' = {}
  <2>1. \A u \in Threads : pc[u] \notin {"publish", "collect"}
    BY <1>1, SweepAlone DEF Bare, Guarding
  <2>2. QED
    BY <1>1, <2>1 DEF Unpublished
<1>6. Captured' \subseteq Captured
  BY <1>1, NothingCaptured DEF Control
<1>7. CapturedCurrent' /\ VersionNamesContents' /\ NoneCurrent'
  BY <1>2, <1>6, EpochGrows DEF Control, record_write
<1>8. DirtyOwned' /\ Marked' /\ Settled' /\ CutCurrent'
  BY <1>1, <1>5, <1>7 DEF DirtyOwned, Dirties, Marked, Settled, CutCurrent
<1>9. LenExact'
  <2>1. \A k \in Keys : Counted(k) = Stored(k) /\ Counted(k)' = Stored(k)'
    BY <1>5 DEF Counted
  <2>2. total_len' = total_len - Cardinality(gone)
    BY <1>2 DEF record_write
  <2>3. QED
    BY <1>4, <2>1, <2>2, CountDrops
<1>10. Contents' = Contents
  <2>1. \A k \in Keys : Stored(k) # Clean
    BY SlotTypes, DistinctAssumption DEF Layout
  <2>2. \A k \in Keys : Visible(k)' = Visible(k)
    BY <1>2, <1>4, <2>1 DEF Visible
  <2>3. QED
    BY <2>2 DEF Contents
<1>11. QED
  BY <1>7, <1>8, <1>9, <1>10

\* Nothing the sweep should remove is left once no shard has any of it.
LEMMA SweptAway ==
  ASSUME Layout, NEW t \in Threads, \A l \in ShardLocks : Condemned(t, l) = {},
         NEW k \in Keys, k \notin (IF call[t].op = "retain" THEN call[t].keep ELSE {})
  PROVE  Lookup(Slot(k), k) = Nil /\ Lookup(previous_shard(k), k) = Nil
<1>1. \A l \in ShardLocks : Lookup(SlotOf(l), k) = Nil
  BY DEF Condemned, Present, Lookup
<1>2. Lookup(Slot(k), k) = Nil
  <2>1. shard_index(k) \in Idx /\ Active(shard_index(k)) \in ShardLocks
    BY IndexInRange, LockNames DEF Layout
  <2>2. SlotOf(Active(shard_index(k))) = Slot(k)
    BY DEF SlotOf, Active, Slot
  <2>3. QED
    BY <1>1, <2>1, <2>2
<1>3. Lookup(previous_shard(k), k) = Nil
  <2>1. CASE previous_shard_count = 0
    BY <2>1 DEF previous_shard, Lookup
  <2>2. CASE previous_shard_count # 0
    <3>1. previous_index(k) \in Idx /\ Previous(previous_index(k)) \in ShardLocks
      BY <2>2, PreviousInRange, LockNames DEF Layout
    <3>2. SlotOf(Previous(previous_index(k))) = previous_shard(k)
      BY <2>2 DEF SlotOf, Previous, previous_shard
    <3>3. QED
      BY <1>1, <3>1, <3>2
  <2>3. QED
    BY <2>1, <2>2
<1>4. QED
  BY <1>2, <1>3

\* The end of a sweep changes no stored value: clear drops an empty generation.
LEMMA SweepEndStored ==
  ASSUME Layout, NEW t \in Threads, SweepFinish(t) \/ SweepUnwind(t)
  PROVE  \A k \in Keys : Stored(k)' = Stored(k)
<1>1. UNCHANGED <<shards, shard_count>>
  BY DEF SweepFinish, SweepUnwind, SweepEnd
<1>2. \A k \in Keys : Lookup(Slot(k), k)' = Lookup(Slot(k), k)
  BY <1>1 DEF Slot, shard_index, Lookup
<1>3. CASE UNCHANGED <<previous_shards, previous_shard_count>>
  BY <1>2, <1>3 DEF Stored, previous_shard, previous_index, Lookup
<1>4. CASE /\ call[t].op = "clear" /\ \A l \in ShardLocks : Condemned(t, l) = {}
           /\ previous_shard_count' = 0
  <2>1. \A k \in Keys : Lookup(previous_shard(k), k)' = Nil
    BY <1>4 DEF previous_shard, Lookup
  <2>2. QED
    BY <1>2, <1>4, <2>1, SweptAway DEF Stored
<1>5. QED
  BY <1>3, <1>4 DEF SweepFinish, SweepUnwind

\* A sweep drops exclusive routing: what it removed becomes visible at once.
LEMMA ValueSweepEnd ==
  ASSUME HomeInv, LocksHeld, ValueInv, NEW t \in Threads, SweepFinish(t) \/ SweepUnwind(t)
  PROVE  ValueInv'
<1> USE DEF HomeInv
<1>1. /\ pc[t] = "sweep" /\ Goto(t, "return")
      /\ UNCHANGED <<counters, snapshot_cache, call, cut>>
      /\ preimage' = [k \in Keys |-> Clean]
      /\ \E r \in {DoneReply, PanickedReply} : Say(t, r)
  BY DEF SweepFinish, SweepUnwind, SweepEnd
<1>2. pc'[t] = "return" /\ OthersStay(t)
  BY <1>1, PCOthers DEF OthersStay
<1>3. PICK K \in SUBSET Keys : K = Keys
  OBVIOUS
<1>4. \A j \in Keys : Dirties(t, j) <=> j \in K
  BY <1>1, <1>3 DEF Dirties
<1>5. preimage' = [j \in Keys |-> IF j \in K THEN Clean ELSE preimage[j]]
  BY <1>1, <1>3
<1>6. Captured' \subseteq Captured
  BY <1>1, NothingCaptured DEF Control, DoneReply, PanickedReply
<1>7. \A u \in Threads : pc[u] # "publish"
  BY <1>1, SweepAlone DEF Bare, Guarding
<1>8. QED
  BY <1>1, <1>2, <1>4, <1>5, <1>6, <1>7, SweepEndStored, ValueDrop DEF counters

(*****************************************************************************)
(* Migration changes no stored value.                                        *)
(*****************************************************************************)
\* The end of a turn, with s left of the slot being drained.
LEMMA AfterSourceLookups ==
  ASSUME Layout, migrating, NEW s \in Shard \cup {NoShard}, AfterSource(moved_shards, s)
  PROVE  \A k \in Keys :
           Lookup(previous_shard(k), k)' =
             IF previous_index(k) = moved_shards THEN Lookup(s, k)
             ELSE Lookup(previous_shard(k), k)
<1>1. /\ previous_shard_count \in Nat /\ previous_shard_count # 0
      /\ previous_shard_count \in Counts
      /\ moved_shards \in Nat /\ moved_shards < previous_shard_count
  BY ConfigAssumption DEF Layout, DirectoryType, MigrationState
<1>2. moved_shards \in Idx /\ Idx \subseteq Nat
  BY <1>1, ConfigAssumption DEF Idx
<1> SUFFICES ASSUME NEW k \in Keys
             PROVE  Lookup(previous_shard(k), k)' =
                      IF previous_index(k) = moved_shards THEN Lookup(s, k)
                      ELSE Lookup(previous_shard(k), k)
  OBVIOUS
<1> DEFINE p == previous_index(k)
<1>3. p \in Idx /\ p < previous_shard_count
  <2>1. p \in Idx
    BY <1>1, PreviousInRange DEF Layout
  <2>2. Hash[k] \in Nat
    BY ConfigAssumption
  <2>3. QED
    BY <1>1, <2>1, <2>2 DEF previous_index
<1>4. Lookup(previous_shard(k), k) = Lookup(previous_shards[p], k)
  BY <1>1 DEF previous_shard
<1>5. CASE ~IsEmpty(s)
  <2>1. /\ previous_shards' = [previous_shards EXCEPT ![moved_shards] = s]
        /\ UNCHANGED previous_shard_count
    BY <1>5 DEF AfterSource
  <2>2. previous_shards'[p] = IF p = moved_shards THEN s ELSE previous_shards[p]
    BY <1>2, <1>3, <2>1 DEF Layout, DirectoryType
  <2>3. Lookup(previous_shard(k), k)' = Lookup(previous_shards'[p], k)
    BY <1>1, <2>1 DEF previous_shard, previous_index, Lookup
  <2>4. QED
    BY <1>4, <2>2, <2>3
<1>6. CASE IsEmpty(s)
  <2>1. /\ previous_shards' = [previous_shards EXCEPT ![moved_shards] = NoShard]
        /\ previous_shard_count' = IF LastSource THEN 0 ELSE previous_shard_count
    BY <1>6 DEF AfterSource
  <2>2. previous_shards'[p] = IF p = moved_shards THEN NoShard ELSE previous_shards[p]
    BY <1>2, <1>3, <2>1 DEF Layout, DirectoryType
  <2>3. Lookup(s, k) = Nil /\ Lookup(NoShard, k) = Nil
    BY <1>6 DEF IsEmpty, EmptyShard, Lookup
  <2>4. CASE ~LastSource
    <3>1. Lookup(previous_shard(k), k)' = Lookup(previous_shards'[p], k)
      BY <1>1, <2>1, <2>4 DEF previous_shard, previous_index, Lookup
    <3>2. QED
      BY <1>4, <2>2, <2>3, <3>1
  <2>5. CASE LastSource
    <3>1. Lookup(previous_shard(k), k)' = Nil
      BY <2>1, <2>5 DEF previous_shard, Lookup
    <3>2. \A q \in Idx : q < previous_shard_count /\ q # moved_shards => q < moved_shards
      BY <1>1, <1>2, <2>5 DEF LastSource
    <3>3. p # moved_shards => previous_shards[p] = NoShard
      BY <1>3, <3>2 DEF Layout, MigrationState
    <3>4. QED
      BY <1>4, <2>3, <3>1, <3>3
  <2>6. QED
    BY <2>4, <2>5
<1>7. QED
  BY <1>5, <1>6

\* A turn of the batch loop: an entry moves, or an empty slot is dropped.
LEMMA MigrateEntryStored ==
  ASSUME HomeInv, MigrateEntry
  PROVE  \A k \in Keys : Stored(k)' = Stored(k)
<1> USE DEF HomeInv
<1> DEFINE i == moved_shards
           source == previous_shards[i]
<1>1. migrating /\ UNCHANGED shard_count
  BY DEF MigrateEntry
<1>2. i \in Idx /\ source \in Shard \cup {NoShard} /\ previous_shard_count # 0
  <2>1. /\ previous_shard_count \in Nat /\ previous_shard_count \in Counts
        /\ moved_shards \in Nat /\ moved_shards < previous_shard_count
        /\ previous_shard_count # 0
    BY <1>1, ConfigAssumption DEF Layout, DirectoryType, MigrationState
  <2>2. i \in Idx
    BY <2>1 DEF Idx
  <2>3. QED
    BY <2>1, <2>2 DEF Layout, DirectoryType
<1>3. \A k \in Keys : shard_index(k)' = shard_index(k) /\ shard_index(k) \in Idx
  BY <1>1, IndexInRange DEF shard_index, Layout
<1>4. \A k \in Keys : previous_index(k) = i => Lookup(previous_shard(k), k) = Lookup(source, k)
  BY <1>2 DEF previous_shard
<1>5. CASE IsEmpty(source)
  <2>1. UNCHANGED shards /\ AfterSource(i, source)
    BY <1>5 DEF MigrateEntry
  <2>2. \A k \in Keys : Lookup(previous_shard(k), k)' = Lookup(previous_shard(k), k)
    BY <1>1, <1>2, <1>4, <2>1, AfterSourceLookups
  <2>3. \A k \in Keys : Lookup(Slot(k), k)' = Lookup(Slot(k), k)
    BY <1>3, <2>1 DEF Slot, Lookup
  <2>4. QED
    BY <2>2, <2>3 DEF Stored
<1>6. CASE ~IsEmpty(source)
  <2>1. PICK k \in Keys :
           /\ source[k] # Nil
           /\ shards' = [shards EXCEPT ![shard_index(k)] = Promoted(@, source, k)]
           /\ AfterSource(i, Detached(source, k))
    BY <1>6 DEF MigrateEntry
  <2>2. source \in Shard /\ source # NoShard
    BY <1>2, <1>6 DEF IsEmpty
  <2>3. /\ Detached(source, k) \in Shard
        /\ Lookup(Detached(source, k), k) = Nil
        /\ \A j \in Keys \ {k} : Lookup(Detached(source, k), j) = Lookup(source, j)
    BY <2>2, DistinctAssumption DEF Detached, Put, Lookup, Shard, OptVal
  <2>4. i = previous_index(k) /\ Lookup(source, k) = source[k] /\ source[k] \in OptVal
    BY <1>2, <2>1, <2>2 DEF Layout, OneHome, Lookup, Shard
  <2>5. Lookup(Slot(k), k) = Nil /\ Slot(k) \in Shard \cup {NoShard}
    <3>1. Lookup(previous_shard(k), k) # Nil
      BY <1>4, <2>1, <2>4
    <3>2. QED
      BY <1>3, <3>1, SlotTypes DEF Layout, OneHome, Slot
  <2>6. Promoted(Slot(k), source, k) = Put(Slot(k), k, source[k])
    BY <2>5 DEF Promoted
  <2>7. /\ Put(Slot(k), k, source[k]) \in Shard
        /\ Lookup(Put(Slot(k), k, source[k]), k) = source[k]
        /\ \A j \in Keys \ {k} : Lookup(Put(Slot(k), k, source[k]), j) = Lookup(Slot(k), j)
    BY <2>4, <2>5, DistinctAssumption DEF Put, Lookup, Shard, EmptyShard, OptVal
  <2>8. /\ shards'[shard_index(k)] = Put(Slot(k), k, source[k])
        /\ \A m \in Idx \ {shard_index(k)} : shards'[m] = shards[m]
    BY <1>3, <2>1, <2>6 DEF Layout, DirectoryType, Slot
  <2>9. /\ Lookup(Slot(k), k)' = source[k]
        /\ \A j \in Keys \ {k} : Lookup(Slot(j), j)' = Lookup(Slot(j), j)
    <3>1. \A j \in Keys : /\ Lookup(Slot(j), j)' = Lookup(shards'[shard_index(j)], j)
                          /\ Slot(j) = shards[shard_index(j)]
      BY <1>3 DEF Slot, Lookup
    <3>2. QED
      BY <1>3, <2>7, <2>8, <3>1
  <2>10. \A j \in Keys \ {k} : Lookup(previous_shard(j), j)' = Lookup(previous_shard(j), j)
    BY <1>1, <1>4, <2>1, <2>3, AfterSourceLookups
  <2>11. Stored(k) = source[k]
    BY <1>4, <2>4, <2>5 DEF Stored
  <2>12. Stored(k)' = source[k]
    BY <2>1, <2>9 DEF Stored
  <2>13. QED
    BY <2>9, <2>10, <2>11, <2>12 DEF Stored
<1>7. QED
  BY <1>5, <1>6

\* Starting a migration turns the active generation into the previous one.
LEMMA StartRebalanceStored ==
  ASSUME Layout, NEW target \in Counts, StartRebalance(target)
  PROVE  \A k \in Keys : Stored(k)' = Stored(k)
<1>1. previous_shard_count = 0 /\ shard_count # 0
  BY ConfigAssumption DEF StartRebalance, Layout, MigrationState, DirectoryType
<1>2. \A k \in Keys : Lookup(previous_shard(k), k) = Nil
  BY <1>1 DEF previous_shard, Lookup
<1>3. \A k \in Keys : Lookup(Slot(k), k)' = Nil
  <2>1. \A k \in Keys : shard_index(k)' \in Idx
    <3>1. target \in Nat /\ target > 0 /\ \A k \in Keys : Hash[k] \in Nat
      BY ConfigAssumption
    <3>2. \A k \in Keys : Hash[k] % target \in 0..(target - 1)
      BY <3>1
    <3>3. QED
      BY <3>2 DEF StartRebalance, shard_index, Idx
  <2>2. \A k \in Keys : Slot(k)' = NoShard
    BY <2>1 DEF StartRebalance, Slot
  <2>3. QED
    BY <2>2 DEF Lookup
<1>4. \A k \in Keys : Lookup(previous_shard(k), k)' = Lookup(Slot(k), k)
  BY <1>1 DEF StartRebalance, previous_shard, previous_index, Slot, shard_index, Lookup
<1>5. QED
  BY <1>2, <1>3, <1>4 DEF Stored

\* rebalance_to stages a copy of every stored entry.
LEMMA StopTheWorldStored ==
  ASSUME Layout, NEW target \in Counts, StopTheWorld(target)
  PROVE  \A k \in Keys : Stored(k)' = Stored(k)
<1> SUFFICES ASSUME NEW k \in Keys PROVE Stored(k)' = Stored(k)
  OBVIOUS
<1> DEFINE i == Hash[k] % target
           routed == {j \in Keys : Hash[j] % target = i /\ Stored(j) # Nil}
           image == [j \in Keys |-> IF j \in routed THEN Stored(j) ELSE Nil]
<1>1. i \in Idx
  <2>1. target \in Nat /\ target > 0 /\ Hash[k] \in Nat
    BY ConfigAssumption
  <2>2. i \in 0..(target - 1)
    BY <2>1
  <2>3. QED
    BY <2>2 DEF Idx
<1>2. Slot(k)' = Staged(target)[i]
  BY DEF StopTheWorld, Slot, shard_index
<1>3. Staged(target)[i] = IF routed = {} THEN NoShard ELSE image
  BY <1>1 DEF Staged
<1>4. image \in Shard
  BY SlotTypes DEF Layout, Shard, OptVal
<1>5. Lookup(Staged(target)[i], k) = Stored(k)
  <2>1. CASE Stored(k) = Nil
    <3>1. image[k] = Nil
      BY <2>1
    <3>2. QED
      BY <1>3, <2>1, <3>1 DEF Lookup
  <2>2. CASE Stored(k) # Nil
    <3>1. routed # {} /\ image[k] = Stored(k)
      BY <2>2
    <3>2. QED
      BY <1>3, <1>4, <3>1, DistinctAssumption DEF Lookup
  <2>3. QED
    BY <2>1, <2>2
<1>6. Lookup(previous_shard(k), k)' = Nil
  BY DEF StopTheWorld, previous_shard, Lookup
<1>7. Lookup(Slot(k), k)' = Lookup(Staged(target)[i], k)
  BY <1>2 DEF Lookup
<1>8. QED
  BY <1>5, <1>6, <1>7 DEF Stored

\* A layout change, with no writer and no builder under way.
LEMMA ValueMigration ==
  ASSUME HomeInv, LocksHeld, ValueInv, MigrationStep
  PROVE  ValueInv' /\ Contents' = Contents
<1> USE DEF HomeInv
<1>1. /\ Exclusive
      /\ UNCHANGED <<counters, snapshot_cache, locks, pc, call, reply, at, cut, preimage>>
  BY DEF MigrationStep, StartRebalance, StopTheWorld, MigrateEntry
<1>2. \A k \in Keys : Stored(k)' = Stored(k)
  BY StartRebalanceStored, StopTheWorldStored, MigrateEntryStored DEF MigrationStep
<1>3. \A u \in Threads : pc[u] # "publish"
  BY <1>1, NobodyHolds DEF Exclusive, Available, Bare, Guarding
<1>4. Captured' = Captured
  BY <1>1 DEF Captured
<1>5. \A u \in Threads, k \in Keys : Dirties(u, k) => Dirties(u, k)'
  BY <1>1 DEF Dirties, Key, TxnKeys
<1>6. \A u \in Threads : pc'[u] = "collect" => cut'[u] = write_epoch
  BY <1>1 DEF ValueInv, CutCurrent
<1>7. Contents' = Contents
  BY <1>1, <1>2, ContentsKept
<1>8. QED
  BY <1>1, <1>2, <1>3, <1>4, <1>5, <1>6, <1>7, ValueSilent DEF Control

\* Nothing is stored, counted or captured at first.
LEMMA ValueInit == Init => ValueInv
<1> SUFFICES ASSUME Init PROVE ValueInv
  OBVIOUS
<1>1. \A k \in Keys : Stored(k) = Nil
  <2>1. \A k \in Keys : shard_index(k) \in Idx
    <3>1. InitialCount \in Nat /\ InitialCount > 0 /\ \A k \in Keys : Hash[k] \in Nat
      BY ConfigAssumption
    <3>2. \A k \in Keys : Hash[k] % InitialCount \in 0..(InitialCount - 1)
      BY <3>1
    <3>3. QED
      BY <3>2, ConfigAssumption DEF Init, shard_index, Idx
  <2>2. \A k \in Keys : Slot(k) = NoShard /\ previous_shard(k) = NoShard
    BY <2>1 DEF Init, Slot, previous_shard
  <2>3. QED
    BY <2>2 DEF Stored, Lookup
<1>2. \A t \in Threads : pc[t] = "idle" /\ reply[t].tag = "none"
  BY DEF Init, NoReply
<1>3. Captured = {} /\ Unpublished = {}
  BY <1>2 DEF Init, Captured, Unpublished
<1>4. \A k \in Keys : preimage[k] = Clean
  BY DEF Init
<1>5. LenExact
  <2>1. {k \in Keys : Counted(k) # Nil} = {}
    BY <1>1, <1>3 DEF Counted
  <2>2. QED
    BY <2>1, FS_EmptySet DEF Init, LenExact, Counted
<1>6. DirtyOwned /\ Marked /\ CapturedCurrent /\ VersionNamesContents /\ Settled /\ CutCurrent
  BY <1>2, <1>3, <1>4 DEF DirtyOwned, Marked, CapturedCurrent, VersionNamesContents, Settled,
     CutCurrent
<1>7. QED
  BY <1>5, <1>6 DEF ValueInv

\* Every step keeps the counters and the captured snapshots right.
LEMMA ValueNext ==
  ASSUME HomeInv, LocksHeld, ValueInv, [Next]_vars
  PROVE  ValueInv'
<1>1. ASSUME NEW t \in Threads, (\E c \in Calls : Invoke(t, c)) \/ Return(t) PROVE ValueInv'
  BY <1>1, ValuePlain
<1>2. ASSUME NEW t \in Threads, KeyStep(t) PROVE ValueInv'
  <2>1. CASE AcquireRouting(t) \/ FindSlot(t) \/ ReadActive(t) \/ ReadPrevious(t) \/ LockActive(t)
    BY <2>1, ValuePlain
  <2>2. CASE InitSlot(t) \/ Promote(t)
    BY <2>2, ValueInvisible
  <2>3. CASE Apply(t) \/ Unwind(t)
    BY <2>3, ValueApply
  <2>4. CASE Publish(t) \/ Release(t)
    BY <2>4, ValuePublish, ValueRelease
  <2>5. QED
    BY <1>2, <2>1, <2>2, <2>3, <2>4 DEF KeyStep
<1>3. ASSUME NEW t \in Threads, TxnStep(t) PROVE ValueInv'
  <2>1. CASE TxnRouting(t) \/ TxnAbort(t) \/ TxnLock(t)
    BY <2>1, ValuePlain
  <2>2. CASE TxnResolve(t)
    BY <2>2, ValueInvisible
  <2>3. CASE TxnApply(t) \/ TxnCommit(t) \/ TxnUnwind(t)
    BY <2>3, ValueTxnApply, ValueTxnEnd
  <2>4. QED
    BY <1>3, <2>1, <2>2, <2>3 DEF TxnStep
<1>4. ASSUME NEW t \in Threads, SnapshotStep(t) PROVE ValueInv'
  <2>1. CASE EnterGate(t) \/ PinRouting(t) \/ PinDirectory(t) \/ GuardNext(t) \/ LoadEpoch(t)
             \/ SnapshotUnwind(t)
    BY <2>1, ValuePlain
  <2>2. CASE CheckCache(t) \/ Recheck(t) \/ FillCache(t)
    BY <2>2, ValueCache
  <2>3. CASE Collect(t)
    BY <2>3, ValueCollect
  <2>4. QED
    BY <1>4, <2>1, <2>2, <2>3 DEF SnapshotStep
<1>5. ASSUME NEW t \in Threads, SweepStep(t) PROVE ValueInv'
  <2>1. CASE SweepRouting(t)
    BY <2>1, ValuePlain
  <2>2. CASE SweepShard(t) \/ SweepFinish(t) \/ SweepUnwind(t)
    BY <2>2, ValueSweepShard, ValueSweepEnd
  <2>3. QED
    BY <1>5, <2>1, <2>2 DEF SweepStep
<1>6. ASSUME UNCHANGED vars PROVE ValueInv'
  <2>1. UNCHANGED topology /\ UNCHANGED <<preimage, counters, pc, call, cut>>
        /\ Captured' = Captured
    BY <1>6 DEF vars, Captured
  <2>2. \A u \in Threads, k \in Keys : Dirties(u, k) => Dirties(u, k)'
    BY <2>1 DEF Dirties, Key, TxnKeys
  <2>3. \A u \in Threads : pc'[u] = "collect" => cut'[u] = write_epoch
    BY <2>1 DEF ValueInv, CutCurrent
  <2>4. QED
    BY <2>1, <2>2, <2>3, QuietValues, ValueSilent DEF HomeInv, Control
<1>7. QED
  BY <1>1, <1>2, <1>3, <1>4, <1>5, <1>6, ValueMigration DEF Next

(*****************************************************************************)
(* What the three invariants give, for every behaviour.                      *)
(*****************************************************************************)
\* Layout, locks and values are right at every moment: whatever a thread has
\* stored and not yet made visible lies under locks that only it holds.
THEOREM ConsistentAlways == Spec => [](HomeInv /\ LocksHeld /\ ValueInv)
<1>1. Init => HomeInv /\ LocksHeld /\ ValueInv
  BY HomeInit, LocksInit, ValueInit
<1>2. HomeInv /\ LocksHeld /\ ValueInv /\ [Next]_vars => (HomeInv /\ LocksHeld /\ ValueInv)'
  BY HomeNext, LocksNext, ValueNext
<1>3. QED
  BY <1>1, <1>2, PTL DEF Spec

\* Shard locks exclude: nobody reads a lock that is written, and a thread
\* between taking a lock and dropping it still holds it, over a slot that is
\* still initialized.
THEOREM LocksAlways == Spec => []LocksHeld
BY ConsistentAlways, PTL

\* total_len is the number of stored keys, up to the stores whose
\* ShardMutation has not been dropped yet; with no call under way it is exact.
THEOREM LenCorrect == Spec => []LenExact
<1>1. ValueInv => LenExact
  BY DEF ValueInv
<1>2. QED
  BY <1>1, ConsistentAlways, PTL

\* cached_snapshot never serves stale contents: a cached snapshot with the
\* current epoch is the current contents.
THEOREM CacheNeverStale == Spec => []CacheCoherent
<1>1. ValueInv => CacheCoherent
  BY DEF ValueInv, CapturedCurrent, CacheCoherent, Captured
<1>2. QED
  BY <1>1, ConsistentAlways, PTL

\* The version of a snapshot names its contents: two snapshots of one epoch
\* have the same items, and none lists a key twice.
THEOREM VersionsNameContents == Spec => []VersionNamesContents
<1>1. ValueInv => VersionNamesContents
  BY DEF ValueInv
<1>2. QED
  BY <1>1, ConsistentAlways, PTL

-----------------------------------------------------------------------------
(*****************************************************************************)
(* The map implements the atomic map of MapSpec: each step is a step of      *)
(* MapSpec or leaves what the callers can see unchanged.                     *)
(*                                                                           *)
(* What a thread that has stored and not yet dropped its guards will have    *)
(* done to the contents when it drops them.                                  *)
(*****************************************************************************)
\* A key call has done what its contract says, or panicked before or after.
KeyAnswered(t) ==
  pc[t] \in {"publish", "release"} =>
    LET c == call[t]
        old == Visible(c.key)
    IN  \/ reply[t] = Answer(c, old) /\ Stored(c.key) = After(c, old)
        \/ reply[t] = PanickedReply /\ Stored(c.key) \in {old, After(c, old)}

Wrote(step) == IF step.op = "write" THEN step.new ELSE Nil

\* Under k the last of the first n steps that writes it has left its value.
StepsDone(steps, n, k) ==
  \/ /\ \A i \in 1..n : ~Writes(steps[i], k)
     /\ Stored(k) = Visible(k)
  \/ \E i \in 1..n : /\ Writes(steps[i], k)
                     /\ \A j \in (i + 1)..n : ~Writes(steps[j], k)
                     /\ Stored(k) = Wrote(steps[i])

TxnDone(t) ==
  pc[t] = "txn_apply" =>
    /\ at[t] - 1 <= Len(call[t].steps)
    /\ \A k \in TxnKeys(t) : StepsDone(call[t].steps, at[t] - 1, k)

\* A sweep has removed what it touched, and touches nothing it should keep.
Swept(t) ==
  pc[t] = "sweep" =>
    \A k \in Keys : preimage[k] # Clean =>
      Stored(k) = Nil /\ k \notin Atomic!Survivors(call[t])

\* Only a lookup reads without a write lock.
OnlyGetReads(t) == pc[t] \in {"read", "fallback"} => call[t].op = "get"

Pending(t) == KeyAnswered(t) /\ TxnDone(t) /\ Swept(t) /\ OnlyGetReads(t)

RefineInv == \A t \in Threads : Pending(t)

\* The layout, the locks and the values are right, and so is what is pending.
MapInv == HomeInv /\ LocksHeld /\ ValueInv /\ RefineInv

-----------------------------------------------------------------------------
\* The contracts of MapSpec are those of the calls.
LEMMA SameContracts ==
  /\ \A c, v : Atomic!After(c, v) = After(c, v)
  /\ \A c, v : Atomic!Answer(c, v) = Answer(c, v)
  /\ \A s, n, f : Atomic!AfterSteps(s, n, f) = AfterSteps(s, n, f)
  /\ \A f : Atomic!Pairs(f) = Pairs(f)
  /\ Atomic!NoReply = NoReply /\ Atomic!DoneReply = DoneReply
  /\ Atomic!PanickedReply = PanickedReply /\ Atomic!NoCall = NoCall
  /\ Atomic!KeyOps = KeyOps
<1>1. \A c, v : Atomic!After(c, v) = After(c, v)
  BY DEF Atomic!After, After
<1>2. \A c, v : Atomic!Answer(c, v) = Answer(c, v)
  BY <1>1 DEF Atomic!Answer, Answer, Atomic!KeyReply, KeyReply
<1>3. \A s, n, f : Atomic!AfterSteps(s, n, f) = AfterSteps(s, n, f)
  BY DEF Atomic!AfterSteps, AfterSteps, Atomic!Writes, Writes
<1>4. QED
  BY <1>1, <1>2, <1>3 DEF Atomic!Pairs, Pairs, Atomic!NoReply, NoReply, Atomic!DoneReply,
     DoneReply, Atomic!PanickedReply, PanickedReply, Atomic!NoCall, NoCall, Atomic!KeyOps, KeyOps

\* Nothing the callers can see changes.
LEMMA Stutters ==
  ASSUME \A u \in Threads : Status(u)' = Status(u) /\ AnswerOf(u)' = AnswerOf(u),
         UNCHANGED call, Contents' = Contents
  PROVE  UNCHANGED Atomic!specVars
BY DEF Atomic!specVars

\* The other threads look as they did.
LEMMA OthersLook ==
  ASSUME NEW t \in Threads, OthersStay(t), \A u \in Threads \ {t} : reply'[u] = reply[u]
  PROVE  \A u \in Threads \ {t} : Status(u)' = Status(u) /\ AnswerOf(u)' = AnswerOf(u)
BY DEF OthersStay, Status, AnswerOf, Decided

\* A thread moves on inside its call.
LEMMA MovesInside ==
  ASSUME NEW t \in Threads, OthersStay(t), \A u \in Threads \ {t} : reply'[u] = reply[u],
         UNCHANGED call, Contents' = Contents,
         pc[t] \notin {"idle", "return", "cache"}, pc'[t] \notin {"idle", "return", "cache"}
  PROVE  UNCHANGED Atomic!specVars
<1>1. Status(t)' = Status(t) /\ AnswerOf(t)' = AnswerOf(t)
  BY DEF Status, AnswerOf, Decided
<1>2. QED
  BY <1>1, OthersLook, Stutters

\* A thread decides its answer.
LEMMA Finishes ==
  ASSUME NEW t \in Threads, OthersStay(t), \A u \in Threads \ {t} : reply'[u] = reply[u],
         UNCHANGED call, NEW r, AnswerOf(t)' = r,
         pc[t] \notin {"idle", "return", "cache"}, pc'[t] \in {"return", "cache"}
  PROVE  Atomic!Finish(t, r)
<1>1. Status(t) = "called" /\ Status(t)' = "answered"
  BY DEF Status, Decided
<1>2. \A u \in Threads \ {t} : Status(u)' = Status(u) /\ AnswerOf(u)' = AnswerOf(u)
  BY OthersLook
<1>3. [u \in Threads |-> Status(u)]' = [[u \in Threads |-> Status(u)] EXCEPT ![t] = "answered"]
  BY <1>1, <1>2
<1>4. [u \in Threads |-> AnswerOf(u)]' = [[u \in Threads |-> AnswerOf(u)] EXCEPT ![t] = r]
  BY <1>2
<1>5. QED
  BY <1>1, <1>3, <1>4 DEF Atomic!Finish

-----------------------------------------------------------------------------
(*****************************************************************************)
(* Whatever a thread does to keys it possesses leaves the pending effects of *)
(* the others alone.                                                         *)
(*****************************************************************************)
Elsewhere(t) ==
  \A k \in Keys : ~Possesses(t, k) => Stored(k)' = Stored(k) /\ preimage'[k] = preimage[k]

OthersSilent(t) == \A u \in Threads \ {t} : reply'[u] = reply[u] /\ at'[u] = at[u]

\* Steps done stay done while the key's value and preimage stand still.
LEMMA StepsDoneKept ==
  ASSUME NEW steps, NEW n, NEW k \in Keys, StepsDone(steps, n, k),
         Stored(k)' = Stored(k), preimage'[k] = preimage[k]
  PROVE  StepsDone(steps, n, k)'
BY DEF StepsDone, Visible

\* A thread that does not move, with nothing changed under what it possesses.
LEMMA PendingStands ==
  ASSUME HomeInv, RefineInv, NEW u \in Threads,
         pc'[u] = pc[u], call'[u] = call[u], reply'[u] = reply[u], at'[u] = at[u],
         \A k \in Keys : Possesses(u, k) =>
            Stored(k)' = Stored(k) /\ preimage'[k] = preimage[k]
  PROVE  Pending(u)'
<1>1. /\ Pending(u) /\ pc'[u] = pc[u] /\ call'[u] = call[u]
      /\ reply'[u] = reply[u] /\ at'[u] = at[u]
  BY DEF RefineInv
<1>2. \A k \in Keys : Possesses(u, k) =>
         Stored(k)' = Stored(k) /\ preimage'[k] = preimage[k] /\ Visible(k)' = Visible(k)
  BY DEF Visible
<1>3. KeyAnswered(u)'
  <2>1. SUFFICES ASSUME pc[u] \in {"publish", "release"} PROVE KeyAnswered(u)'
    BY <1>1 DEF KeyAnswered
  <2>2. PICK k \in Keys : k = call[u].key
    BY <2>1, KeyTyped DEF KeyPCs, Key
  <2>3. Stored(k)' = Stored(k) /\ Visible(k)' = Visible(k)
    BY <1>2, <2>1, <2>2 DEF Possesses, Dirties, Key
  <2>4. PICK c : c = call[u] /\ c.key = k
    BY <2>2
  <2>5. \/ reply[u] = Answer(c, Visible(k)) /\ Stored(k) = After(c, Visible(k))
        \/ reply[u] = PanickedReply /\ Stored(k) \in {Visible(k), After(c, Visible(k))}
    BY <1>1, <2>1, <2>4 DEF Pending, KeyAnswered
  <2>6. QED
    BY <1>1, <2>3, <2>4, <2>5 DEF KeyAnswered
<1>4. TxnDone(u)'
  <2>1. SUFFICES ASSUME pc[u] = "txn_apply" PROVE TxnDone(u)'
    BY <1>1 DEF TxnDone
  <2>2. PICK s, n : s = call[u].steps /\ n = at[u] - 1
    OBVIOUS
  <2>3. s = call[u].steps' /\ n = at[u]' - 1
    BY <1>1, <2>2
  <2>4. TxnKeys(u)' = TxnKeys(u) /\ TxnKeys(u) \subseteq Keys
    BY <1>1, <2>1, TxnKeysTyped DEF TxnKeys, HomeInv, Control, CallMatches, TxnPCs
  <2>5. \A k \in TxnKeys(u) : StepsDone(s, n, k)'
    BY <1>1, <1>2, <2>1, <2>2, <2>4, StepsDoneKept DEF Pending, TxnDone, Possesses, Dirties
  <2>6. n <= Len(s)
    BY <1>1, <2>1, <2>2 DEF Pending, TxnDone
  <2>7. QED
    BY <2>3, <2>4, <2>5, <2>6 DEF TxnDone
<1>5. Swept(u)'
  <2>1. SUFFICES ASSUME pc[u] = "sweep" PROVE Swept(u)'
    BY <1>1 DEF Swept
  <2>2. \A k \in Keys : Stored(k)' = Stored(k) /\ preimage'[k] = preimage[k]
    BY <1>2, <2>1 DEF Possesses, Dirties
  <2>3. Atomic!Survivors(call[u])' = Atomic!Survivors(call[u])
    BY <1>1
  <2>4. QED
    BY <1>1, <2>1, <2>2, <2>3 DEF Pending, Swept
<1>6. OnlyGetReads(u)'
  BY <1>1 DEF Pending, OnlyGetReads
<1>7. QED
  BY <1>3, <1>4, <1>5, <1>6 DEF Pending

\* The pending effects of the threads that do not move.
LEMMA PendingOthers ==
  ASSUME HomeInv, LocksHeld, RefineInv, NEW t \in Threads, OthersStay(t), OthersSilent(t),
         Elsewhere(t)
  PROVE  \A u \in Threads \ {t} : Pending(u)'
<1>1. \A u \in Threads \ {t}, k \in Keys : Possesses(u, k) =>
         Stored(k)' = Stored(k) /\ preimage'[k] = preimage[k]
  BY OnePossessor DEF Elsewhere
<1>2. QED
  BY <1>1, PendingStands DEF OthersStay, OthersSilent

\* A thread with nothing stored has nothing pending.
LEMMA PendingNothing ==
  ASSUME NEW t, pc'[t] \in NotDirty, pc'[t] \in {"read", "fallback"} => call'[t].op = "get"
  PROVE  Pending(t)'
BY DEF NotDirty, Pending, KeyAnswered, TxnDone, Swept, OnlyGetReads

\* With the directories and the preimages unchanged.
LEMMA QuietPending ==
  ASSUME HomeInv, LocksHeld, RefineInv, NEW t \in Threads, OthersStay(t), OthersSilent(t),
         UNCHANGED <<topology, preimage>>
  PROVE  /\ \A u \in Threads \ {t} : Pending(u)'
         /\ /\ pc'[t] \in NotDirty
            /\ pc'[t] \in {"read", "fallback"} => call'[t].op = "get"
            => RefineInv'
         /\ Contents' = Contents
<1>1. Elsewhere(t)
  BY QuietValues DEF Elsewhere
<1>2. Contents' = Contents
  BY QuietValues, ContentsKept
<1>3. QED
  BY <1>1, <1>2, PendingOthers, PendingNothing DEF RefineInv

\* Nobody has stored under a key that t possesses and has not stored under.
LEMMA CleanBefore ==
  ASSUME HomeInv, LocksHeld, ValueInv, NEW t \in Threads, NEW k \in Keys,
         Possesses(t, k), ~Dirties(t, k)
  PROVE  preimage[k] = Clean /\ Visible(k) = Stored(k)
<1>1. preimage[k] = Clean
  BY OnePossessor DEF ValueInv, DirtyOwned, Possesses
<1>2. QED
  BY <1>1 DEF Visible

\* What is not possessed is visible.
LEMMA CleanUnpossessed ==
  ASSUME ValueInv, NEW k \in Keys, \A u \in Threads : ~Possesses(u, k)
  PROVE  preimage[k] = Clean /\ Visible(k) = Stored(k)
BY DEF ValueInv, DirtyOwned, Possesses, Visible

-----------------------------------------------------------------------------
(*****************************************************************************)
(* Step by step: each action keeps what is pending right, and is an action   *)
(* of MapSpec or invisible to the callers.                                   *)
(*****************************************************************************)
Simulated == Atomic!Next \/ UNCHANGED Atomic!specVars

\* The threads and replies a step leaves alone.
LEMMA OneMoves ==
  ASSUME Control, NEW t \in Threads, NEW to,
         Goto(t, to) \/ (UNCHANGED pc /\ to = pc[t]),
         UNCHANGED call, UNCHANGED at \/ \E n : at' = [at EXCEPT ![t] = n],
         UNCHANGED reply \/ \E r : Say(t, r)
  PROVE  pc'[t] = to /\ OthersStay(t) /\ OthersSilent(t)
<1>1. pc'[t] = to /\ \A u \in Threads \ {t} : pc'[u] = pc[u]
  BY PCOthers
<1>2. \A u \in Threads \ {t} : reply'[u] = reply[u] /\ at'[u] = at[u]
  BY DEF Say, Control, CallType
<1>3. QED
  BY <1>1, <1>2 DEF OthersStay, OthersSilent

\* Locks are taken, indices computed, caches missed: invisible.
LEMMA RefinesQuiet ==
  ASSUME MapInv, NEW t \in Threads, OthersStay(t), OthersSilent(t),
         UNCHANGED <<topology, preimage, call>>,
         pc[t] \notin {"idle", "return", "cache"},
         pc'[t] \in NotDirty \ {"idle", "return", "cache"},
         pc'[t] \in {"read", "fallback"} => call[t].op = "get"
  PROVE  RefineInv' /\ Simulated
<1>1. RefineInv' /\ Contents' = Contents
  BY QuietPending DEF MapInv
<1>2. UNCHANGED Atomic!specVars
  BY <1>1, MovesInside DEF OthersSilent
<1>3. QED
  BY <1>1, <1>2 DEF Simulated

\* Invoke is MapSpec's invocation.
LEMMA RefinesInvoke ==
  ASSUME MapInv, NEW t \in Threads, NEW c \in Calls, Invoke(t, c)
  PROVE  RefineInv' /\ Simulated
<1> USE DEF MapInv, HomeInv, Control
<1>1. /\ pc[t] = "idle" /\ Goto(t, FirstStep(c)) /\ call' = [call EXCEPT ![t] = c]
      /\ UNCHANGED <<topology, preimage, reply, at>>
  BY DEF Invoke
<1>2. FirstStep(c) \in {"route", "txn_route", "cached", "gate", "exclusive"}
  <2>1. c \in AllCalls
    BY CallsAssumption
  <2>2. QED
    BY <2>1 DEF AllCalls, KeyCalls, TxnCalls, SnapCalls, SweepCalls, FirstStep, KeyOps
<1>3. pc'[t] = FirstStep(c) /\ OthersStay(t) /\ OthersSilent(t)
  BY <1>1, PCOthers DEF OthersStay, OthersSilent, CallType
<1>4. pc'[t] \in NotDirty \ {"idle", "return", "cache"}
  BY <1>2, <1>3 DEF NotDirty, PCs, KeyPCs, SnapPCs, TxnPCs, SweepPCs
<1>5. RefineInv' /\ Contents' = Contents
  BY <1>1, <1>2, <1>3, <1>4, QuietPending
<1>6. Status(t) = "idle" /\ Status(t)' = "called" /\ AnswerOf(t)' = AnswerOf(t)
  BY <1>1, <1>4 DEF Status, AnswerOf, Decided
<1>7. \A u \in Threads \ {t} : Status(u)' = Status(u) /\ AnswerOf(u)' = AnswerOf(u)
  BY <1>1, <1>3, OthersLook
<1>8. /\ [u \in Threads |-> Status(u)]' = [[u \in Threads |-> Status(u)] EXCEPT ![t] = "called"]
      /\ [u \in Threads |-> AnswerOf(u)]' = [u \in Threads |-> AnswerOf(u)]
  BY <1>6, <1>7
<1>9. Atomic!Invoke(t, c)
  BY <1>1, <1>5, <1>6, <1>8 DEF Atomic!Invoke
<1>10. QED
  BY <1>5, <1>9 DEF Simulated, Atomic!Next

\* Return is MapSpec's return.
LEMMA RefinesReturn ==
  ASSUME MapInv, NEW t \in Threads, Return(t)
  PROVE  RefineInv' /\ Simulated
<1> USE DEF MapInv, HomeInv, Control
<1>1. /\ pc[t] = "return" /\ Goto(t, "idle") /\ call' = [call EXCEPT ![t] = NoCall]
      /\ Say(t, NoReply) /\ UNCHANGED <<topology, preimage, at>>
  BY DEF Return
<1>2. pc'[t] = "idle" /\ OthersStay(t) /\ OthersSilent(t)
  BY <1>1, PCOthers DEF OthersStay, OthersSilent, Say, CallType
<1>3. pc'[t] \in NotDirty
  BY <1>2 DEF NotDirty, PCs
<1>4. RefineInv' /\ Contents' = Contents
  BY <1>1, <1>2, <1>3, QuietPending
<1>5. Status(t) = "answered" /\ Status(t)' = "idle" /\ AnswerOf(t)' = NoReply
  BY <1>1, <1>2 DEF Status, AnswerOf, Decided
<1>6. \A u \in Threads \ {t} : Status(u)' = Status(u) /\ AnswerOf(u)' = AnswerOf(u)
  BY <1>2, OthersLook DEF OthersSilent
<1>7. /\ [u \in Threads |-> Status(u)]' = [[u \in Threads |-> Status(u)] EXCEPT ![t] = "idle"]
      /\ [u \in Threads |-> AnswerOf(u)]' = [[u \in Threads |-> AnswerOf(u)] EXCEPT ![t] = NoReply]
  BY <1>5, <1>6
<1>8. Atomic!Return(t)
  BY <1>1, <1>4, <1>5, <1>7, SameContracts DEF Atomic!Return
<1>9. QED
  BY <1>4, <1>8 DEF Simulated, Atomic!Next

(*****************************************************************************)
(* A key call takes effect: the contract of MapSpec holds of the contents    *)
(* before and after.                                                         *)
(*****************************************************************************)
LEMMA KeyTakesEffect ==
  ASSUME NEW t \in Threads, OthersStay(t), OthersSilent(t), UNCHANGED call,
         call[t] \in KeyCalls,
         pc[t] \notin {"idle", "return", "cache"}, pc'[t] = "return",
         \A j \in Keys : Visible(j)' = IF j = Key(t) THEN After(call[t], Visible(j))
                                       ELSE Visible(j),
         reply'[t] = Answer(call[t], Visible(Key(t)))
  PROVE  Atomic!DoKey(t)
<1> DEFINE c == call[t]
<1>1. c.op \in KeyOps /\ c.key \in Keys /\ c.key = Key(t)
  BY DEF KeyCalls, Key
<1>2. Contents' = [Contents EXCEPT ![c.key] = After(c, Contents[c.key])]
  BY <1>1 DEF Contents
<1>3. Contents[c.key] = Visible(Key(t))
  BY <1>1 DEF Contents
<1>4. reply'[t].tag = "key"
  BY <1>1 DEF Answer, KeyReply, KeyOps
<1>5. AnswerOf(t)' = Answer(c, Contents[c.key])
  BY <1>3, <1>4 DEF AnswerOf, Decided
<1>6. Atomic!Finish(t, Answer(c, Contents[c.key]))
  BY <1>5, Finishes DEF OthersSilent
<1>7. QED
  BY <1>1, <1>2, <1>6, SameContracts DEF Atomic!DoKey

\* A call ends in a panic that the caller sees.
LEMMA PanicEnds ==
  ASSUME NEW t \in Threads, OthersStay(t), OthersSilent(t), UNCHANGED call,
         pc[t] \notin {"idle", "return", "cache"}, pc'[t] = "return",
         reply'[t] = PanickedReply
  PROVE  Atomic!Finish(t, Atomic!PanickedReply)
<1>1. AnswerOf(t)' = PanickedReply
  BY DEF AnswerOf, Decided, PanickedReply
<1>2. QED
  BY <1>1, Finishes, SameContracts DEF OthersSilent

\* Steps of key calls and builders between their effects.
LEMMA RefinesInside ==
  ASSUME MapInv, NEW t \in Threads,
         \/ AcquireRouting(t) \/ LockActive(t) \/ TxnRouting(t)
         \/ EnterGate(t) \/ PinRouting(t) \/ PinDirectory(t) \/ GuardNext(t) \/ LoadEpoch(t)
  PROVE  RefineInv' /\ Simulated
<1> USE DEF MapInv, HomeInv, Control
<1>1. UNCHANGED <<topology, preimage, call, reply, at>>
  BY DEF AcquireRouting, LockActive, TxnRouting, EnterGate, PinRouting, PinDirectory, GuardNext,
     LoadEpoch
<1>2. pc[t] \notin {"idle", "return", "cache"}
  BY DEF AcquireRouting, LockActive, TxnRouting, EnterGate, PinRouting, PinDirectory, GuardNext,
     LoadEpoch
<1>3. PICK to \in {"lookup", "promote", "txn_resolve", "pin", "recheck", "pin_directory",
                   "guards", "collect"} : Goto(t, to) \/ (UNCHANGED pc /\ to = pc[t])
  BY DEF AcquireRouting, LockActive, TxnRouting, EnterGate, PinRouting, PinDirectory, GuardNext,
     LoadEpoch
<1>4. pc'[t] = to /\ OthersStay(t) /\ OthersSilent(t)
  BY <1>1, <1>3, OneMoves
<1>5. to \in NotDirty \ {"idle", "return", "cache"}
  BY DEF NotDirty, PCs, KeyPCs, SnapPCs, TxnPCs
<1>6. QED
  BY <1>1, <1>2, <1>4, <1>5, RefinesQuiet

\* Slots initialized and entries promoted: invisible.
LEMMA RefinesInvisible ==
  ASSUME MapInv, NEW t \in Threads, InitSlot(t) \/ Promote(t) \/ TxnResolve(t)
  PROVE  RefineInv' /\ Simulated
<1> USE DEF MapInv, HomeInv, Control
<1>1. UNCHANGED <<preimage, call, reply, at>>
  BY DEF InitSlot, Promote, TxnResolve
<1>2. pc[t] \in {"init", "promote", "txn_resolve"}
  BY DEF InitSlot, Promote, TxnResolve
<1>3. PICK to \in {"lock", "apply", "txn_lock", "txn_resolve"} :
         Goto(t, to) \/ (UNCHANGED pc /\ to = pc[t])
  BY DEF InitSlot, Promote, TxnResolve
<1>4. pc'[t] = to /\ OthersStay(t) /\ OthersSilent(t)
  BY <1>1, <1>3, OneMoves
<1>5. to \in NotDirty \ {"idle", "return", "cache"}
  BY DEF NotDirty, PCs, KeyPCs, SnapPCs, TxnPCs
<1>6. \A k \in Keys : Stored(k)' = Stored(k)
  BY ValueInvisible
<1>7. Contents' = Contents
  BY <1>1, <1>6, ContentsKept
<1>8. RefineInv'
  BY <1>1, <1>4, <1>5, <1>6, PendingOthers, PendingNothing DEF Elsewhere, RefineInv
<1>9. UNCHANGED Atomic!specVars
  BY <1>1, <1>2, <1>4, <1>5, <1>7, MovesInside DEF OthersSilent
<1>10. QED
  BY <1>8, <1>9 DEF Simulated

\* A key call ends with a plain read of a key nobody possesses.
LEMMA ReadEnds ==
  ASSUME MapInv, NEW t \in Threads, OthersStay(t), OthersSilent(t),
         UNCHANGED <<topology, preimage, call>>, call[t] \in KeyCalls,
         pc[t] \in {"lookup", "read", "fallback"}, pc'[t] = "return",
         \A u \in Threads : ~Possesses(u, Key(t)),
         reply'[t] = Answer(call[t], Stored(Key(t))),
         After(call[t], Stored(Key(t))) = Stored(Key(t))
  PROVE  RefineInv' /\ Simulated
<1> USE DEF MapInv
<1>1. RefineInv' /\ Contents' = Contents
  BY QuietPending DEF NotDirty, PCs
<1>2. Key(t) \in Keys /\ Visible(Key(t)) = Stored(Key(t))
  <2>1. Key(t) \in Keys
    BY DEF KeyCalls, Key
  <2>2. QED
    BY <2>1, CleanUnpossessed
<1>3. \A j \in Keys : Visible(j)' = Visible(j)
  BY QuietValues DEF Visible
<1>4. \A j \in Keys : Visible(j)' = IF j = Key(t) THEN After(call[t], Visible(j)) ELSE Visible(j)
  BY <1>2, <1>3
<1>5. Atomic!DoKey(t)
  BY <1>2, <1>4, KeyTakesEffect
<1>6. QED
  BY <1>1, <1>5 DEF Simulated, Atomic!Next

\* FindSlot stutters, or answers the removal of a key that is nowhere.
LEMMA RefinesFindSlot ==
  ASSUME MapInv, NEW t \in Threads, FindSlot(t)
  PROVE  RefineInv' /\ Simulated
<1> USE DEF MapInv, HomeInv, Control
<1>1. pc[t] = "lookup" /\ UNCHANGED <<topology, preimage, call, at>>
  BY DEF FindSlot
<1>2. Key(t) \in Keys /\ call[t] \in KeyCalls /\ t \in readers[Routing]
  BY <1>1, KeyTyped DEF KeyPCs, RoutingHeld, Pinned
<1>3. CASE /\ Slot(Key(t)) = NoShard /\ call[t].op = "remove" /\ previous_shard_count = 0
           /\ Goto(t, "return") /\ Say(t, KeyReply(FALSE, Nil))
  <2>1. pc'[t] = "return" /\ OthersStay(t) /\ OthersSilent(t)
    BY <1>1, <1>3, OneMoves
  <2>2. reply'[t] = KeyReply(FALSE, Nil)
    BY <1>3 DEF Say, CallType
  <2>3. Stored(Key(t)) = Nil
    BY <1>3 DEF Stored, Lookup, previous_shard
  <2>4. /\ Answer(call[t], Nil) = KeyReply(FALSE, Nil)
        /\ After(call[t], Nil) = Nil
    BY <1>3 DEF Answer, After, KeyReply
  <2>5. \A u \in Threads : ~Possesses(u, Key(t))
    BY <1>2, <1>3, NotPossessed
  <2>6. QED
    BY <1>1, <1>2, <2>1, <2>2, <2>3, <2>4, <2>5, ReadEnds
<1>4. CASE /\ UNCHANGED reply
           /\ \E to \in {"read", "lock", "fallback", "init"} :
                Goto(t, to) /\ (to \in {"read", "fallback"} => call[t].op = "get")
  <2>1. PICK to \in {"read", "lock", "fallback", "init"} :
           Goto(t, to) /\ (to \in {"read", "fallback"} => call[t].op = "get")
    BY <1>4
  <2>2. pc'[t] = to /\ OthersStay(t) /\ OthersSilent(t)
    BY <1>1, <1>4, <2>1, OneMoves
  <2>3. to \in NotDirty \ {"idle", "return", "cache"}
    BY DEF NotDirty, PCs, KeyPCs
  <2>4. QED
    BY <1>1, <2>1, <2>2, <2>3, RefinesQuiet
<1>5. QED
  BY <1>3, <1>4 DEF FindSlot

\* ReadActive answers with a value that it finds, or stutters.
LEMMA RefinesReadActive ==
  ASSUME MapInv, NEW t \in Threads, ReadActive(t)
  PROVE  RefineInv' /\ Simulated
<1> USE DEF MapInv, HomeInv, Control
<1>1. /\ pc[t] = "read" /\ UNCHANGED <<topology, preimage, call, at>>
      /\ Readable(Active(shard_index(Key(t))))
  BY DEF ReadActive
<1>2. Key(t) \in Keys /\ call[t] \in KeyCalls /\ t \in readers[Routing]
  BY <1>1, KeyTyped DEF KeyPCs, RoutingHeld, Pinned
<1> DEFINE v == Lookup(Slot(Key(t)), Key(t))
<1>3. CASE /\ v # Nil \/ previous_shard(Key(t)) = NoShard
           /\ Goto(t, "return") /\ Say(t, KeyReply(v # Nil, v))
  <2>1. pc'[t] = "return" /\ OthersStay(t) /\ OthersSilent(t)
    BY <1>1, <1>3, OneMoves
  <2>2. reply'[t] = KeyReply(v # Nil, v)
    BY <1>3 DEF Say, CallType
  <2>3. Stored(Key(t)) = v
    BY <1>3 DEF Stored, Lookup
  <2>4. call[t].op = "get"
    BY <1>1 DEF RefineInv, Pending, OnlyGetReads
  <2>5. /\ Answer(call[t], v) = KeyReply(v # Nil, v)
        /\ After(call[t], v) = v
    BY <2>4 DEF Answer, After
  <2>6. \A u \in Threads : ~Possesses(u, Key(t))
    BY <1>1, <1>2, NotPossessed
  <2>7. QED
    BY <1>1, <1>2, <2>1, <2>2, <2>3, <2>5, <2>6, ReadEnds
<1>4. CASE UNCHANGED reply /\ Goto(t, "fallback")
  <2>1. pc'[t] = "fallback" /\ OthersStay(t) /\ OthersSilent(t)
    BY <1>1, <1>4, OneMoves
  <2>2. call[t].op = "get"
    BY <1>1 DEF RefineInv, Pending, OnlyGetReads
  <2>3. QED
    BY <1>1, <2>1, <2>2, RefinesQuiet DEF NotDirty, PCs, KeyPCs
<1>5. QED
  BY <1>3, <1>4 DEF ReadActive

\* ReadPrevious answers under the guards it holds.
LEMMA RefinesReadPrevious ==
  ASSUME MapInv, NEW t \in Threads, ReadPrevious(t)
  PROVE  RefineInv' /\ Simulated
<1> USE DEF MapInv, HomeInv, Control
<1>1. pc[t] = "fallback" /\ Goto(t, "return") /\ UNCHANGED <<topology, preimage, call, at>>
  BY DEF ReadPrevious
<1>2. Key(t) \in Keys /\ call[t] \in KeyCalls /\ t \in readers[Routing]
  BY <1>1, KeyTyped DEF KeyPCs, RoutingHeld, Pinned
<1> DEFINE v == Lookup(previous_shard(Key(t)), Key(t))
<1>3. Say(t, KeyReply(v # Nil, v))
  BY DEF ReadPrevious
<1>4. pc'[t] = "return" /\ OthersStay(t) /\ OthersSilent(t)
  BY <1>1, <1>3, OneMoves
<1>5. reply'[t] = KeyReply(v # Nil, v)
  BY <1>3 DEF Say, CallType
<1>6. \/ Slot(Key(t)) = NoShard
      \/ t \in readers[Home(t)] /\ Lookup(Slot(Key(t)), Key(t)) = Nil
  BY <1>1 DEF LocksHeld, Holds, KeyHolds
<1>7. Stored(Key(t)) = v
  BY <1>6 DEF Stored, Lookup
<1>8. call[t].op = "get"
  BY <1>1 DEF RefineInv, Pending, OnlyGetReads
<1>9. Answer(call[t], v) = KeyReply(v # Nil, v) /\ After(call[t], v) = v
  BY <1>8 DEF Answer, After
<1>10. \A u \in Threads : ~Possesses(u, Key(t))
  BY <1>2, <1>6, NotPossessed DEF Home
<1>11. QED
  BY <1>1, <1>2, <1>4, <1>5, <1>7, <1>9, <1>10, ReadEnds

\* What a key call stores and answers is what its contract says.
LEMMA ApplyMeetsContract ==
  ASSUME NEW c \in KeyCalls, c.op # "get", NEW old
  PROVE  /\ ReplyTo(c, old) = Answer(c, old)
         /\ Inserts(c, old) => After(c, old) = c.new
         /\ Removes(c, old) => After(c, old) = Nil
         /\ ~Inserts(c, old) /\ ~Removes(c, old) => After(c, old) = old
<1>1. c.op \in KeyOps \ {"get"}
  BY DEF KeyCalls
<1>2. ReplyTo(c, old) = Answer(c, old)
  BY <1>1 DEF ReplyTo, Answer, After, KeyOps
<1>3. Inserts(c, old) => After(c, old) = c.new
  BY <1>1 DEF Inserts, After, KeyOps
<1>4. Removes(c, old) => After(c, old) = Nil
  BY <1>1 DEF Removes, After, KeyOps
<1>5. ~Inserts(c, old) /\ ~Removes(c, old) => After(c, old) = old
  BY <1>1 DEF Inserts, Removes, After, KeyOps
<1>6. QED
  BY <1>2, <1>3, <1>4, <1>5

\* A thread moves on under its guard, invisibly, with its answer settled.
LEMMA RefinesGuarded ==
  ASSUME MapInv, NEW t \in Threads, pc[t] \in Guarding, pc'[t] \in {"publish", "release"},
         OthersStay(t), OthersSilent(t), UNCHANGED call, Contents' = Contents, Elsewhere(t),
         KeyAnswered(t)'
  PROVE  RefineInv' /\ Simulated
<1>1. \A u \in Threads \ {t} : Pending(u)'
  BY PendingOthers DEF MapInv
<1>2. Pending(t)'
  BY DEF Pending, TxnDone, Swept, OnlyGetReads
<1>3. UNCHANGED Atomic!specVars
  BY MovesInside DEF OthersSilent, Guarding
<1>4. QED
  BY <1>1, <1>2, <1>3 DEF RefineInv, Simulated

\* The store of a key call, under the guard of its shard: what the outside sees
\* is still the value the call found.
LEMMA StoreEffect ==
  ASSUME MapInv, NEW t \in Threads, pc[t] = "apply", NEW k \in Keys, k = Key(t),
         NEW v \in OptVal, Writing(k, v), Store(t, k, v)
  PROVE  /\ Stored(k)' = v /\ Visible(k) = Stored(k) /\ Visible(k)' = Stored(k)
         /\ Stored(k) = Lookup(Slot(k), k)
         /\ Contents' = Contents /\ Elsewhere(t)
<1> USE DEF MapInv, HomeInv, Control
<1>1. Possesses(t, k) /\ ~Dirties(t, k)
  BY DEF Possesses, Dirties
<1>2. preimage[k] = Clean /\ Visible(k) = Stored(k)
  BY <1>1, CleanBefore
<1>3. Slot(k) # NoShard /\ Stored(k) \in OptVal
  BY SlotTypes DEF LocksHeld, Holds, KeyHolds, Guarding, Layout
<1>4. Stored(k)' = v /\ \A j \in Keys \ {k} : Stored(j)' = Stored(j)
  BY <1>3, WritingEffect DEF Layout
<1>5. Stored(k) = Lookup(Slot(k), k)
  BY DEF Emptied, Stored, Key
<1>6. preimage'[k] = Stored(k) /\ \A j \in Keys \ {k} : preimage'[j] = preimage[j]
  BY <1>5 DEF Store, CallType
<1>7. Visible(k)' = Stored(k) /\ \A j \in Keys \ {k} : Visible(j)' = Visible(j)
  BY <1>3, <1>4, <1>6, DistinctAssumption DEF Visible
<1>8. Contents' = Contents
  BY <1>2, <1>7 DEF Contents
<1>9. Elsewhere(t)
  BY <1>1, <1>4, <1>6 DEF Elsewhere
<1>10. QED
  BY <1>2, <1>4, <1>5, <1>7, <1>8, <1>9

\* Apply stutters: its change is visible when the guard is dropped.
LEMMA RefinesApply ==
  ASSUME MapInv, NEW t \in Threads, Apply(t)
  PROVE  RefineInv' /\ Simulated
<1> USE DEF MapInv, HomeInv, Control
<1>1. /\ pc[t] = "apply" /\ Key(t) \in Keys /\ call[t] \in KeyCalls /\ call[t].op # "get"
      /\ Stored(Key(t)) = Lookup(Slot(Key(t)), Key(t))
  BY ApplyStores
<1>2. PICK c \in KeyCalls, k \in Keys : c = call[t] /\ k = c.key /\ k = Key(t)
  BY <1>1 DEF Key
<1>3. PICK old \in OptVal : old = Stored(k)
  BY <1>2, SlotTypes DEF Layout
<1>4. Say(t, Answer(c, old)) /\ UNCHANGED <<call, at>>
  BY <1>1, <1>2, <1>3, ApplyMeetsContract DEF Apply
<1>5. reply'[t] = Answer(c, old)
  BY <1>4 DEF Say, CallType
<1>6. Possesses(t, k) /\ ~Dirties(t, k)
  BY <1>1, <1>2 DEF Possesses, Dirties
<1>7. c.new \in OptVal /\ Nil \in OptVal
  BY DEF KeyCalls, OptVal
<1>8. ASSUME NEW v \in OptVal, v = After(c, old), Store(t, k, v), Goto(t, "publish")
      PROVE  RefineInv' /\ Simulated
  <2>1. Writing(k, v)
    BY <1>1, <1>2, <1>8, StoreWrites DEF Apply
  <2>2. pc'[t] = "publish" /\ OthersStay(t) /\ OthersSilent(t)
    BY <1>4, <1>8, OneMoves
  <2>3. Stored(k)' = v /\ Visible(k)' = old /\ Contents' = Contents /\ Elsewhere(t)
    BY <1>1, <1>2, <1>3, <1>8, <2>1, StoreEffect
  <2>4. call'[t] = c
    BY <1>2, <1>4
  <2>5. KeyAnswered(t)'
    BY <1>2, <1>5, <1>8, <2>3, <2>4 DEF KeyAnswered
  <2>6. QED
    BY <1>1, <1>4, <2>2, <2>3, <2>5, RefinesGuarded DEF Guarding
<1>9. ASSUME old = After(c, old), UNCHANGED <<shards, preimage>>, Goto(t, "release")
      PROVE  RefineInv' /\ Simulated
  <2>1. UNCHANGED topology
    BY <1>9 DEF Apply, topology
  <2>2. pc'[t] = "release" /\ OthersStay(t) /\ OthersSilent(t)
    BY <1>4, <1>9, OneMoves
  <2>3. Visible(k) = old
    BY <1>3, <1>6, CleanBefore
  <2>4. Stored(k)' = old /\ Visible(k)' = old /\ Contents' = Contents /\ Elsewhere(t)
    BY <1>3, <1>9, <2>1, <2>3, QuietValues, ContentsKept DEF Visible, Elsewhere
  <2>5. call'[t] = c
    BY <1>2, <1>4
  <2>6. KeyAnswered(t)'
    BY <1>2, <1>5, <1>9, <2>4, <2>5 DEF KeyAnswered
  <2>7. QED
    BY <1>1, <1>4, <2>2, <2>4, <2>6, RefinesGuarded DEF Guarding
<1>10. QED
  <2>1. \/ Inserts(c, old) /\ Store(t, k, c.new) /\ Goto(t, "publish")
        \/ Removes(c, old) /\ Store(t, k, Nil) /\ Goto(t, "publish")
        \/ /\ ~Inserts(c, old) /\ ~Removes(c, old)
           /\ Goto(t, "release") /\ UNCHANGED <<shards, preimage>>
    BY <1>1, <1>2, <1>3 DEF Apply
  <2>2. c.op # "get"
    BY <1>1, <1>2
  <2>3. QED
    BY <1>7, <1>8, <1>9, <2>1, <2>2, ApplyMeetsContract

\* A panic on the way: before the store, or after it.
LEMMA RefinesUnwind ==
  ASSUME MapInv, NEW t \in Threads, Unwind(t)
  PROVE  RefineInv' /\ Simulated
<1> USE DEF MapInv, HomeInv, Control
<1>1. Key(t) \in Keys /\ call[t] \in KeyCalls
  BY UnwindStores
<1>2. PICK c \in KeyCalls, k \in Keys : c = call[t] /\ k = c.key /\ k = Key(t)
  BY <1>1 DEF Key
<1>3. Say(t, PanickedReply) /\ UNCHANGED <<call, at>>
  BY DEF Unwind
<1>4. reply'[t] = PanickedReply /\ call'[t] = c
  BY <1>2, <1>3 DEF Say, CallType
<1>5. CASE pc[t] \in {"promote", "apply"} /\ Goto(t, "release") /\ UNCHANGED <<shards, preimage>>
  <2>1. UNCHANGED topology
    BY <1>5 DEF Unwind, topology
  <2>2. pc'[t] = "release" /\ OthersStay(t) /\ OthersSilent(t)
    BY <1>3, <1>5, OneMoves
  <2>3. Possesses(t, k) /\ ~Dirties(t, k)
    BY <1>2, <1>5 DEF Possesses, Dirties
  <2>4. Visible(k) = Stored(k)
    BY <2>3, CleanBefore
  <2>5. Stored(k)' = Visible(k)' /\ Contents' = Contents /\ Elsewhere(t)
    BY <1>5, <2>1, <2>4, QuietValues, ContentsKept DEF Visible, Elsewhere
  <2>6. KeyAnswered(t)'
    BY <1>2, <1>4, <2>5 DEF KeyAnswered
  <2>7. QED
    BY <1>3, <1>5, <2>2, <2>5, <2>6, RefinesGuarded DEF Guarding
<1>6. CASE /\ pc[t] \in {"lookup", "init", "read", "fallback"} /\ Goto(t, "return")
           /\ UNCHANGED <<shards, preimage>>
  <2>1. UNCHANGED topology
    BY <1>6 DEF Unwind, topology
  <2>2. pc'[t] = "return" /\ OthersStay(t) /\ OthersSilent(t)
    BY <1>3, <1>6, OneMoves
  <2>3. RefineInv' /\ Contents' = Contents
    BY <1>6, <2>1, <2>2, QuietPending DEF NotDirty, PCs
  <2>4. Atomic!Finish(t, Atomic!PanickedReply)
    BY <1>3, <1>4, <1>6, <2>2, PanicEnds
  <2>5. Atomic!DoPanic(t)
    BY <2>3, <2>4 DEF Atomic!DoPanic
  <2>6. QED
    BY <2>3, <2>5 DEF Simulated, Atomic!Next
<1>7. ASSUME pc[t] = "apply", Goto(t, "publish"), NEW v \in OptVal, Store(t, k, v),
             v \in {Lookup(Slot(k), k), After(c, Lookup(Slot(k), k))}
      PROVE  RefineInv' /\ Simulated
  <2>1. Writing(k, v)
    BY <1>2, <1>7, StoreWrites DEF Unwind
  <2>2. pc'[t] = "publish" /\ OthersStay(t) /\ OthersSilent(t)
    BY <1>3, <1>7, OneMoves
  <2>3. /\ Stored(k)' = v /\ Visible(k)' = Lookup(Slot(k), k)
        /\ Contents' = Contents /\ Elsewhere(t)
    BY <1>2, <1>7, <2>1, StoreEffect
  <2>4. KeyAnswered(t)'
    BY <1>2, <1>4, <1>7, <2>3 DEF KeyAnswered
  <2>5. QED
    BY <1>3, <1>7, <2>2, <2>3, <2>4, RefinesGuarded DEF Guarding
<1>8. QED
  <2>1. PICK old \in OptVal : old = Lookup(Slot(k), k)
    BY SlotTypes DEF Layout
  <2>2. \/ pc[t] \in {"promote", "apply"} /\ Goto(t, "release") /\ UNCHANGED <<shards, preimage>>
        \/ /\ pc[t] \in {"lookup", "init", "read", "fallback"} /\ Goto(t, "return")
           /\ UNCHANGED <<shards, preimage>>
        \/ /\ pc[t] = "apply" /\ Inserts(c, old) /\ Goto(t, "publish")
           /\ \E v \in {old, c.new} : Store(t, k, v)
        \/ /\ pc[t] = "apply" /\ Removes(c, old) /\ Goto(t, "publish") /\ Store(t, k, Nil)
    BY <1>2, <2>1 DEF Unwind
  <2>3. pc[t] = "apply" => c.op # "get"
    BY <1>2 DEF CallMatches, WriterPCs
  <2>4. pc[t] = "apply" => /\ Inserts(c, old) => After(c, old) = c.new
                           /\ Removes(c, old) => After(c, old) = Nil
    BY <2>3, ApplyMeetsContract
  <2>5. c.new \in OptVal /\ Nil \in OptVal
    BY DEF KeyCalls, OptVal
  <2>6. QED
    BY <1>5, <1>6, <1>7, <2>1, <2>2, <2>4, <2>5

\* Publish stutters: the length and the version are no part of the contents.
LEMMA RefinesPublish ==
  ASSUME MapInv, NEW t \in Threads, Publish(t)
  PROVE  RefineInv' /\ Simulated
<1> USE DEF MapInv, HomeInv, Control
<1>1. /\ pc[t] = "publish" /\ Goto(t, "release")
      /\ UNCHANGED <<topology, preimage, call, reply, at>>
  BY DEF Publish
<1>2. pc'[t] = "release" /\ OthersStay(t) /\ OthersSilent(t)
  BY <1>1, OneMoves
<1>3. PICK c \in KeyCalls, k \in Keys : c = call[t] /\ k = c.key
  BY <1>1, KeyTyped DEF KeyPCs, Key
<1>4. /\ Stored(k)' = Stored(k) /\ Visible(k)' = Visible(k)
      /\ Contents' = Contents /\ Elsewhere(t)
  BY <1>1, QuietValues, ContentsKept DEF Visible, Elsewhere
<1>5. \/ reply[t] = Answer(c, Visible(k)) /\ Stored(k) = After(c, Visible(k))
      \/ reply[t] = PanickedReply /\ Stored(k) \in {Visible(k), After(c, Visible(k))}
  BY <1>1, <1>3 DEF RefineInv, Pending, KeyAnswered
<1>6. KeyAnswered(t)'
  BY <1>1, <1>3, <1>4, <1>5 DEF KeyAnswered
<1>7. QED
  BY <1>1, <1>2, <1>4, <1>6, RefinesGuarded DEF Guarding

\* The shard guard drops: the call takes effect, or panicked.
LEMMA RefinesRelease ==
  ASSUME MapInv, NEW t \in Threads, Release(t)
  PROVE  RefineInv' /\ Simulated
<1> USE DEF MapInv, HomeInv, Control
<1>1. /\ pc[t] = "release" /\ Goto(t, "return") /\ UNCHANGED <<topology, call, reply, at>>
      /\ preimage' = [preimage EXCEPT ![Key(t)] = Clean]
  BY DEF Release
<1>2. pc'[t] = "return" /\ OthersStay(t) /\ OthersSilent(t)
  BY <1>1, OneMoves
<1>3. PICK c \in KeyCalls, k \in Keys : c = call[t] /\ k = c.key /\ k = Key(t)
  BY <1>1, KeyTyped DEF KeyPCs, Key
<1>4. preimage'[k] = Clean /\ \A j \in Keys \ {k} : preimage'[j] = preimage[j]
  BY <1>1, <1>3 DEF CallType
<1>5. Possesses(t, k)
  BY <1>1, <1>3 DEF Possesses, Dirties
<1>6. RefineInv'
  <2>1. Elsewhere(t)
    BY <1>1, <1>4, <1>5, QuietValues DEF Elsewhere
  <2>2. QED
    BY <1>2, <2>1, PendingOthers, PendingNothing DEF RefineInv, NotDirty, PCs
<1>7. Visible(k)' = Stored(k) /\ \A j \in Keys \ {k} : Visible(j)' = Visible(j)
  BY <1>1, <1>4, QuietValues DEF Visible
<1>8. CASE reply[t] = Answer(c, Visible(k)) /\ Stored(k) = After(c, Visible(k))
  <2>1. \A j \in Keys : Visible(j)' = IF j = Key(t) THEN After(call[t], Visible(j))
                                      ELSE Visible(j)
    BY <1>3, <1>7, <1>8
  <2>2. reply'[t] = Answer(call[t], Visible(Key(t)))
    BY <1>1, <1>3, <1>8
  <2>3. Atomic!DoKey(t)
    BY <1>1, <1>2, <1>3, <2>1, <2>2, KeyTakesEffect
  <2>4. QED
    BY <1>6, <2>3 DEF Simulated, Atomic!Next
<1>9. CASE reply[t] = PanickedReply /\ Stored(k) \in {Visible(k), After(c, Visible(k))}
  <2>1. Atomic!Finish(t, Atomic!PanickedReply)
    BY <1>1, <1>2, <1>9, PanicEnds
  <2>2. CASE Stored(k) = Visible(k)
    <3>1. Contents' = Contents
      BY <1>7, <2>2 DEF Contents
    <3>2. Atomic!DoPanic(t)
      BY <2>1, <3>1 DEF Atomic!DoPanic
    <3>3. QED
      BY <1>6, <3>2 DEF Simulated, Atomic!Next
  <2>3. CASE Stored(k) = After(c, Visible(k))
    <3>1. Contents' = [Contents EXCEPT ![k] = After(c, Contents[k])]
      BY <1>7, <2>3 DEF Contents
    <3>2. c.op \in Atomic!KeyOps
      BY SameContracts DEF KeyCalls
    <3>3. Contents' = [Contents EXCEPT ![call[t].key] =
                          Atomic!After(call[t], Contents[call[t].key])]
      BY <1>3, <3>1, SameContracts
    <3>4. Atomic!DoPanic(t)
      BY <1>3, <2>1, <3>2, <3>3 DEF Atomic!DoPanic
    <3>5. QED
      BY <1>6, <3>4 DEF Simulated, Atomic!Next
  <2>4. QED
    BY <1>9, <2>2, <2>3
<1>10. QED
  BY <1>1, <1>3, <1>8, <1>9 DEF RefineInv, Pending, KeyAnswered

-----------------------------------------------------------------------------
(*****************************************************************************)
(* Transactions.                                                             *)
(*****************************************************************************)
\* What StepsDone says is what AfterSteps computes.
LEMMA StepsAmountTo ==
  ASSUME NEW k \in Keys, NEW steps \in Seq(TxnSteps), NEW n \in Nat, n <= Len(steps),
         StepsDone(steps, n, k)
  PROVE  Stored(k) = AfterSteps(steps, n, Contents)[k]
<1>1. CASE /\ \A i \in 1..n : ~Writes(steps[i], k)
           /\ Stored(k) = Visible(k)
  BY <1>1 DEF AfterSteps, Contents
<1>2. ASSUME NEW i \in 1..n, Writes(steps[i], k),
             \A j \in (i + 1)..n : ~Writes(steps[j], k),
             Stored(k) = Wrote(steps[i])
      PROVE  Stored(k) = AfterSteps(steps, n, Contents)[k]
  <2> DEFINE Last(m) == /\ Writes(steps[m], k)
                        /\ \A j \in (m + 1)..n : ~Writes(steps[j], k)
             last == CHOOSE m \in 1..n : Last(m)
  <2>1. last \in 1..n /\ Last(last)
    BY <1>2
  <2>2. \A m \in 1..n : Last(m) => m = i
    BY <1>2
  <2>3. last = i
    BY <2>1, <2>2
  <2>4. AfterSteps(steps, n, Contents)[k] =
          IF steps[last].op = "write" THEN steps[last].new ELSE Nil
    BY <1>2 DEF AfterSteps
  <2>5. QED
    BY <1>2, <2>3, <2>4 DEF Wrote
<1>3. QED
  BY <1>1, <1>2 DEF StepsDone

\* A key the transaction does not name keeps its value.
LEMMA StepsElsewhere ==
  ASSUME NEW t \in Threads, call[t] \in TxnCalls, NEW k \in Keys, k \notin TxnKeys(t),
         NEW n \in Nat, n <= Len(call[t].steps)
  PROVE  AfterSteps(call[t].steps, n, Contents)[k] = Visible(k)
<1>1. \A i \in 1..n : i \in DOMAIN call[t].steps
  BY TxnKeysTyped
<1>2. \A i \in 1..n : ~Writes(call[t].steps[i], k)
  BY <1>1 DEF TxnKeys, Writes
<1>3. QED
  BY <1>2 DEF AfterSteps, Contents

\* All shards locked, or one more of them.
LEMMA RefinesTxnLock ==
  ASSUME MapInv, NEW t \in Threads, TxnLock(t)
  PROVE  RefineInv' /\ Simulated
<1> USE DEF MapInv, HomeInv, Control
<1>1. /\ pc[t] = "txn_lock" /\ UNCHANGED <<topology, preimage, call, reply>>
      /\ call[t] \in TxnCalls
  BY DEF TxnLock, CallMatches, TxnPCs
<1>2. CASE Wanted(t) = {} /\ Goto(t, "txn_apply") /\ at' = [at EXCEPT ![t] = 1]
  <2>1. pc'[t] = "txn_apply" /\ OthersStay(t) /\ OthersSilent(t) /\ at'[t] = 1
    BY <1>1, <1>2, OneMoves DEF CallType
  <2>2. Contents' = Contents /\ \A u \in Threads \ {t} : Pending(u)'
    BY <1>1, <2>1, QuietPending
  <2>3. \A k \in TxnKeys(t) : Stored(k)' = Visible(k)'
    <3>1. SUFFICES ASSUME NEW k \in TxnKeys(t) PROVE Stored(k)' = Visible(k)'
      OBVIOUS
    <3>2. k \in Keys /\ k \in TxnKeys(t)'
      BY <1>1, TxnKeysTyped DEF TxnKeys
    <3>3. writer[Active(shard_index(k))] = t /\ t \in readers[Routing]
      BY <1>1, <1>2 DEF TxnLock, Wanted, TxnLocks, RoutingHeld, Pinned, TxnPCs
    <3>4. \A u \in Threads : ~Dirties(u, k)
      <4>1. ~Dirties(t, k)
        BY <1>1 DEF Dirties
      <4>2. \A u \in Threads \ {t} : ~Possesses(u, k)
        BY <3>2, <3>3, PossessorLocks
      <4>3. QED
        BY <4>1, <4>2 DEF Possesses
    <3>5. preimage[k] = Clean
      BY <3>2, <3>4 DEF ValueInv, DirtyOwned
    <3>6. QED
      BY <1>1, <3>5 DEF Visible
  <2>4. TxnDone(t)'
    <3>1. TxnKeys(t)' = TxnKeys(t) /\ call'[t] = call[t]
      BY <1>1 DEF TxnKeys
    <3>2. at'[t] - 1 = 0 /\ 0 <= Len(call'[t].steps)
      BY <1>1, <2>1, <3>1, TxnKeysTyped
    <3>3. \A k \in TxnKeys(t) : StepsDone(call[t].steps, at[t] - 1, k)'
      BY <2>3, <3>2 DEF StepsDone
    <3>4. QED
      BY <3>1, <3>2, <3>3 DEF TxnDone
  <2>5. Pending(t)'
    BY <2>1, <2>4 DEF Pending, KeyAnswered, Swept, OnlyGetReads
  <2>6. UNCHANGED Atomic!specVars
    BY <1>1, <2>1, <2>2, MovesInside DEF OthersSilent
  <2>7. QED
    BY <2>2, <2>5, <2>6 DEF RefineInv, Simulated
<1>3. CASE UNCHANGED <<pc, at>>
  <2>1. pc'[t] = "txn_lock" /\ OthersStay(t) /\ OthersSilent(t)
    BY <1>1, <1>3, OneMoves
  <2>2. QED
    BY <1>1, <2>1, RefinesQuiet DEF NotDirty, PCs, TxnPCs
<1>4. QED
  BY <1>2, <1>3 DEF TxnLock

\* One more step done.
LEMMA StepsExtended ==
  ASSUME NEW steps, NEW n \in Nat, NEW k \in Keys,
         \/ /\ Writes(steps[n + 1], k)
            /\ Stored(k)' = Wrote(steps[n + 1])
         \/ /\ ~Writes(steps[n + 1], k) /\ StepsDone(steps, n, k)
            /\ Stored(k)' = Stored(k) /\ Visible(k)' = Visible(k)
  PROVE  StepsDone(steps, n + 1, k)'
<1>1. CASE Writes(steps[n + 1], k) /\ Stored(k)' = Wrote(steps[n + 1])
  <2>1. n + 1 \in 1..(n + 1) /\ \A j \in (n + 1 + 1)..(n + 1) : ~Writes(steps[j], k)
    OBVIOUS
  <2>2. QED
    BY <1>1, <2>1 DEF StepsDone
<1>2. CASE /\ ~Writes(steps[n + 1], k) /\ StepsDone(steps, n, k)
           /\ Stored(k)' = Stored(k) /\ Visible(k)' = Visible(k)
  <2>1. CASE (\A i \in 1..n : ~Writes(steps[i], k)) /\ Stored(k) = Visible(k)
    <3>1. \A i \in 1..(n + 1) : i \in 1..n \/ i = n + 1
      OBVIOUS
    <3>2. \A i \in 1..(n + 1) : ~Writes(steps[i], k)
      BY <1>2, <2>1, <3>1
    <3>3. QED
      BY <1>2, <2>1, <3>2 DEF StepsDone
  <2>2. ASSUME NEW i \in 1..n, Writes(steps[i], k),
               \A j \in (i + 1)..n : ~Writes(steps[j], k),
               Stored(k) = Wrote(steps[i])
        PROVE  StepsDone(steps, n + 1, k)'
    <3>1. i \in 1..(n + 1) /\ \A j \in (i + 1)..(n + 1) : j \in (i + 1)..n \/ j = n + 1
      OBVIOUS
    <3>2. \A j \in (i + 1)..(n + 1) : ~Writes(steps[j], k)
      BY <1>2, <2>2, <3>1
    <3>3. QED
      BY <1>2, <2>2, <3>1, <3>2 DEF StepsDone
  <2>3. QED
    BY <1>2, <2>1, <2>2 DEF StepsDone
<1>3. QED
  BY <1>1, <1>2

\* One step of a transaction, under all its guards: invisible.
LEMMA RefinesTxnApply ==
  ASSUME MapInv, NEW t \in Threads, TxnApply(t)
  PROVE  RefineInv' /\ Simulated
<1> USE DEF MapInv, HomeInv, Control
<1>1. PICK k \in Keys, new \in OptVal, s \in TxnSteps :
        /\ s = StepNow(t) /\ k = s.key /\ new = Leaves(s, Stored(k)) /\ k \in TxnKeys(t)
        /\ pc[t] = "txn_apply" /\ UNCHANGED <<pc, call>> /\ call[t] \in TxnCalls
        /\ at[t] \in 1..Len(call[t].steps) /\ at' = [at EXCEPT ![t] = @ + 1]
        /\ Writing(k, new)
        /\ preimage' = [preimage EXCEPT ![k] = IF @ = Clean THEN Stored(k) ELSE @]
  BY TxnApplyWrites
<1>2. UNCHANGED reply
  BY DEF TxnApply
<1>3. pc'[t] = "txn_apply" /\ OthersStay(t) /\ OthersSilent(t) /\ at'[t] = at[t] + 1
  BY <1>1, <1>2, OneMoves DEF CallType
<1>4. /\ Slot(k) # NoShard /\ Stored(k) \in OptVal
      /\ Stored(k)' = new /\ \A j \in Keys \ {k} : Stored(j)' = Stored(j)
  <2>1. Slot(k) # NoShard
    BY <1>1 DEF LocksHeld, Holds, TxnHolds
  <2>2. QED
    BY <1>1, <2>1, WritingEffect, SlotTypes DEF Layout
<1>5. \A j \in Keys \ {k} : preimage'[j] = preimage[j]
  BY <1>1 DEF CallType
<1>6. \A j \in Keys : Visible(j)' = Visible(j)
  <2>1. Visible(k)' = Visible(k)
    <3>1. preimage'[k] = IF preimage[k] = Clean THEN Stored(k) ELSE preimage[k]
      BY <1>1 DEF CallType
    <3>2. Stored(k) # Clean
      BY <1>4, DistinctAssumption
    <3>3. QED
      BY <3>1, <3>2 DEF Visible
  <2>2. QED
    BY <1>4, <1>5, <2>1 DEF Visible
<1>7. Contents' = Contents
  BY <1>6 DEF Contents
<1>8. Elsewhere(t)
  BY <1>1, <1>4, <1>5 DEF Elsewhere, Possesses, Dirties
<1>9. TxnDone(t)'
  <2>1. PICK steps \in Seq(TxnSteps), n \in Nat :
          /\ steps = call[t].steps /\ steps = call'[t].steps
          /\ n = at[t] - 1 /\ n + 1 = at[t] /\ n + 1 = at'[t] - 1 /\ n + 1 <= Len(steps)
    <3>1. /\ at[t] \in Nat \ {0} /\ at[t] <= Len(call[t].steps)
          /\ call[t].steps \in Seq(TxnSteps)
      BY <1>1, TxnKeysTyped
    <3>2. call'[t].steps = call[t].steps
      BY <1>1
    <3>3. at[t] - 1 \in Nat
      BY <3>1
    <3>4. QED
      BY <1>3, <3>1, <3>2, <3>3
  <2>2. steps[n + 1] = s
    BY <1>1, <2>1 DEF StepNow
  <2>3. TxnKeys(t)' = TxnKeys(t) /\ TxnKeys(t) \subseteq Keys
    BY <1>1, TxnKeysTyped DEF TxnKeys
  <2>4. \A j \in TxnKeys(t) : StepsDone(steps, n, j)
    BY <1>1, <2>1 DEF RefineInv, Pending, TxnDone
  <2>5. ASSUME NEW j \in TxnKeys(t)
        PROVE  StepsDone(steps, n + 1, j)'
    <3>1. CASE Writes(s, j)
      <4>1. j = k /\ s.op \in {"write", "remove"}
        BY <1>1, <3>1 DEF Writes
      <4>2. Stored(j)' = Wrote(s)
        BY <1>1, <1>4, <4>1 DEF Leaves, Wrote
      <4>3. QED
        BY <1>1, <2>2, <3>1, <4>1, <4>2, StepsExtended
    <3>2. CASE ~Writes(s, j)
      <4>1. j = k => s.op = "read"
        BY <1>1, <3>2 DEF Writes, TxnSteps
      <4>2. Stored(j)' = Stored(j)
        BY <1>1, <1>4, <2>3, <4>1 DEF Leaves
      <4>3. QED
        BY <1>6, <2>2, <2>3, <2>4, <3>2, <4>2, StepsExtended
    <3>3. QED
      BY <3>1, <3>2
  <2>6. QED
    BY <2>1, <2>3, <2>5 DEF TxnDone
<1>10. Pending(t)'
  BY <1>3, <1>9 DEF Pending, KeyAnswered, Swept, OnlyGetReads
<1>11. RefineInv'
  BY <1>3, <1>8, <1>10, PendingOthers DEF RefineInv
<1>12. UNCHANGED Atomic!specVars
  BY <1>1, <1>3, <1>7, MovesInside DEF OthersSilent
<1>13. QED
  BY <1>11, <1>12 DEF Simulated

\* All guards drop: the steps that ran take effect together.
LEMMA RefinesTxnEnd ==
  ASSUME MapInv, NEW t \in Threads, TxnCommit(t) \/ TxnUnwind(t)
  PROVE  RefineInv' /\ Simulated
<1> USE DEF MapInv, HomeInv, Control
<1>1. /\ pc[t] = "txn_apply" /\ Goto(t, "return") /\ UNCHANGED <<topology, call>>
      /\ preimage' = [k \in Keys |-> IF k \in TxnKeys(t) THEN Clean ELSE preimage[k]]
      /\ at' = [at EXCEPT ![t] = 0]
      /\ call[t] \in TxnCalls /\ at[t] \in Nat \ {0}
  BY DEF TxnCommit, TxnUnwind, TxnEnd, CallMatches, TxnPCs, CallType
<1>2. PICK r \in {DoneReply, PanickedReply} :
         Say(t, r) /\ (r = DoneReply => at[t] > Len(call[t].steps))
  BY DEF TxnCommit, TxnUnwind, TxnEnd, DoneReply, PanickedReply
<1>3. pc'[t] = "return" /\ OthersStay(t) /\ OthersSilent(t) /\ reply'[t] = r
  BY <1>1, <1>2, OneMoves DEF Say, CallType
<1>4. \A k \in Keys : Stored(k)' = Stored(k)
  BY <1>1, QuietValues
<1>5. RefineInv'
  <2>1. Elsewhere(t)
    BY <1>1, <1>4 DEF Elsewhere, Possesses, Dirties
  <2>2. QED
    BY <1>3, <2>1, PendingOthers, PendingNothing DEF RefineInv, NotDirty, PCs
<1>6. PICK steps \in Seq(TxnSteps), n \in Nat :
        /\ steps = call[t].steps /\ n = at[t] - 1 /\ n <= Len(steps)
        /\ r = DoneReply => n = Len(steps)
  <2>1. call[t].steps \in Seq(TxnSteps) /\ Len(call[t].steps) \in Nat
    BY <1>1, TxnKeysTyped
  <2>2. at[t] - 1 <= Len(call[t].steps)
    BY <1>1 DEF RefineInv, Pending, TxnDone
  <2>3. QED
    BY <1>1, <1>2, <2>1, <2>2
<1>7. \A k \in Keys : Visible(k)' = AfterSteps(steps, n, Contents)[k]
  <2>1. ASSUME NEW k \in TxnKeys(t) PROVE Visible(k)' = AfterSteps(steps, n, Contents)[k]
    <3>1. k \in Keys /\ StepsDone(steps, n, k)
      BY <1>1, <1>6, TxnKeysTyped DEF RefineInv, Pending, TxnDone
    <3>2. Visible(k)' = Stored(k)
      BY <1>1, <1>4, <3>1 DEF Visible
    <3>3. QED
      BY <1>6, <3>1, <3>2, StepsAmountTo
  <2>2. ASSUME NEW k \in Keys, k \notin TxnKeys(t)
        PROVE  Visible(k)' = AfterSteps(steps, n, Contents)[k]
    <3>1. Visible(k)' = Visible(k)
      BY <1>1, <1>4, <2>2 DEF Visible
    <3>2. QED
      BY <1>1, <1>6, <2>2, <3>1, StepsElsewhere
  <2>3. QED
    BY <2>1, <2>2
<1>8. Contents' = AfterSteps(steps, n, Contents)
  <2>1. AfterSteps(steps, n, Contents) = [k \in Keys |-> AfterSteps(steps, n, Contents)[k]]
    BY DEF AfterSteps
  <2>2. Contents' = [k \in Keys |-> Visible(k)']
    BY DEF Contents
  <2>3. QED
    BY <1>7, <2>1, <2>2
<1>9. call[t].op = "txn"
  BY <1>1 DEF TxnCalls
<1>10. Atomic!Next
  <2>1. CASE r = DoneReply
    <3>1. AnswerOf(t)' = DoneReply
      BY <1>3, <2>1 DEF AnswerOf, Decided, DoneReply
    <3>2. Atomic!Finish(t, Atomic!DoneReply)
      BY <1>1, <1>3, <3>1, Finishes, SameContracts DEF OthersSilent
    <3>3. Contents' = Atomic!AfterSteps(call[t].steps, Len(call[t].steps), Contents)
      BY <1>6, <1>8, <2>1, SameContracts
    <3>4. Atomic!DoTxn(t)
      BY <1>9, <3>2, <3>3 DEF Atomic!DoTxn
    <3>5. QED
      BY <3>4 DEF Atomic!Next
  <2>2. CASE r = PanickedReply
    <3>1. Atomic!Finish(t, Atomic!PanickedReply)
      BY <1>1, <1>3, <2>2, PanicEnds
    <3>2. n \in 0..Len(call[t].steps)
      BY <1>6
    <3>3. Contents' = Atomic!AfterSteps(call[t].steps, n, Contents)
      BY <1>6, <1>8, SameContracts
    <3>4. Atomic!DoPanic(t)
      BY <1>9, <3>1, <3>2, <3>3 DEF Atomic!DoPanic
    <3>5. QED
      BY <3>4 DEF Atomic!Next
  <2>3. QED
    BY <2>1, <2>2
<1>11. QED
  BY <1>5, <1>10 DEF Simulated

\* A panic while nothing was stored.
LEMMA RefinesEarlyPanic ==
  ASSUME MapInv, NEW t \in Threads, TxnAbort(t) \/ SnapshotUnwind(t)
  PROVE  RefineInv' /\ Simulated
<1> USE DEF MapInv, HomeInv, Control
<1>1. /\ pc[t] \in {"txn_resolve", "collect"} /\ Goto(t, "return")
      /\ Say(t, PanickedReply) /\ UNCHANGED <<topology, preimage, call, at>>
  BY DEF TxnAbort, SnapshotUnwind
<1>2. pc'[t] = "return" /\ OthersStay(t) /\ OthersSilent(t) /\ reply'[t] = PanickedReply
  BY <1>1, OneMoves DEF Say, CallType
<1>3. RefineInv' /\ Contents' = Contents
  BY <1>1, <1>2, QuietPending DEF NotDirty, PCs
<1>4. Atomic!Finish(t, Atomic!PanickedReply)
  BY <1>1, <1>2, PanicEnds
<1>5. Atomic!DoPanic(t)
  BY <1>3, <1>4 DEF Atomic!DoPanic
<1>6. QED
  BY <1>3, <1>5 DEF Simulated, Atomic!Next

-----------------------------------------------------------------------------
(*****************************************************************************)
(* Snapshots.                                                                *)
(*****************************************************************************)
\* A snapshot call is answered with the current contents.
LEMMA SnapshotAnswered ==
  ASSUME MapInv, NEW t \in Threads, OthersStay(t), OthersSilent(t),
         UNCHANGED <<topology, preimage, call>>,
         pc[t] \in {"cached", "recheck", "collect"}, pc'[t] \in {"return", "cache"},
         NEW e, reply'[t] = SnapshotReply(e, Pairs(Contents))
  PROVE  RefineInv' /\ Simulated
<1> USE DEF MapInv, HomeInv, Control
<1>1. RefineInv' /\ Contents' = Contents
  BY QuietPending DEF NotDirty, PCs, SnapPCs
<1>2. AnswerOf(t)' = [tag |-> "snapshot", items |-> Pairs(Contents)]
  BY DEF AnswerOf, Decided, SnapshotReply
<1>3. Atomic!Finish(t, [tag |-> "snapshot", items |-> Atomic!Pairs(Contents)])
  BY <1>2, Finishes, SameContracts DEF OthersSilent
<1>4. call[t].op \in {"snapshot", "view"}
  BY DEF CallMatches, SnapPCs, SnapCalls
<1>5. Atomic!DoSnapshot(t)
  BY <1>1, <1>3, <1>4 DEF Atomic!DoSnapshot
<1>6. QED
  BY <1>1, <1>5 DEF Simulated, Atomic!Next

\* A cache hit is the current contents.
LEMMA HitsCurrent ==
  ASSUME ValueInv, NEW c \in Hits
  PROVE  c.items = Pairs(Contents)
BY DEF Hits, ValueInv, CapturedCurrent, Captured

\* A cache hit answers with the contents of this moment.
LEMMA RefinesCheckCache ==
  ASSUME MapInv, NEW t \in Threads, CheckCache(t) \/ Recheck(t)
  PROVE  RefineInv' /\ Simulated
<1> USE DEF MapInv, HomeInv, Control
<1>1. pc[t] \in {"cached", "recheck"} /\ UNCHANGED <<topology, preimage, call, at>>
  BY DEF CheckCache, Recheck
<1>2. CASE UNCHANGED reply /\ \E to \in {"gate", "pin"} : Goto(t, to)
  <2>1. PICK to \in {"gate", "pin"} : Goto(t, to)
    BY <1>2
  <2>2. pc'[t] = to /\ OthersStay(t) /\ OthersSilent(t)
    BY <1>1, <1>2, <2>1, OneMoves
  <2>3. QED
    BY <1>1, <2>2, RefinesQuiet DEF NotDirty, PCs, SnapPCs
<1>3. ASSUME NEW c \in Hits, Goto(t, "return"), Say(t, SnapshotReply(c.epoch, c.items))
      PROVE  RefineInv' /\ Simulated
  <2>1. pc'[t] = "return" /\ OthersStay(t) /\ OthersSilent(t)
    BY <1>1, <1>3, OneMoves
  <2>2. reply'[t] = SnapshotReply(c.epoch, Pairs(Contents))
    BY <1>3, HitsCurrent DEF Say, CallType
  <2>3. QED
    BY <1>1, <2>1, <2>2, SnapshotAnswered
<1>4. QED
  BY <1>2, <1>3 DEF CheckCache, Recheck

\* Collect answers with the contents of this moment.
LEMMA RefinesCollect ==
  ASSUME MapInv, NEW t \in Threads, Collect(t)
  PROVE  RefineInv' /\ Simulated
<1> USE DEF MapInv, HomeInv, Control
<1>1. /\ pc[t] = "collect" /\ UNCHANGED <<topology, preimage, call, at>>
      /\ Say(t, SnapshotReply(cut[t], AllItems))
  BY DEF Collect
<1>2. PICK to \in {"return", "cache"} : Goto(t, to)
  BY DEF Collect
<1>3. pc'[t] = to /\ OthersStay(t) /\ OthersSilent(t)
  BY <1>1, <1>2, OneMoves
<1>4. reply'[t] = SnapshotReply(cut[t], Pairs(Contents))
  BY <1>1, CollectExact DEF Say, CallType
<1>5. QED
  BY <1>1, <1>3, <1>4, SnapshotAnswered

\* Filling the cache is invisible: the builder already has its answer.
LEMMA RefinesFillCache ==
  ASSUME MapInv, NEW t \in Threads, FillCache(t)
  PROVE  RefineInv' /\ Simulated
<1> USE DEF MapInv, HomeInv, Control
<1>1. /\ pc[t] = "cache" /\ Goto(t, "return")
      /\ UNCHANGED <<topology, preimage, call, reply, at>>
  BY DEF FillCache
<1>2. pc'[t] = "return" /\ OthersStay(t) /\ OthersSilent(t)
  BY <1>1, OneMoves
<1>3. RefineInv' /\ Contents' = Contents
  BY <1>1, <1>2, QuietPending DEF NotDirty, PCs
<1>4. Status(t)' = Status(t) /\ AnswerOf(t)' = AnswerOf(t)
  BY <1>1, <1>2 DEF Status, AnswerOf, Decided
<1>5. UNCHANGED Atomic!specVars
  BY <1>1, <1>2, <1>3, <1>4, OthersLook, Stutters
<1>6. QED
  BY <1>3, <1>5 DEF Simulated

-----------------------------------------------------------------------------
(*****************************************************************************)
(* Sweeps and migration.                                                     *)
(*****************************************************************************)
LEMMA RefinesSweepRouting ==
  ASSUME MapInv, NEW t \in Threads, SweepRouting(t)
  PROVE  RefineInv' /\ Simulated
<1> USE DEF MapInv, HomeInv, Control
<1>1. /\ pc[t] = "exclusive" /\ Goto(t, "sweep") /\ Exclusive
      /\ UNCHANGED <<topology, preimage, call, reply, at>>
  BY DEF SweepRouting, WriteLock, Exclusive
<1>2. pc'[t] = "sweep" /\ OthersStay(t) /\ OthersSilent(t)
  BY <1>1, OneMoves
<1>3. Contents' = Contents /\ \A u \in Threads \ {t} : Pending(u)'
  BY <1>1, <1>2, QuietPending
<1>4. \A k \in Keys : preimage[k] = Clean
  BY <1>1, NoneWhileExclusive, CleanUnpossessed
<1>5. Pending(t)'
  BY <1>1, <1>2, <1>4 DEF Pending, KeyAnswered, TxnDone, Swept, OnlyGetReads
<1>6. UNCHANGED Atomic!specVars
  BY <1>1, <1>2, <1>3, MovesInside
<1>7. QED
  BY <1>3, <1>5, <1>6 DEF RefineInv, Simulated

\* Sweeping one shard stutters: a sweep takes effect when it ends.
LEMMA RefinesSweepShard ==
  ASSUME MapInv, NEW t \in Threads, SweepShard(t)
  PROVE  RefineInv' /\ Simulated
<1> USE DEF MapInv, HomeInv, Control
<1>1. /\ pc[t] = "sweep" /\ UNCHANGED <<pc, call, reply, at>>
      /\ UNCHANGED <<shard_count, previous_shard_count>>
  BY DEF SweepShard
<1>2. PICK l \in ShardLocks, gone \in SUBSET Keys :
         /\ Condemned(t, l) # {} /\ gone \subseteq Condemned(t, l)
         /\ preimage' = [k \in Keys |-> IF k \in gone /\ preimage[k] = Clean
                                        THEN SlotOf(l)[k] ELSE preimage[k]]
         /\ Sweeping(l, gone)
  BY <1>1 DEF SweepShard, Sweeping
<1>3. gone \in SUBSET Present(SlotOf(l)) /\ SlotOf(l) # NoShard
  BY <1>2 DEF Condemned, Present
<1>4. /\ \A k \in gone : Stored(k)' = Nil
      /\ \A k \in Keys \ gone : Stored(k)' = Stored(k)
  BY <1>2, <1>3, SweepingEffect
<1>5. \A k \in gone : k \notin Atomic!Survivors(call[t])
  BY <1>2 DEF Condemned, Atomic!Survivors
<1>6. pc'[t] = "sweep" /\ OthersStay(t) /\ OthersSilent(t)
  BY <1>1, OneMoves
<1>7. Elsewhere(t)
  BY <1>1 DEF Elsewhere, Possesses, Dirties
<1>8. Swept(t)'
  <2>1. Atomic!Survivors(call[t])' = Atomic!Survivors(call[t])
    BY <1>1
  <2>2. ASSUME NEW k \in Keys, preimage'[k] # Clean
        PROVE  Stored(k)' = Nil /\ k \notin Atomic!Survivors(call[t])
    <3>1. CASE k \in gone
      BY <1>4, <1>5, <3>1
    <3>2. CASE k \notin gone
      <4>1. preimage[k] # Clean
        BY <1>2, <2>2, <3>2
      <4>2. Stored(k) = Nil /\ k \notin Atomic!Survivors(call[t])
        BY <1>1, <4>1 DEF RefineInv, Pending, Swept
      <4>3. QED
        BY <1>4, <3>2, <4>2
    <3>3. QED
      BY <3>1, <3>2
  <2>3. QED
    BY <2>1, <2>2 DEF Swept
<1>9. Pending(t)'
  BY <1>6, <1>8 DEF Pending, KeyAnswered, TxnDone, OnlyGetReads
<1>10. RefineInv'
  BY <1>6, <1>7, <1>9, PendingOthers DEF RefineInv
<1>11. UNCHANGED Atomic!specVars
  BY <1>1, <1>6, ValueSweepShard, MovesInside
<1>12. QED
  BY <1>10, <1>11 DEF Simulated

\* Exclusive routing drops: the whole sweep takes effect, or its removals so far.
LEMMA RefinesSweepEnd ==
  ASSUME MapInv, NEW t \in Threads, SweepFinish(t) \/ SweepUnwind(t)
  PROVE  RefineInv' /\ Simulated
<1> USE DEF MapInv, HomeInv, Control
<1>1. /\ pc[t] = "sweep" /\ Goto(t, "return") /\ UNCHANGED <<call, at>>
      /\ preimage' = [k \in Keys |-> Clean]
  BY DEF SweepFinish, SweepUnwind, SweepEnd
<1>2. PICK r \in {DoneReply, PanickedReply} :
         Say(t, r) /\ (r = DoneReply => \A l \in ShardLocks : Condemned(t, l) = {})
  BY DEF SweepFinish, SweepUnwind, SweepEnd, DoneReply, PanickedReply
<1>3. pc'[t] = "return" /\ OthersStay(t) /\ OthersSilent(t) /\ reply'[t] = r
  BY <1>1, <1>2, OneMoves DEF Say, CallType
<1>4. \A k \in Keys : Stored(k)' = Stored(k) /\ Visible(k)' = Stored(k)
  BY <1>1, SweepEndStored DEF Visible
<1>5. RefineInv'
  <2>1. Elsewhere(t)
    BY <1>1 DEF Elsewhere, Possesses, Dirties
  <2>2. QED
    BY <1>3, <2>1, PendingOthers, PendingNothing DEF RefineInv, NotDirty, PCs
<1>6. \A k \in Keys : \/ preimage[k] = Clean /\ Visible(k)' = Visible(k)
                      \/ /\ preimage[k] # Clean /\ Visible(k)' = Nil
                         /\ k \notin Atomic!Survivors(call[t])
  BY <1>1, <1>4 DEF RefineInv, Pending, Swept, Visible
<1>7. call[t].op \in {"clear", "retain"}
  BY <1>1 DEF CallMatches, SweepPCs, SweepCalls
<1>8. Atomic!Next
  <2>1. CASE r = DoneReply
    <3>1. \A k \in Keys : Visible(k)' = IF k \in Atomic!Survivors(call[t]) THEN Visible(k)
                                        ELSE Nil
      <4>1. \A k \in Keys : k \notin Atomic!Survivors(call[t]) => Stored(k) = Nil
        BY <1>2, <2>1, SweptAway DEF Atomic!Survivors, Stored
      <4>2. QED
        BY <1>4, <1>6, <4>1
    <3>2. Contents' = [k \in Keys |-> IF k \in Atomic!Survivors(call[t]) THEN Contents[k]
                                      ELSE Nil]
      BY <3>1 DEF Contents
    <3>3. AnswerOf(t)' = DoneReply
      BY <1>3, <2>1 DEF AnswerOf, Decided, DoneReply
    <3>4. Atomic!Finish(t, Atomic!DoneReply)
      BY <1>1, <1>3, <3>3, Finishes, SameContracts DEF OthersSilent
    <3>5. Atomic!DoSweep(t)
      BY <1>7, <3>2, <3>4 DEF Atomic!DoSweep
    <3>6. QED
      BY <3>5 DEF Atomic!Next
  <2>2. CASE r = PanickedReply
    <3>1. PICK gone \in SUBSET (Keys \ Atomic!Survivors(call[t])) :
             gone = {k \in Keys : preimage[k] # Clean}
      BY <1>6
    <3>2. Contents' = [k \in Keys |-> IF k \in gone THEN Nil ELSE Contents[k]]
      BY <1>6, <3>1 DEF Contents
    <3>3. Atomic!Finish(t, Atomic!PanickedReply)
      BY <1>1, <1>3, <2>2, PanicEnds
    <3>4. Atomic!DoPanic(t)
      BY <1>7, <3>2, <3>3 DEF Atomic!DoPanic
    <3>5. QED
      BY <3>4 DEF Atomic!Next
  <2>3. QED
    BY <2>1, <2>2
<1>9. QED
  BY <1>5, <1>8 DEF Simulated

\* A layout change is invisible.
LEMMA RefinesMigration ==
  ASSUME MapInv, MigrationStep
  PROVE  RefineInv' /\ Simulated
<1> USE DEF MapInv, HomeInv, Control
<1>1. /\ Exclusive
      /\ UNCHANGED <<counters, snapshot_cache, locks, pc, call, reply, at, cut, preimage>>
  BY DEF MigrationStep, StartRebalance, StopTheWorld, MigrateEntry
<1>2. \A u \in Threads : pc'[u] \in NotDirty \ {"read", "fallback"}
  <2>1. \A u \in Threads : pc[u] \in Bare /\ pc[u] # "sweep"
    BY <1>1, NobodyHolds, DistinctAssumption DEF Exclusive, Available, RoutingHeld
  <2>2. QED
    BY <1>1, <2>1 DEF Bare, NotDirty, Guarding
<1>3. RefineInv'
  BY <1>2, PendingNothing DEF RefineInv
<1>4. \A u \in Threads : Status(u)' = Status(u) /\ AnswerOf(u)' = AnswerOf(u)
  BY <1>1 DEF Status, AnswerOf, Decided
<1>5. UNCHANGED Atomic!specVars
  BY <1>1, <1>4, ValueMigration, Stutters
<1>6. QED
  BY <1>3, <1>5 DEF Simulated

-----------------------------------------------------------------------------
\* Nothing is pending at first, and the empty map is MapSpec's initial state.
LEMMA RefinesInit == Init => RefineInv /\ Atomic!Init
<1> SUFFICES ASSUME Init PROVE RefineInv /\ Atomic!Init
  OBVIOUS
<1>1. \A t \in Threads : pc[t] = "idle"
  BY DEF Init
<1>2. RefineInv
  BY <1>1 DEF RefineInv, Pending, KeyAnswered, TxnDone, Swept, OnlyGetReads
<1>3. \A k \in Keys : Visible(k) = Nil
  <2>1. \A k \in Keys : shard_index(k) \in Idx
    BY HomeInit, IndexInRange DEF HomeInv, Layout
  <2>2. \A k \in Keys : Slot(k) = NoShard /\ previous_shard(k) = NoShard /\ preimage[k] = Clean
    BY <2>1 DEF Init, Slot, previous_shard
  <2>3. QED
    BY <2>2 DEF Visible, Stored, Lookup
<1>4. \A t \in Threads : Status(t) = "idle" /\ AnswerOf(t) = NoReply
  BY <1>1 DEF Status, AnswerOf, Decided
<1>5. Atomic!Init
  BY <1>3, <1>4, SameContracts DEF Init, Atomic!Init, Contents
<1>6. QED
  BY <1>2, <1>5

\* Every step keeps what is pending right and is simulated by MapSpec.
LEMMA RefinesNext ==
  ASSUME MapInv, [Next]_vars
  PROVE  RefineInv' /\ Simulated
<1>1. ASSUME NEW t \in Threads, (\E c \in Calls : Invoke(t, c)) \/ Return(t)
      PROVE  RefineInv' /\ Simulated
  BY <1>1, RefinesInvoke, RefinesReturn
<1>2. ASSUME NEW t \in Threads, KeyStep(t) PROVE RefineInv' /\ Simulated
  <2>1. CASE AcquireRouting(t) \/ LockActive(t)
    BY <2>1, RefinesInside
  <2>2. CASE InitSlot(t) \/ Promote(t)
    BY <2>2, RefinesInvisible
  <2>3. CASE FindSlot(t) \/ ReadActive(t) \/ ReadPrevious(t)
    BY <2>3, RefinesFindSlot, RefinesReadActive, RefinesReadPrevious
  <2>4. CASE Apply(t) \/ Unwind(t) \/ Publish(t) \/ Release(t)
    BY <2>4, RefinesApply, RefinesUnwind, RefinesPublish, RefinesRelease
  <2>5. QED
    BY <1>2, <2>1, <2>2, <2>3, <2>4 DEF KeyStep
<1>3. ASSUME NEW t \in Threads, TxnStep(t) PROVE RefineInv' /\ Simulated
  <2>1. CASE TxnRouting(t) \/ TxnResolve(t)
    BY <2>1, RefinesInside, RefinesInvisible
  <2>2. CASE TxnAbort(t) \/ TxnLock(t)
    BY <2>2, RefinesEarlyPanic, RefinesTxnLock
  <2>3. CASE TxnApply(t) \/ TxnCommit(t) \/ TxnUnwind(t)
    BY <2>3, RefinesTxnApply, RefinesTxnEnd
  <2>4. QED
    BY <1>3, <2>1, <2>2, <2>3 DEF TxnStep
<1>4. ASSUME NEW t \in Threads, SnapshotStep(t) PROVE RefineInv' /\ Simulated
  <2>1. CASE EnterGate(t) \/ PinRouting(t) \/ PinDirectory(t) \/ GuardNext(t) \/ LoadEpoch(t)
    BY <2>1, RefinesInside
  <2>2. CASE CheckCache(t) \/ Recheck(t) \/ Collect(t) \/ SnapshotUnwind(t) \/ FillCache(t)
    BY <2>2, RefinesCheckCache, RefinesCollect, RefinesEarlyPanic, RefinesFillCache
  <2>3. QED
    BY <1>4, <2>1, <2>2 DEF SnapshotStep
<1>5. ASSUME NEW t \in Threads, SweepStep(t) PROVE RefineInv' /\ Simulated
  BY <1>5, RefinesSweepRouting, RefinesSweepShard, RefinesSweepEnd DEF SweepStep
<1>6. ASSUME UNCHANGED vars PROVE RefineInv' /\ Simulated
  <2>1. UNCHANGED topology /\ UNCHANGED <<preimage, pc, call, reply, at>>
    BY <1>6 DEF vars
  <2>2. \A k \in Keys : Stored(k)' = Stored(k) /\ Visible(k)' = Visible(k)
    BY <2>1, QuietValues DEF Visible
  <2>3. \A u \in Threads : Status(u)' = Status(u) /\ AnswerOf(u)' = AnswerOf(u)
    BY <2>1 DEF Status, AnswerOf, Decided
  <2>4. UNCHANGED Atomic!specVars
    BY <2>1, <2>2, <2>3, Stutters, ContentsKept
  <2>5. \A t \in Threads : Pending(t)'
    BY <2>1, <2>2, PendingStands DEF MapInv
  <2>6. QED
    BY <2>4, <2>5 DEF RefineInv, Simulated
<1>7. QED
  BY <1>1, <1>2, <1>3, <1>4, <1>5, <1>6, RefinesMigration DEF Next

\* The synchronous map is linearizable: every behaviour of the sharded map is
\* one of the atomic map of MapSpec, each call taking effect at one instant
\* between its invocation and its return.
THEOREM MapLinearizable == Spec => Linearizable
<1>1. Init => MapInv /\ Atomic!Init
  BY HomeInit, LocksInit, ValueInit, RefinesInit DEF MapInv
<1>2. MapInv /\ [Next]_vars => MapInv' /\ [Atomic!Next]_(Atomic!specVars)
  <2>1. SUFFICES ASSUME MapInv, [Next]_vars PROVE MapInv' /\ [Atomic!Next]_(Atomic!specVars)
    OBVIOUS
  <2>2. HomeInv' /\ LocksHeld' /\ ValueInv'
    BY <2>1, HomeNext, LocksNext, ValueNext DEF MapInv
  <2>3. RefineInv' /\ Simulated
    BY <2>1, RefinesNext
  <2>4. QED
    BY <2>2, <2>3 DEF MapInv, Simulated
<1>3. QED
  BY <1>1, <1>2, PTL DEF Spec, Linearizable, Atomic!Spec
=============================================================================
