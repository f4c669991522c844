-------------------------- MODULE AsyncData_proofs --------------------------
(*****************************************************************************)
(* The data of the asynchronous map, proved for every set of tasks, keys and *)
(* values, every hash, every mix of calls and any number of dropped futures, *)
(* from the table of locks of AsyncMap_proofs: whatever was dropped and      *)
(* where, entries are where their hash says, and the length, the epoch, the  *)
(* cached snapshot and the metadata of the eviction engine agree with them,  *)
(* and a map beyond its limits knows that maintenance is due.                *)
(*****************************************************************************)
EXTENDS AsyncMap_proofs

(*****************************************************************************)
(* What is stored, and what the map knows of it.                             *)
(*****************************************************************************)
DataTypes ==
  /\ shards \in [Idx -> Shard \cup {NoShard}]
  /\ previous_shards \in [Idx -> Shard \cup {NoShard}]
  /\ moved_shards \in Idx /\ migrating \in BOOLEAN /\ write_epoch \in Nat

\* Where the entries are, and how far a migration has got.
Homes ==
  /\ OneHome(shards, shard_count, previous_shards, previous_shard_count)
  /\ migrating <=> previous_shard_count # 0
  /\ Drained(previous_shards, previous_shard_count, moved_shards)

\* What the map knows of its entries.
Accounts ==
  /\ total_len = Cardinality(Stored)
  /\ enabled => meta = Stored

\* A snapshot of the contents at an epoch.
Current(epoch, items) ==
  epoch \in Nat /\ epoch <= write_epoch /\ (epoch = write_epoch => items = Pairs(Contents))

\* The slot of a key is there.
Settled(k) == shards[shard_index(k)] # NoShard

\* The keys in hand go to one shard, and during a migration they are one.
Handful(t) ==
  pc[t] \in InHand =>
    /\ \A j, k \in frame[t].part : shard_index(j) = shard_index(k)
    /\ migrating /\ call[t].op # "txn" => \A j, k \in frame[t].part : j = k
    /\ call[t].op \in KeyOps => frame[t].left = {call[t].key}

\* Who is about to write has a shard to write to.
Housed(t) ==
  /\ pc[t] = "active" => \A k \in frame[t].part : Settled(k)
  /\ pc[t] = "previous" /\ ~ReadOnly(t) => \A k \in frame[t].part : Settled(k)
  /\ pc[t] \in {"slots", "init"} /\ call[t].op = "txn" =>
       \A k \in frame[t].left : shard_index(k) < shard_index(KeyInHand(t)) => Settled(k)
  /\ pc[t] = "guards" /\ ~ReadOnly(t) => \A k \in frame[t].left : Settled(k)

\* A builder freezes every shard there is, and no more of them appear.
Freezing(t) ==
  pc[t] = "guards" /\ ReadOnly(t) =>
    /\ t \in readers[Slots]
    /\ Frozen = frame[t].plan \cup {l \in ShardLocks : t \in readers[l]}

\* A migration is under way or not, as the steps of resharding expect.
Moving(t) ==
  /\ pc[t] \in {"batch", "move", "drained"} => migrating
  /\ pc[t] = "swap" => ~migrating
  /\ pc[t] = "move" => frame[t].plan \subseteq Keys

Filling(t) == pc[t] = "fill" => Current(frame[t].cut, frame[t].got.items)

Cache == \A c \in snapshot_cache : Current(c.epoch, c.items)

\* The facts about one task.
Fits(t) ==
  /\ pc[t] = "route" /\ call[t].op \in KeyOps => frame[t].left = {call[t].key}
  /\ Handful(t) /\ Housed(t) /\ Freezing(t) /\ Moving(t) /\ Filling(t)

Data == DataTypes /\ Homes /\ Accounts /\ Cache /\ \A t \in Threads : Fits(t)


\* Nobody else's guards change.
LEMMA OthersHold ==
  ASSUME Base, NEW t \in Threads, Step(t), NEW u \in Threads, u # t, NEW x \in Locks
  PROVE  (u \in readers'[x] <=> u \in readers[x]) /\ (writer'[x] = u <=> writer[x] = u)
<1>. DEFINE Same == (u \in readers'[x] <=> u \in readers[x]) /\ (writer'[x] = u <=> writer[x] = u)
<1>0. u # NoTask /\ LockTypes
  BY StateAssumption DEF Base, Locking
<1>1. ASSUME NEW L, Acquire(t, L) PROVE Same
  <2>1. writer[Wanted(t)[1]] = NoTask
    BY <1>1 DEF Acquire, Obstacles
  <2>. QED
    BY <1>0, <1>1, <2>1 DEF Acquire
<1>2. ASSUME NEW L, Release(t, L) PROVE Same
  BY <1>0, <1>2 DEF Release
<1>3. CASE UNCHANGED <<readers, writer>>
  BY <1>3
<1>4. ASSUME NEW c \in Mixes[config.mix], Invoke(t, c) PROVE Same
  BY <1>3, <1>4 DEF Invoke, locks
<1>5. Enqueue(t) => Same
  BY <1>3 DEF Enqueue
<1>6. Return(t) => Same
  BY <1>3 DEF Return, locks
<1>7. Drop(t) => Same
  BY <1>0 DEF Drop
<1>8. Route(t) => Same
  BY <1>1 DEF Route
<1>9. FindSlot(t) => Same
  BY <1>1 DEF FindSlot
<1>10. InitSlot(t) => Same
  BY <1>1 DEF InitSlot
<1>11. ReadActive(t) => Same
  BY <1>1 DEF ReadActive
<1>12. ReadPrevious(t) => Same
  BY <1>1 DEF ReadPrevious
<1>13. LockActive(t) => Same
  BY <1>1 DEF LockActive
<1>14. WriteKeys(t) => Same
  BY <1>1 DEF WriteKeys
<1>15. CachedSnapshot(t) => Same
  BY <1>3 DEF CachedSnapshot, locks
<1>16. BuilderGate(t) => Same
  BY <1>1 DEF BuilderGate
<1>17. PinRouting(t) => Same
  BY <1>1 DEF PinRouting
<1>18. PinSlots(t) => Same
  BY <1>1 DEF PinSlots, Collect
<1>19. NextGuard(t) => Same
  BY <1>1 DEF NextGuard
<1>20. CollectShards(t) => Same
  BY <1>1 DEF CollectShards, Collect
<1>21. FillCache(t) => Same
  BY <1>2 DEF FillCache
<1>22. TxnSlot(t) => Same
  BY <1>1 DEF TxnSlot, Resolved
<1>23. TxnInit(t) => Same
  BY <1>1 DEF TxnInit, Resolved
<1>24. Commit(t) => Same
  BY <1>1 DEF Commit
<1>25. Exclusive(t) => Same
  BY <1>1 DEF Exclusive
<1>26. Sweep(t) => Same
  BY <1>2 DEF Sweep
<1>27. Visit(t) => Same
  BY <1>3 DEF Visit, locks
<1>28. Visited(t) => Same
  BY <1>2 DEF Visited
<1>29. RebalanceLock(t) => Same
  BY <1>1 DEF RebalanceLock
<1>30. ExclusiveRouting(t) => Same
  BY <1>1 DEF ExclusiveRouting
<1>31. start_rebalance_online(t) => Same
  BY <1>2 DEF start_rebalance_online
<1>32. rebalance_to(t) => Same
  BY <1>2 DEF rebalance_to
<1>33. LoadBatch(t) => Same
  BY <1>3 DEF LoadBatch, locks
<1>34. MoveEntry(t) => Same
  BY <1>3 DEF MoveEntry, locks
<1>35. SourceLeft(t) => Same
  BY <1>2, <1>3 DEF SourceLeft, BatchEnds, locks
<1>36. SourceDrained(t) => Same
  BY <1>2, <1>3 DEF SourceDrained, BatchEnds, locks
<1>37. Maintain(t) => Same
  BY <1>3 DEF Maintain, locks
<1>38. Glance(t) => Same
  BY <1>3 DEF Glance, locks
<1>39. ExclusivePass(t) => Same
  BY <1>1 DEF ExclusivePass
<1>40. Repair(t) => Same
  BY <1>3 DEF Repair, locks
<1>41. EvictGlobally(t) => Same
  BY <1>2 DEF EvictGlobally
<1>42. SharePass(t) => Same
  BY <1>1 DEF SharePass
<1>43. PassSlots(t) => Same
  BY <1>1 DEF PassSlots
<1>44. Scan(t) => Same
  BY <1>1 DEF Scan
<1>45. PassLock(t) => Same
  BY <1>1 DEF PassLock
<1>46. TrimShards(t) => Same
  BY <1>2 DEF TrimShards
<1>. QED
  BY <1>4, <1>5, <1>6, <1>7, <1>8, <1>9, <1>10, <1>11, <1>12, <1>13, <1>14, <1>15, <1>16,
     <1>17, <1>18, <1>19, <1>20, <1>21, <1>22, <1>23, <1>24, <1>25, <1>26, <1>27, <1>28,
     <1>29, <1>30, <1>31, <1>32, <1>33, <1>34, <1>35, <1>36, <1>37, <1>38, <1>39, <1>40,
     <1>41, <1>42, <1>43, <1>44, <1>45, <1>46
  DEF Step, KeyStep, BulkStep, MigrationStep, EvictionStep


\* The steps that change the data.
Changing(t) ==
  \/ InitSlot(t) \/ TxnInit(t) \/ WriteKeys(t) \/ Commit(t) \/ Sweep(t) \/ Visit(t)
  \/ start_rebalance_online(t) \/ rebalance_to(t)
  \/ LoadBatch(t) \/ MoveEntry(t) \/ SourceLeft(t) \/ SourceDrained(t)
  \/ Repair(t) \/ EvictGlobally(t) \/ TrimShards(t)

Quiet == UNCHANGED <<config, layout, counters, meta>>

\* The others leave them alone.
LEMMA QuietSteps ==
  ASSUME NEW t \in Threads, Step(t), ~Changing(t)
  PROVE  Quiet
<1>. USE DEF engine
<1>1. ASSUME NEW c \in Mixes[config.mix], Invoke(t, c) PROVE Quiet
  BY <1>1 DEF Invoke, Quiet
<1>2. Enqueue(t) => Quiet
  BY DEF Enqueue, Quiet
<1>3. Return(t) => Quiet
  BY DEF Return, Quiet
<1>4. Drop(t) => Quiet
  BY DEF Drop, Quiet
<1>5. Route(t) => Quiet
  BY DEF Route, Quiet
<1>6. FindSlot(t) => Quiet
  BY DEF FindSlot, Quiet
<1>7. ReadActive(t) => Quiet
  BY DEF ReadActive, Quiet
<1>8. ReadPrevious(t) => Quiet
  BY DEF ReadPrevious, Quiet
<1>9. LockActive(t) => Quiet
  BY DEF LockActive, Quiet
<1>10. CachedSnapshot(t) => Quiet
  BY DEF CachedSnapshot, Quiet
<1>11. BuilderGate(t) => Quiet
  BY DEF BuilderGate, Quiet
<1>12. PinRouting(t) => Quiet
  BY DEF PinRouting, Quiet
<1>13. PinSlots(t) => Quiet
  BY DEF PinSlots, Quiet
<1>14. NextGuard(t) => Quiet
  BY DEF NextGuard, Quiet
<1>15. CollectShards(t) => Quiet
  BY DEF CollectShards, Quiet
<1>16. FillCache(t) => Quiet
  BY DEF FillCache, Quiet
<1>17. TxnSlot(t) => Quiet
  BY DEF TxnSlot, Quiet
<1>18. Exclusive(t) => Quiet
  BY DEF Exclusive, Quiet
<1>19. Visited(t) => Quiet
  BY DEF Visited, Quiet
<1>20. RebalanceLock(t) => Quiet
  BY DEF RebalanceLock, Quiet
<1>21. ExclusiveRouting(t) => Quiet
  BY DEF ExclusiveRouting, Quiet
<1>22. Maintain(t) => Quiet
  BY DEF Maintain, Quiet
<1>23. Glance(t) => Quiet
  BY DEF Glance, Quiet
<1>24. ExclusivePass(t) => Quiet
  BY DEF ExclusivePass, Quiet
<1>25. SharePass(t) => Quiet
  BY DEF SharePass, Quiet
<1>26. PassSlots(t) => Quiet
  BY DEF PassSlots, Quiet
<1>27. Scan(t) => Quiet
  BY DEF Scan, Quiet
<1>28. PassLock(t) => Quiet
  BY DEF PassLock, Quiet
<1>. QED
  BY <1>1, <1>2, <1>3, <1>4, <1>5, <1>6, <1>7, <1>8, <1>9, <1>10, <1>11, <1>12, <1>13,
     <1>14, <1>15, <1>16, <1>17, <1>18, <1>19, <1>20, <1>21, <1>22, <1>23, <1>24, <1>25,
     <1>26, <1>27, <1>28
  DEF Step, KeyStep, BulkStep, MigrationStep, EvictionStep, Changing

-----------------------------------------------------------------------------
(*****************************************************************************)
(* Where entries are.                                                        *)
(*****************************************************************************)
\* An uninitialized slot has nothing; a shard has values or nothing.
LEMMA LookupTyped ==
  ASSUME NEW slot \in Shard \cup {NoShard}, NEW k \in Keys
  PROVE  /\ Lookup(slot, k) \in OptVal
         /\ slot = NoShard => Lookup(slot, k) = Nil
         /\ k \in Keyset(slot) <=> Lookup(slot, k) # Nil
  BY DEF Lookup, Keyset, Shard, OptVal

\* The entry of a key is where its hash says.
LEMMA ContentsAt ==
  ASSUME CountsKept, DataTypes, NEW k \in Keys
  PROVE  /\ shard_index(k) \in Idx /\ InActive(k) = Lookup(shards[shard_index(k)], k)
         /\ InActive(k) \in OptVal /\ Contents[k] \in OptVal
         /\ k \in Stored <=> Contents[k] # Nil
         /\ InActive(k) # Nil => Contents[k] = InActive(k)
         /\ InActive(k) = Nil /\ previous_shard_count = 0 => Contents[k] = Nil
         /\ InActive(k) = Nil /\ previous_shard_count # 0 =>
              /\ previous_index(k) \in Idx
              /\ Contents[k] = Lookup(previous_shards[previous_index(k)], k)
         /\ Contents[k] = IF InActive(k) # Nil THEN InActive(k)
                          ELSE Lookup(previous_shard(k), k)
<1>1. shard_index(k) \in Idx /\ (previous_shard_count # 0 => previous_index(k) \in Idx)
  BY IndexTyped
<1>2. shards[shard_index(k)] \in Shard \cup {NoShard}
  BY <1>1 DEF DataTypes
<1>3. previous_shard(k) \in Shard \cup {NoShard}
  BY <1>1 DEF DataTypes, previous_shard
<1>4. InActive(k) = Lookup(shards[shard_index(k)], k) /\ InActive(k) \in OptVal
  BY <1>2, LookupTyped DEF InActive
<1>5. Lookup(previous_shard(k), k) \in OptVal
        /\ (previous_shard_count = 0 => Lookup(previous_shard(k), k) = Nil)
  BY <1>3, LookupTyped DEF previous_shard
<1>. QED
  BY <1>1, <1>4, <1>5 DEF Contents, Stored, previous_shard

\* The entries are those of the shards of both generations.
LEMMA HomesExact ==
  ASSUME CountsKept, DataTypes, Homes, NEW k \in Keys
  PROVE  /\ \A i \in Idx : Lookup(shards[i], k) # Nil =>
              i = shard_index(k) /\ Contents[k] = Lookup(shards[i], k)
         /\ \A i \in Idx : Lookup(previous_shards[i], k) # Nil =>
              /\ previous_shard_count # 0 /\ i = previous_index(k)
              /\ InActive(k) = Nil /\ Contents[k] = Lookup(previous_shards[i], k)
<1>1. \A i \in Idx : shards[i] \in Shard \cup {NoShard}
                       /\ previous_shards[i] \in Shard \cup {NoShard}
  BY DEF DataTypes
<1>2. ASSUME NEW i \in Idx, Lookup(shards[i], k) # Nil
      PROVE  i = shard_index(k) /\ Contents[k] = Lookup(shards[i], k)
  <2>1. k \in Keyset(shards[i])
    BY <1>2 DEF Keyset
  <2>2. i = shard_index(k)
    BY <2>1 DEF Homes, OneHome, shard_index
  <2>. QED
    BY <1>2, <2>2, ContentsAt
<1>3. ASSUME NEW i \in Idx, Lookup(previous_shards[i], k) # Nil
      PROVE  /\ previous_shard_count # 0 /\ i = previous_index(k)
             /\ InActive(k) = Nil /\ Contents[k] = Lookup(previous_shards[i], k)
  <2>1. k \in Keyset(previous_shards[i])
    BY <1>3 DEF Keyset
  <2>2. previous_shard_count # 0 /\ i = previous_index(k)
    BY <2>1 DEF Homes, OneHome, previous_index
  <2>3. shard_index(k) \in Idx
    BY IndexTyped
  <2>4. k \notin Keyset(shards[shard_index(k)])
    BY <2>1, <2>3 DEF Homes, OneHome
  <2>5. InActive(k) = Nil
    BY <2>4 DEF Keyset, InActive
  <2>. QED
    BY <2>2, <2>5, ContentsAt
<1>. QED
  BY <1>2, <1>3

\* A step that gives the keys in K, out of the previous generation, new values in their
\* shards, and leaves the others alone.
LEMMA Rewrites ==
  ASSUME CountsKept, DataTypes, Homes, DataTypes', NEW K \in SUBSET Keys, NEW new,
         UNCHANGED <<config, shard_count, previous_shard_count, migrating, moved_shards>>,
         \A k \in K : new[k] \in OptVal,
         \A i \in Idx, k \in Keys :
           /\ Lookup(shards'[i], k) = IF k \in K /\ shard_index(k) = i THEN new[k]
                                      ELSE Lookup(shards[i], k)
           /\ Lookup(previous_shards'[i], k) = IF k \in K THEN Nil
                                               ELSE Lookup(previous_shards[i], k),
         \A i \in Idx : previous_shards[i] = NoShard => previous_shards'[i] = NoShard
  PROVE  Homes' /\ Contents' = [k \in Keys |-> IF k \in K THEN new[k] ELSE Contents[k]]
<1>1. CountsKept'
  BY DEF CountsKept
<1>2. \A k \in Keys : shard_index(k)' = shard_index(k) /\ previous_index(k)' = previous_index(k)
                        /\ shard_index(k) \in Idx
                        /\ (previous_shard_count # 0 => previous_index(k) \in Idx)
  BY IndexTyped DEF shard_index, previous_index
<1>3. \A i \in Idx, k \in Keys : k \in K /\ shard_index(k) # i => Lookup(shards[i], k) = Nil
  BY HomesExact
<1>4. ASSUME NEW i \in Idx, NEW k \in Keyset(shards'[i])
      PROVE  i = Hash[k] % shard_count'
  <2>1. k \in Keys /\ Lookup(shards'[i], k) # Nil
    BY <1>4 DEF Keyset
  <2>2. shard_index(k) = i
    BY <1>3, <2>1, HomesExact
  <2>. QED
    BY <2>2 DEF shard_index
<1>5. ASSUME NEW i \in Idx, NEW k \in Keyset(previous_shards'[i])
      PROVE  /\ k \in Keys /\ k \notin K /\ Lookup(previous_shards[i], k) # Nil
             /\ previous_shard_count' # 0 /\ i = Hash[k] % previous_shard_count'
  <2>1. k \in Keys /\ Lookup(previous_shards'[i], k) # Nil
    BY <1>5 DEF Keyset
  <2>2. k \notin K /\ Lookup(previous_shards[i], k) # Nil
    BY <2>1
  <2>. QED
    BY <2>1, <2>2, HomesExact DEF previous_index
<1>6. ASSUME NEW i \in Idx, NEW j \in Idx, NEW k \in Keyset(shards'[i]),
             k \in Keyset(previous_shards'[j])
      PROVE  FALSE
  <2>1. k \in Keys /\ k \notin K /\ Lookup(previous_shards[j], k) # Nil
    BY <1>5, <1>6
  <2>2. Lookup(shards[i], k) # Nil
    BY <1>6, <2>1 DEF Keyset
  <2>3. shard_index(k) = i /\ InActive(k) = Nil
    BY <2>1, <2>2, HomesExact
  <2>. QED
    BY <2>2, <2>3 DEF InActive
<1>7. OneHome(shards, shard_count, previous_shards, previous_shard_count)'
  BY <1>4, <1>5, <1>6 DEF OneHome
<1>8. Homes'
  BY <1>7 DEF Homes, Drained
<1>9. ASSUME NEW k \in Keys
      PROVE  Contents'[k] = IF k \in K THEN new[k] ELSE Contents[k]
  <2>1. InActive(k)' = IF k \in K THEN new[k] ELSE InActive(k)
    BY <1>2 DEF InActive
  <2>2. Contents'[k] = IF InActive(k)' # Nil THEN InActive(k)' ELSE Lookup(previous_shard(k)', k)
    BY DEF Contents
  <2>3. Lookup(previous_shard(k)', k) = IF k \in K THEN Nil ELSE Lookup(previous_shard(k), k)
    BY <1>2 DEF previous_shard, Lookup
  <2>4. Contents[k] = IF InActive(k) # Nil THEN InActive(k) ELSE Lookup(previous_shard(k), k)
    BY DEF Contents
  <2>. QED
    BY <2>1, <2>2, <2>3, <2>4
<1>10. Contents' = [k \in Keys |-> Contents'[k]]
  BY DEF Contents
<1>. QED
  BY <1>8, <1>9, <1>10

\* Sets of keys are finite.
LEMMA KeysFinite ==
  ASSUME NEW S \in SUBSET Keys
  PROVE  IsFiniteSet(S) /\ Cardinality(S) \in Nat
  BY StateAssumption, FS_Subset, FS_CardinalityType

\* The number of entries after those of K were replaced by those of N.
LEMMA CountReplaced ==
  ASSUME NEW S \in SUBSET Keys, NEW K \in SUBSET Keys, NEW N \in SUBSET K
  PROVE  Cardinality((S \ K) \cup N) = Cardinality(S) + Cardinality(N) - Cardinality(S \cap K)
<1>1. /\ IsFiniteSet(S) /\ IsFiniteSet(K) /\ IsFiniteSet(N) /\ IsFiniteSet(S \ K)
      /\ Cardinality(S) \in Nat /\ Cardinality(N) \in Nat /\ Cardinality(S \cap K) \in Nat
      /\ Cardinality(S \ K) \in Nat
  BY KeysFinite
<1>2. Cardinality(S \ K) = Cardinality(S) - Cardinality(S \cap K)
  BY <1>1, FS_Difference
<1>3. (S \ K) \cap N = {}
  OBVIOUS
<1>4. Cardinality((S \ K) \cup N) = Cardinality(S \ K) + Cardinality(N) - Cardinality({})
  BY <1>1, <1>3, FS_Union
<1>. QED
  BY <1>1, <1>2, <1>4, FS_EmptySet

-----------------------------------------------------------------------------
(*****************************************************************************)
(* What a step does to the data, seen by the others.                         *)
(*****************************************************************************)
Steady(t) ==
  /\ DataTypes' /\ Homes' /\ Accounts'
  /\ write_epoch <= write_epoch' /\ (write_epoch' = write_epoch => Contents' = Contents)
  /\ \/ pc[t] \in Alone
     \/ /\ \A k \in Keys : Settled(k) => Settled(k)'
        /\ Frozen' = Frozen \/ readers[Slots] = {}

\* What is known of a snapshot stays true.
LEMMA StaysCurrent ==
  ASSUME NEW t \in Threads, Steady(t), DataTypes, NEW e, NEW items, Current(e, items)
  PROVE  Current(e, items)'
<1>1. e \in Nat /\ e <= write_epoch /\ (e = write_epoch => items = Pairs(Contents))
        /\ write_epoch \in Nat /\ write_epoch' \in Nat /\ write_epoch <= write_epoch'
        /\ (write_epoch' = write_epoch => Contents' = Contents)
  BY DEF Current, Steady, DataTypes
<1>2. e <= write_epoch' /\ (e = write_epoch' => write_epoch' = write_epoch)
  BY <1>1
<1>3. e = write_epoch' => items = Pairs(Contents')
  BY <1>1, <1>2
<1>. QED
  BY <1>1, <1>2, <1>3 DEF Current

\* Nobody else's facts change.
LEMMA OthersFit ==
  ASSUME Base, Data, NEW t \in Threads, Step(t), Steady(t), NEW u \in Threads, u # t
  PROVE  Fits(u)'
<1>1. pc'[u] = pc[u] /\ call'[u] = call[u] /\ frame'[u] = frame[u]
        /\ ReadOnly(u)' = ReadOnly(u) /\ KeyInHand(u)' = KeyInHand(u)
  BY OneMoves DEF Base, CallsKept, Only, ReadOnly, KeyInHand
<1>2. CallFits(pc[u], call[u], frame[u]) /\ Fits(u) /\ DataTypes
  BY DEF Base, CallsKept, Data
<1>3. CASE pc[u] \in Sharing \cup Alone
  <2>1. pc[t] \notin Alone
    BY <1>3, AloneIsAlone DEF Base
  <2>2. UNCHANGED <<config, shard_count, previous_shard_count, migrating, moved_shards>>
    BY <2>1, LayoutStays DEF Base
  <2>3. \A k : shard_index(k)' = shard_index(k)
    BY <2>2 DEF shard_index
  <2>4. \A k \in Keys : Settled(k) => Settled(k)'
    BY <2>1 DEF Steady
  <2>5. Handful(u)'
    BY <1>1, <1>2, <2>2, <2>3 DEF Fits, Handful
  <2>6. Housed(u)'
    <3>1. frame[u].left \subseteq Keys
      BY <1>2 DEF CallFits
    <3>2. pc[u] \in InHand => frame[u].part \subseteq Keys
      BY <1>2 DEF CallFits
    <3>3. Housed(u)
      BY <1>2 DEF Fits
    <3>. QED
      BY <1>1, <2>3, <2>4, <3>1, <3>2, <3>3 DEF Housed, InHand
  <2>7. Freezing(u)'
    <3>. SUFFICES ASSUME pc[u] = "guards", ReadOnly(u)
                  PROVE  /\ u \in readers'[Slots]
                         /\ Frozen' = frame[u].plan \cup {l \in ShardLocks : u \in readers'[l]}
      BY <1>1 DEF Freezing
    <3>1. u \in readers[Slots]
            /\ Frozen = frame[u].plan \cup {l \in ShardLocks : u \in readers[l]}
      BY <1>2 DEF Fits, Freezing
    <3>2. \A x \in Locks : u \in readers'[x] <=> u \in readers[x]
      BY OthersHold
    <3>3. Frozen' = Frozen
      BY <2>1, <3>1 DEF Steady
    <3>. QED
      BY <3>1, <3>2, <3>3 DEF Locks
  <2>8. Moving(u)'
    BY <1>1, <1>2, <2>2 DEF Fits, Moving
  <2>. QED
    BY <1>1, <1>2, <1>3, <2>5, <2>6, <2>7, <2>8
    DEF Fits, Filling, Sharing, Alone, Resharding
<1>4. CASE pc[u] = "fill"
  <2>1. Current(frame[u].cut, frame[u].got.items)
    BY <1>2, <1>4 DEF Fits, Filling
  <2>2. Current(frame[u].cut, frame[u].got.items)'
    <3>. DEFINE e == frame[u].cut
                i == frame[u].got.items
    <3>1. PICK ee, ii : ee = e /\ ii = i
      OBVIOUS
    <3>2. Current(ee, ii)'
      BY <1>2, <2>1, <3>1, StaysCurrent
    <3>. QED
      BY <1>1, <3>1, <3>2 DEF Current
  <2>3. Filling(u)'
    BY <1>1, <2>2 DEF Filling
  <2>. QED
    BY <1>1, <1>4, <2>3 DEF Fits, Handful, Housed, Freezing, Moving, InHand
<1>5. CASE pc[u] \notin Sharing \cup Alone \cup {"fill"}
  BY <1>1, <1>2, <1>5
  DEF Fits, Handful, Housed, Freezing, Moving, Filling, InHand, Sharing, Alone, Resharding
<1>. QED
  BY <1>3, <1>4, <1>5

\* A step of t keeps the data in order if it is steady and t fits afterwards.
LEMMA DataStep ==
  ASSUME Base, Data, NEW t \in Threads, Step(t), Steady(t), Fits(t)',
         snapshot_cache' = snapshot_cache
  PROVE  Data'
<1>1. \A u \in Threads : Fits(u)'
  BY OthersFit
<1>2. Cache'
  <2>. SUFFICES ASSUME NEW c \in snapshot_cache PROVE Current(c.epoch, c.items)'
    BY DEF Cache
  <2>1. Current(c.epoch, c.items) /\ DataTypes
    BY DEF Data, Cache
  <2>. QED
    BY <2>1, StaysCurrent
<1>. QED
  BY <1>1, <1>2 DEF Data, Steady

\* There is nothing to show of a task that is elsewhere.
LEMMA ElsewhereFits ==
  ASSUME NEW t \in Threads,
         pc'[t] \notin InHand \cup {"route", "guards", "fill", "batch", "move", "drained", "swap"}
  PROVE  Fits(t)'
  BY DEF Fits, Handful, Housed, Freezing, Moving, Filling, InHand

\* Nothing happens to the data.
LEMMA QuietSteady ==
  ASSUME Data, NEW t \in Threads, Quiet
  PROVE  Steady(t) /\ Contents' = Contents /\ Frozen' = Frozen
           /\ (\A k : shard_index(k)' = shard_index(k) /\ Settled(k)' = Settled(k))
           /\ UNCHANGED <<migrating, write_epoch>>
<1>1. UNCHANGED <<config, shards, previous_shards, shard_count, previous_shard_count,
                  migrating, moved_shards, total_len, write_epoch, meta>>
  BY DEF Quiet, layout, counters
<1>2. Contents' = Contents /\ Frozen' = Frozen /\ Stored' = Stored
  BY <1>1 DEF Contents, Stored, InActive, previous_shard, shard_index, previous_index, Frozen
<1>3. \A k : shard_index(k)' = shard_index(k) /\ Settled(k)' = Settled(k)
  BY <1>1 DEF Settled, shard_index
<1>4. DataTypes' /\ Homes' /\ Accounts'
  BY <1>1, <1>2 DEF Data, DataTypes, Homes, OneHome, Drained, Accounts, enabled
<1>. QED
  BY <1>1, <1>2, <1>3, <1>4 DEF Steady, Data, DataTypes

-----------------------------------------------------------------------------
(*****************************************************************************)
(* What a task has in hand after each step.                                  *)
(*****************************************************************************)
\* The next keys go to one shard.
LEMMA PartsOneShard ==
  ASSUME NEW t \in Threads, NEW K \in SUBSET Keys, NEW part \in Parts(t, K),
         call[t].op \in KeyOps \cup BatchOps \cup {"txn"}, CountsKept,
         call[t].op \in KeyOps => K = {call[t].key}
  PROVE  /\ part \subseteq K
         /\ \A j, k \in part : shard_index(j) = shard_index(k)
         /\ migrating /\ call[t].op # "txn" => \A j, k \in part : j = k
         /\ call[t].op = "txn" =>
              \A j \in part, k \in K : shard_index(j) <= shard_index(k)
<1>1. CASE call[t].op \in BatchOps
  BY <1>1 DEF Parts, SameShard, BatchOps
<1>2. CASE call[t].op = "txn"
  <2>1. PICK k \in K : /\ \A i \in K : shard_index(k) <= shard_index(i)
                       /\ part = SameShard(k, K)
    BY <1>2 DEF Parts, BatchOps
  <2>. QED
    BY <1>2, <2>1 DEF SameShard
<1>3. CASE call[t].op \in KeyOps
  <2>1. part = {call[t].key}
    BY <1>3 DEF Parts, KeyOps, BatchOps
  <2>. QED
    BY <1>3, <2>1 DEF KeyOps
<1>. QED
  BY <1>1, <1>2, <1>3

\* The key in hand is one of the keys in hand.
LEMMA HandHasKey ==
  ASSUME CallsKept, NEW t \in Threads, pc[t] \in InHand
  PROVE  /\ KeyInHand(t) \in frame[t].part /\ frame[t].part \subseteq frame[t].left
         /\ frame[t].left \subseteq Keys /\ KeyInHand(t) \in Keys
         /\ call[t].op \in KeyOps \cup BatchOps \cup {"txn"} /\ DOMAIN frame[t] = Fields
  BY DEF CallsKept, CallFits, KeyInHand

\* What Done leaves in hand.
LEMMA DoneHand ==
  ASSUME Base, Data, NEW t \in Threads, NEW old, pc[t] \in InHand, Done(t, old),
         call[t].op # "txn", call' = call, migrating' = migrating, shard_count' = shard_count
  PROVE  Fits(t)'
<1>0. CallsKept /\ CountsKept /\ Fits(t) /\ t \in DOMAIN pc /\ t \in DOMAIN frame
        /\ ReadOnly(t)' = ReadOnly(t)
  BY DEF Base, Data, CallsKept, ReadOnly
<1>1. /\ frame[t].part # {} /\ frame[t].part \subseteq frame[t].left /\ frame[t].left \subseteq Keys
      /\ call[t].op \in KeyOps \cup BatchOps /\ DOMAIN frame[t] = Fields
  BY <1>0, HandHasKey
<1>2. CASE frame[t].left = frame[t].part
           /\ pc' = [pc EXCEPT ![t] = IF ReadOnly(t) THEN "return" ELSE "maintain"]
  <2>1. pc'[t] \in {"return", "maintain"}
    BY <1>0, <1>2
  <2>. QED
    BY <2>1, ElsewhereFits DEF InHand
<1>3. ASSUME NEW part \in Parts(t, frame[t].left \ frame[t].part), frame[t].left # frame[t].part,
             pc' = [pc EXCEPT ![t] = "slots"],
             frame' = [frame EXCEPT ![t] =
               [frame[t] EXCEPT !.left = @ \ frame[t].part, !.part = part,
                                !.got = Tally(t, frame[t].part, old)]]
      PROVE  Fits(t)'
  <2>1. call[t].op \notin KeyOps
    BY <1>0, <1>1, <1>3 DEF Fits, Handful
  <2>2. /\ \A j, k \in part : shard_index(j) = shard_index(k)
        /\ migrating => \A j, k \in part : j = k
    BY <1>0, <1>1, <2>1, PartsOneShard
  <2>3. pc'[t] = "slots" /\ frame'[t].part = part
    BY <1>0, <1>1, <1>3 DEF Fields
  <2>4. Handful(t)'
    BY <2>1, <2>2, <2>3 DEF Handful, shard_index
  <2>. QED
    BY <2>3, <2>4 DEF Fits, Housed, Freezing, Moving, Filling
<1>. QED
  BY <1>0, <1>2, <1>3, DoneMoves

\* Keys in hand that go to a shard which is there.
LEMMA SettledHand ==
  ASSUME Base, Data, NEW t \in Threads, pc[t] \in InHand, call[t].op # "txn",
         pc'[t] \in {"active", "previous", "init"}, frame'[t] = frame[t], call' = call,
         migrating' = migrating, shard_count' = shard_count,
         \/ shards'[shard_index(KeyInHand(t))] # NoShard
         \/ pc'[t] = "previous" /\ ReadOnly(t)
         \/ pc'[t] = "init"
  PROVE  Fits(t)'
<1>0. CallsKept /\ Fits(t) /\ ReadOnly(t)' = ReadOnly(t)
        /\ \A k : shard_index(k)' = shard_index(k)
  BY DEF Base, Data, ReadOnly, shard_index
<1>1. KeyInHand(t) \in frame[t].part
  BY <1>0, HandHasKey
<1>2. Handful(t)'
  BY <1>0 DEF Fits, Handful, InHand
<1>3. Housed(t)'
  <2>1. shards'[shard_index(KeyInHand(t))] # NoShard => \A k \in frame[t].part : Settled(k)'
    BY <1>0, <1>1 DEF Fits, Handful, Settled
  <2>. QED
    BY <1>0, <2>1 DEF Housed
<1>. QED
  BY <1>2, <1>3 DEF Fits, Freezing, Moving, Filling

\* A transaction that is done with a slot has the next one, or has them all.
LEMMA ResolvedHand ==
  ASSUME Base, Data, NEW t \in Threads, pc[t] \in {"slots", "init"}, call[t].op = "txn",
         Resolved(t), call' = call, migrating' = migrating, shard_count' = shard_count,
         shards'[shard_index(KeyInHand(t))] # NoShard,
         \A k \in Keys : Settled(k) => Settled(k)'
  PROVE  Fits(t)'
<1>0. CallsKept /\ CountsKept /\ Fits(t) /\ t \in DOMAIN pc /\ t \in DOMAIN frame
        /\ (\A k : shard_index(k)' = shard_index(k)) /\ ~ReadOnly(t) /\ ~ReadOnly(t)'
  BY DEF Base, Data, CallsKept, ReadOnly, shard_index
<1>1. KeyInHand(t) \in frame[t].part /\ frame[t].part \subseteq frame[t].left
        /\ frame[t].left \subseteq Keys /\ DOMAIN frame[t] = Fields /\ KeyInHand(t) \in Keys
  BY <1>0, HandHasKey DEF InHand
<1>2. \A k \in Keys : shard_index(k) \in Nat
  BY <1>0, IndexTyped DEF Idx
<1>3. ASSUME NEW k \in frame[t].left, shard_index(k) <= shard_index(KeyInHand(t))
      PROVE  Settled(k)'
  <2>1. CASE shard_index(k) < shard_index(KeyInHand(t))
    BY <1>0, <1>1, <2>1 DEF Fits, Housed
  <2>2. CASE shard_index(k) = shard_index(KeyInHand(t))
    BY <1>0, <2>2 DEF Settled
  <2>. QED
    BY <1>1, <1>2, <1>3, <2>1, <2>2
<1>4. CASE Unresolved(t) # {}
  <2>1. PICK part \in Parts(t, Unresolved(t)) :
               Goes(t, "slots", [frame[t] EXCEPT !.part = part])
    BY <1>4 DEF Resolved
  <2>2. Unresolved(t) \in SUBSET Keys /\ part # {}
    BY <1>1, <1>4, PartsTyped DEF Unresolved
  <2>3. /\ part \subseteq Unresolved(t)
        /\ \A j, k \in part : shard_index(j) = shard_index(k)
        /\ \A j \in part, k \in Unresolved(t) : shard_index(j) <= shard_index(k)
    BY <1>0, <2>2, PartsOneShard DEF KeyOps
  <2>4. pc'[t] = "slots" /\ frame'[t].part = part /\ frame'[t].left = frame[t].left
    BY <1>0, <1>1, <2>1 DEF Goes, Goto, Fields
  <2>5. KeyInHand(t)' \in part
    BY <2>2, <2>4 DEF KeyInHand
  <2>6. Handful(t)'
    BY <1>0, <2>3, <2>4 DEF Handful, KeyOps
  <2>7. ASSUME NEW k \in frame[t].left, shard_index(k) < shard_index(KeyInHand(t)')
        PROVE  Settled(k)'
    <3>1. k \notin Unresolved(t)
      BY <1>1, <1>2, <2>2, <2>3, <2>5, <2>7 DEF Unresolved
    <3>2. shard_index(k) <= shard_index(KeyInHand(t))
      BY <1>1, <1>2, <3>1 DEF Unresolved
    <3>. QED
      BY <1>3, <3>2
  <2>8. Housed(t)'
    BY <1>0, <2>4, <2>7 DEF Housed
  <2>. QED
    BY <2>4, <2>6, <2>8 DEF Fits, Freezing, Moving, Filling
<1>5. CASE Unresolved(t) = {}
  <2>1. Goes(t, "guards", [frame[t] EXCEPT !.plan = TxnPlan(t)])
    BY <1>5 DEF Resolved
  <2>2. pc'[t] = "guards" /\ frame'[t].left = frame[t].left
    BY <1>0, <1>1, <2>1 DEF Goes, Goto, Fields
  <2>3. \A k \in frame[t].left : shard_index(k) <= shard_index(KeyInHand(t))
    BY <1>1, <1>2, <1>5 DEF Unresolved
  <2>4. \A k \in frame[t].left : Settled(k)'
    BY <1>3, <2>3
  <2>5. Housed(t)'
    BY <2>2, <2>4 DEF Housed
  <2>. QED
    BY <1>0, <2>2, <2>5 DEF Fits, Handful, Freezing, Moving, Filling, InHand
<1>. QED
  BY <1>4, <1>5

\* A copy of all the shards there are is a copy of the contents.
LEMMA CopyWhole ==
  ASSUME CountsKept, DataTypes, Homes
  PROVE  UNION {Pairs(Home(l)) : l \in Frozen} = Pairs(Contents)
<1>. DEFINE Copy == UNION {Pairs(Home(l)) : l \in Frozen}
<1>1. \A i \in Idx : shards[i] \in Shard \cup {NoShard}
                       /\ previous_shards[i] \in Shard \cup {NoShard}
  BY DEF DataTypes
<1>2. \A i \in Idx : Home(Active(i)) = shards[i] /\ Home(Previous(i)) = previous_shards[i]
  BY DEF Home, Active, Previous
<1>3. ASSUME NEW p \in Copy PROVE p \in Pairs(Contents)
  <2>1. PICK l \in Frozen : p \in Pairs(Home(l))
    OBVIOUS
  <2>2. PICK k \in Keys : Home(l)[k] # Nil /\ p = <<k, Home(l)[k]>>
    BY <2>1 DEF Pairs
  <2>3. Contents[k] = Home(l)[k]
    <3>1. ASSUME NEW i \in Initialized(shards), l = Active(i) PROVE Contents[k] = Home(l)[k]
      BY <1>1, <1>2, <2>2, <3>1, HomesExact DEF Initialized, Lookup
    <3>2. ASSUME NEW i \in Initialized(previous_shards), l = Previous(i)
          PROVE  Contents[k] = Home(l)[k]
      BY <1>1, <1>2, <2>2, <3>2, HomesExact DEF Initialized, Lookup
    <3>. QED
      BY <3>1, <3>2 DEF Frozen, Both
  <2>. QED
    BY <2>2, <2>3 DEF Pairs
<1>4. ASSUME NEW p \in Pairs(Contents) PROVE p \in Copy
  <2>1. PICK k \in Keys : Contents[k] # Nil /\ p = <<k, Contents[k]>>
    BY <1>4 DEF Pairs
  <2>2. PICK l \in Frozen : Home(l)[k] = Contents[k]
    <3>1. CASE InActive(k) # Nil
      <4>1. shard_index(k) \in Idx /\ Lookup(shards[shard_index(k)], k) = Contents[k]
        BY <3>1, ContentsAt
      <4>2. shards[shard_index(k)] # NoShard /\ shards[shard_index(k)][k] = Contents[k]
        BY <2>1, <4>1 DEF Lookup
      <4>3. Active(shard_index(k)) \in Frozen
        BY <4>1, <4>2 DEF Frozen, Both, Initialized
      <4>. QED
        BY <1>2, <4>1, <4>2, <4>3
    <3>2. CASE InActive(k) = Nil
      <4>1. previous_index(k) \in Idx
              /\ Lookup(previous_shards[previous_index(k)], k) = Contents[k]
        BY <2>1, <3>2, ContentsAt
      <4>2. previous_shards[previous_index(k)] # NoShard
              /\ previous_shards[previous_index(k)][k] = Contents[k]
        BY <2>1, <4>1 DEF Lookup
      <4>3. Previous(previous_index(k)) \in Frozen
        BY <4>1, <4>2 DEF Frozen, Both, Initialized
      <4>. QED
        BY <1>2, <4>1, <4>2, <4>3
    <3>. QED
      BY <3>1, <3>2
  <2>. QED
    BY <2>1, <2>2 DEF Pairs
<1>. QED
  BY <1>3, <1>4

\* A builder copies the contents.
LEMMA CopiedContents ==
  ASSUME Base, Data, NEW t \in Threads,
         \/ pc[t] = "pin_slots" /\ Frozen = {}
         \/ pc[t] = "guards" /\ ReadOnly(t) /\ LastGuard(t)
  PROVE  Copied(t) = Pairs(Contents)
<1>0. CallsKept /\ CountsKept /\ Falling /\ HeldBy(t) /\ Fits(t) /\ DataTypes /\ Homes
  BY DEF Base, Locking, Data
<1>1. CASE pc[t] = "pin_slots" /\ Frozen = {}
  <2>1. Wanted(t)[1] = Slots
    BY <1>0, <1>1, WantedAt
  <2>2. MayHold(pc[t], call[t], frame[t]) = {Gate, Routing}
    BY <1>1, HoldAt
  <2>3. ShardLocks \cap {Gate, Routing, Slots} = {} /\ ShardLocks \subseteq Locks
    BY DEF ShardLocks, Gate, Routing, Slots, Locks
  <2>4. {l \in ShardLocks : t \in readers[l] \/ l = Wanted(t)[1]} = Frozen
    BY <1>0, <1>1, <2>1, <2>2, <2>3 DEF HeldBy, Holders
  <2>. QED
    BY <1>0, <2>4, CopyWhole DEF Copied
<1>2. CASE pc[t] = "guards" /\ ReadOnly(t) /\ LastGuard(t)
  <2>1. Wanted(t)[1] = NextShard(t) /\ NextShard(t) \in ShardLocks
    BY <1>0, <1>2, WantedAt DEF Planned
  <2>2. frame[t].plan = {NextShard(t)}
    BY <1>2 DEF LastGuard
  <2>3. Frozen = frame[t].plan \cup {l \in ShardLocks : t \in readers[l]}
    BY <1>0, <1>2 DEF Fits, Freezing
  <2>4. {l \in ShardLocks : t \in readers[l] \/ l = Wanted(t)[1]} = Frozen
    BY <2>1, <2>2, <2>3
  <2>. QED
    BY <1>0, <2>4, CopyWhole DEF Copied
<1>. QED
  BY <1>1, <1>2

\* A snapshot to be cached is a snapshot of the epoch at which it was taken.
LEMMA CollectHand ==
  ASSUME Base, Data, NEW t \in Threads, Collect(t), call' = call, Quiet,
         \/ pc[t] = "pin_slots" /\ Frozen = {}
         \/ pc[t] = "guards" /\ ReadOnly(t) /\ LastGuard(t)
  PROVE  Fits(t)'
<1>0. CallFits(pc[t], call[t], frame[t]) /\ t \in DOMAIN pc /\ t \in DOMAIN frame
        /\ write_epoch \in Nat
  BY DEF Base, CallsKept, Data, DataTypes
<1>1. pc'[t] = IF Caching(t) THEN "fill" ELSE "return"
  BY <1>0 DEF Collect, Goes, Goto
<1>2. CASE Caching(t)
  <2>1. frame'[t] = [Answers(t, ItemsReply(Copied(t))) EXCEPT !.plan = {}, !.cut = write_epoch]
    BY <1>0, <1>2 DEF Collect, Goes
  <2>2. frame'[t].cut = write_epoch /\ frame'[t].got = ItemsReply(Copied(t))
    BY <1>0, <2>1 DEF Answers, CallFits, Fields
  <2>3. frame'[t].got.items = Pairs(Contents)
    BY <2>2, CopiedContents DEF ItemsReply
  <2>4. Contents' = Contents /\ write_epoch' = write_epoch
    BY QuietSteady
  <2>5. Current(frame[t].cut, frame[t].got.items)'
    BY <1>0, <2>2, <2>3, <2>4 DEF Current
  <2>6. Filling(t)'
    BY <2>5 DEF Filling
  <2>. QED
    BY <1>1, <1>2, <2>6 DEF Fits, Handful, Housed, Freezing, Moving, InHand
<1>3. CASE ~Caching(t)
  BY <1>1, <1>3, ElsewhereFits DEF InHand
<1>. QED
  BY <1>2, <1>3

\* The quiet steps of t leave in its hands what fits.
LEMMA FitsInvoke ==
  ASSUME Base, Data, NEW t \in Threads, NEW c \in Mixes[config.mix], Invoke(t, c)
  PROVE  Fits(t)'
<1>0. CallsKept /\ CountsKept /\ t \in DOMAIN pc /\ t \in DOMAIN frame /\ t \in DOMAIN call
  BY DEF Base, CallsKept
<1>a. c \in CallsMade
  BY <1>0, ScenariosAssumption DEF CountsKept
<1>1. pc'[t] = FirstAwait(c) /\ call'[t] = c
        /\ frame'[t] = [EmptyFrame EXCEPT !.left = Concerned(c), !.got = NoAnswer(c)]
  BY <1>0 DEF Invoke, Goes, Goto
<1>2. frame'[t].left = Concerned(c)
  BY <1>1 DEF EmptyFrame
<1>3. c.op \in KeyOps => Concerned(c) = {c.key}
  BY DEF Concerned, KeyOps, BatchOps
<1>4. FirstAwait(c) \notin InHand \cup {"guards", "fill", "batch", "move", "drained", "swap"}
  <2>1. FirstAwait(c) \in {"route", "gate", "cached", "exclusive", "rebalance", "maintain"}
    BY <1>a, CallsTyped DEF FirstAwait, KeyOps, BatchOps, LayoutOps
  <2>. QED
    BY <2>1 DEF InHand
<1>. QED
  BY <1>1, <1>2, <1>3, <1>4 DEF Fits, Handful, Housed, Freezing, Moving, Filling, InHand


\* Nothing about a task depends on its place in a queue.
LEMMA FitsEnqueue ==
  ASSUME Base, Data, NEW t \in Threads, Enqueue(t), Quiet
  PROVE  Fits(t)'
<1>1. UNCHANGED <<pc, call, frame, readers>> /\ Fits(t)
  BY DEF Enqueue, Data
<1>2. /\ Contents' = Contents /\ Frozen' = Frozen
      /\ (\A k : shard_index(k)' = shard_index(k) /\ Settled(k)' = Settled(k))
      /\ UNCHANGED <<migrating, write_epoch>>
  BY QuietSteady
<1>3. ReadOnly(t)' = ReadOnly(t) /\ KeyInHand(t)' = KeyInHand(t)
  BY <1>1 DEF ReadOnly, KeyInHand
<1>. QED
  BY <1>1, <1>2, <1>3 DEF Fits, Handful, Housed, Freezing, Moving, Filling, Current

\* The first keys are in hand.
LEMMA FitsRoute ==
  ASSUME Base, Data, NEW t \in Threads, Route(t), Quiet
  PROVE  Fits(t)'
<1>0. CallsKept /\ CountsKept /\ CallFits(pc[t], call[t], frame[t]) /\ Fits(t)
        /\ t \in DOMAIN pc /\ t \in DOMAIN frame
  BY DEF Base, CallsKept, Data
<1>1. pc[t] = "route" /\ call' = call
  BY DEF Route
<1>2. /\ call[t].op \in KeyOps \cup BatchOps \cup {"txn"} /\ frame[t].left \subseteq Keys
      /\ DOMAIN frame[t] = Fields /\ (call[t].op \in KeyOps => frame[t].left = {call[t].key})
  BY <1>0, <1>1 DEF CallFits, Fits
<1>3. PICK part \in Parts(t, frame[t].left) :
             Goes(t, "slots", [frame[t] EXCEPT !.part = part])
  BY DEF Route
<1>4. pc'[t] = "slots" /\ frame'[t].part = part /\ frame'[t].left = frame[t].left
  BY <1>0, <1>2, <1>3 DEF Goes, Goto, Fields
<1>5. /\ \A j, k \in part : shard_index(j) = shard_index(k)
      /\ migrating /\ call[t].op # "txn" => \A j, k \in part : j = k
      /\ call[t].op = "txn" => \A j \in part, k \in frame[t].left : shard_index(j) <= shard_index(k)
  BY <1>0, <1>2, PartsOneShard
<1>6. part # {}
  BY <1>0, <1>2, PartsTyped DEF BatchOps
<1>7. UNCHANGED migrating /\ \A k : shard_index(k)' = shard_index(k)
  BY QuietSteady
<1>8. Handful(t)'
  BY <1>1, <1>2, <1>4, <1>5, <1>7 DEF Handful
<1>9. Housed(t)'
  <2>1. KeyInHand(t)' \in part
    BY <1>4, <1>6 DEF KeyInHand
  <2>2. \A k \in Keys : shard_index(k) \in Nat
    BY <1>0, IndexTyped DEF Idx
  <2>3. call[t].op = "txn" =>
          \A k \in frame[t].left : ~(shard_index(k) < shard_index(KeyInHand(t)'))
    BY <1>2, <1>5, <2>1, <2>2, PartsTyped
  <2>. QED
    BY <1>1, <1>4, <1>7, <2>3 DEF Housed
<1>. QED
  BY <1>4, <1>8, <1>9 DEF Fits, Freezing, Moving, Filling

\* A slot was found, or there was nothing to do.
LEMMA FitsFindSlot ==
  ASSUME Base, Data, NEW t \in Threads, FindSlot(t), Quiet
  PROVE  Fits(t)'
<1>0. t \in DOMAIN pc
  BY DEF Base, CallsKept
<1>1. pc[t] = "slots" /\ call[t].op # "txn" /\ call' = call /\ pc[t] \in InHand
  BY DEF FindSlot, InHand
<1>2. UNCHANGED <<migrating, shards, shard_count>>
  BY DEF Quiet, layout
<1>3. ASSUME NEW old, Done(t, old) PROVE Fits(t)'
  BY <1>1, <1>2, <1>3, DoneHand
<1>4. CASE frame' = frame /\ pc'[t] \in {"active", "previous", "init"}
           /\ (~vacant(t) \/ pc'[t] = "init" \/ (pc'[t] = "previous" /\ ReadOnly(t)))
  BY <1>1, <1>2, <1>4, SettledHand DEF vacant
<1>. QED
  BY <1>0, <1>3, <1>4 DEF FindSlot, Goto

\* A lookup is done, or goes on.
LEMMA FitsReadActive ==
  ASSUME Base, Data, NEW t \in Threads, ReadActive(t), Quiet
  PROVE  Fits(t)'
<1>0. t \in DOMAIN pc /\ CallFits(pc[t], call[t], frame[t])
  BY DEF Base, CallsKept
<1>1. pc[t] = "active" /\ call[t].op # "txn" /\ call' = call /\ pc[t] \in InHand /\ ReadOnly(t)
  BY <1>0 DEF ReadActive, InHand, CallFits
<1>2. UNCHANGED <<migrating, shards, shard_count>>
  BY DEF Quiet, layout
<1>3. ASSUME NEW old, Done(t, old) PROVE Fits(t)'
  BY <1>1, <1>2, <1>3, DoneHand
<1>4. CASE frame' = frame /\ pc'[t] = "previous"
  BY <1>1, <1>2, <1>4, SettledHand
<1>. QED
  BY <1>0, <1>3, <1>4 DEF ReadActive, Goto

\* A fallback is done.
LEMMA FitsReadPrevious ==
  ASSUME Base, Data, NEW t \in Threads, ReadPrevious(t), Quiet
  PROVE  Fits(t)'
<1>0. CallFits(pc[t], call[t], frame[t])
  BY DEF Base, CallsKept
<1>1. pc[t] = "previous" /\ call[t].op # "txn" /\ call' = call /\ pc[t] \in InHand
  BY <1>0 DEF ReadPrevious, InHand, CallFits
<1>2. UNCHANGED <<migrating, shards, shard_count>>
  BY DEF Quiet, layout
<1>. QED
  BY <1>1, <1>2, DoneHand DEF ReadPrevious

\* A writer goes on to the previous generation.
LEMMA FitsLockActive ==
  ASSUME Base, Data, NEW t \in Threads, LockActive(t), Quiet
  PROVE  Fits(t)'
<1>0. t \in DOMAIN pc /\ CallFits(pc[t], call[t], frame[t]) /\ CallsKept /\ Fits(t)
  BY DEF Base, CallsKept, Data
<1>1. /\ pc[t] = "active" /\ call[t].op # "txn" /\ call' = call /\ pc[t] \in InHand
      /\ frame' = frame /\ pc'[t] = "previous"
  BY <1>0 DEF LockActive, InHand, CallFits, Goto
<1>2. UNCHANGED <<migrating, shards, shard_count>>
  BY DEF Quiet, layout
<1>3. shards[shard_index(KeyInHand(t))] # NoShard
  BY <1>0, <1>1, HandHasKey DEF Fits, Housed, Settled
<1>. QED
  BY <1>1, <1>2, <1>3, SettledHand

\* A transaction found a slot, or has to initialize it.
LEMMA FitsTxnSlot ==
  ASSUME Base, Data, NEW t \in Threads, TxnSlot(t), Quiet
  PROVE  Fits(t)'
<1>0. t \in DOMAIN pc /\ Fits(t)
  BY DEF Base, CallsKept, Data
<1>1. pc[t] = "slots" /\ call[t].op = "txn" /\ call' = call
  BY DEF TxnSlot
<1>2. UNCHANGED <<migrating, shards, shard_count>>
        /\ \A k : shard_index(k)' = shard_index(k) /\ Settled(k)' = Settled(k)
  BY QuietSteady DEF Quiet, layout
<1>3. CASE shards[shard_index(KeyInHand(t))] # NoShard
  BY <1>1, <1>2, <1>3, ResolvedHand DEF TxnSlot
<1>4. CASE shards[shard_index(KeyInHand(t))] = NoShard
  <2>1. frame' = frame /\ pc'[t] = "init"
    BY <1>0, <1>4 DEF TxnSlot, Goto
  <2>2. KeyInHand(t)' = KeyInHand(t)
    BY <2>1 DEF KeyInHand
  <2>3. Handful(t)' /\ Housed(t)'
    BY <1>0, <1>1, <1>2, <2>1, <2>2 DEF Fits, Handful, Housed, InHand
  <2>. QED
    BY <2>1, <2>3 DEF Fits, Freezing, Moving, Filling
<1>. QED
  BY <1>3, <1>4

\* A builder has nothing to freeze, or everything to freeze before it.
LEMMA FitsPinSlots ==
  ASSUME Base, Data, NEW t \in Threads, PinSlots(t), Quiet
  PROVE  Fits(t)'
<1>0. CallsKept /\ CountsKept /\ Falling /\ LockTypes /\ WritersExclude /\ HeldBy(t)
        /\ CallFits(pc[t], call[t], frame[t]) /\ t \in DOMAIN pc /\ t \in DOMAIN frame
  BY DEF Base, CallsKept, Locking
<1>1. pc[t] = "pin_slots" /\ call' = call
  BY DEF PinSlots
<1>2. CASE Frozen = {}
  BY <1>1, <1>2, CollectHand DEF PinSlots
<1>3. CASE Frozen # {}
  <2>1. Acquire(t, {}) /\ Goes(t, "guards", [frame[t] EXCEPT !.plan = Frozen])
    BY <1>3 DEF PinSlots
  <2>2. pc'[t] = "guards" /\ frame'[t].plan = Frozen /\ ReadOnly(t)
    BY <1>0, <1>1, <2>1 DEF Goes, Goto, CallFits, Fields, ReadOnly, InHand, Planned
  <2>3. Wanted(t) = <<Slots, "read">> /\ Slots \in Locks
    BY <1>0, <1>1, WantedAt DEF Locks
  <2>4. Took(t, {Slots}, {}, {})
    BY <1>0, <2>1, <2>3, Acquired
  <2>5. t \in readers'[Slots]
    BY <2>3, <2>4 DEF Took
  <2>6. \A l \in ShardLocks : t \notin readers'[l]
    <3>1. MayHold(pc[t], call[t], frame[t]) = {Gate, Routing}
      BY <1>1, HoldAt
    <3>2. ShardLocks \cap {Gate, Routing, Slots} = {} /\ ShardLocks \subseteq Locks
      BY DEF ShardLocks, Gate, Routing, Slots, Locks
    <3>3. \A l \in ShardLocks : t \notin readers[l]
      BY <1>0, <3>1, <3>2 DEF HeldBy, Holders
    <3>. QED
      BY <2>4, <3>2, <3>3 DEF Took
  <2>7. Frozen' = Frozen
    BY QuietSteady
  <2>8. Freezing(t)'
    BY <2>2, <2>5, <2>6, <2>7 DEF Freezing
  <2>9. ReadOnly(t)'
    BY <1>1, <2>2 DEF ReadOnly
  <2>. QED
    BY <2>2, <2>8, <2>9 DEF Fits, Handful, Housed, Moving, Filling, InHand
<1>. QED
  BY <1>2, <1>3

\* One shard more is frozen, or locked.
LEMMA FitsNextGuard ==
  ASSUME Base, Data, NEW t \in Threads, NextGuard(t), Quiet
  PROVE  Fits(t)'
<1>0. CallsKept /\ CountsKept /\ Falling /\ LockTypes /\ WritersExclude /\ Fits(t)
        /\ CallFits(pc[t], call[t], frame[t]) /\ t \in DOMAIN pc /\ t \in DOMAIN frame
  BY DEF Base, CallsKept, Locking, Data
<1>1. pc[t] = "guards" /\ call' = call /\ pc' = pc /\ Acquire(t, {})
        /\ frame' = [frame EXCEPT ![t].plan = @ \ {NextShard(t)}]
  BY DEF NextGuard
<1>2. frame'[t].plan = frame[t].plan \ {NextShard(t)} /\ frame'[t].left = frame[t].left
  BY <1>0, <1>1 DEF CallFits, Fields
<1>3. ReadOnly(t)' = ReadOnly(t)
  BY <1>1 DEF ReadOnly
<1>4. /\ Frozen' = Frozen
      /\ (\A k : shard_index(k)' = shard_index(k) /\ Settled(k)' = Settled(k))
  BY QuietSteady
<1>5. Housed(t)'
  BY <1>0, <1>1, <1>2, <1>3, <1>4 DEF Fits, Housed
<1>6. Freezing(t)'
  <2>. SUFFICES ASSUME ReadOnly(t)
                PROVE  /\ t \in readers'[Slots]
                       /\ Frozen' = frame'[t].plan \cup {l \in ShardLocks : t \in readers'[l]}
    BY <1>3 DEF Freezing
  <2>1. Wanted(t) = <<NextShard(t), "read">> /\ NextShard(t) \in ShardLocks
    BY <1>0, <1>1, WantedAt DEF Planned, KeyMode
  <2>2. NextShard(t) \in frame[t].plan
    BY <1>0, <1>1, NextShardFirst DEF CallFits, Planned
  <2>3. ShardLocks \subseteq Locks /\ Slots \in Locks
    BY DEF Locks
  <2>4. Took(t, {NextShard(t)}, {}, {})
    BY <1>0, <1>1, <2>1, <2>3, Acquired
  <2>5. \A l \in Locks : t \in readers'[l] <=> t \in readers[l] \/ l = NextShard(t)
    BY <2>4 DEF Took
  <2>6. t \in readers[Slots]
          /\ Frozen = frame[t].plan \cup {l \in ShardLocks : t \in readers[l]}
    BY <1>0, <1>1 DEF Fits, Freezing
  <2>. QED
    BY <1>2, <1>4, <2>1, <2>2, <2>3, <2>5, <2>6
<1>. QED
  BY <1>1, <1>5, <1>6 DEF Fits, Handful, Moving, Filling, InHand

\* A batch only begins while a migration is under way.
LEMMA FitsExclusiveRouting ==
  ASSUME Base, Data, NEW t \in Threads, ExclusiveRouting(t), Quiet
  PROVE  Fits(t)'
<1>0. t \in DOMAIN pc
  BY DEF Base, CallsKept
<1>1. CASE pc'[t] \in {"return", "rebuild"}
  BY <1>1, ElsewhereFits DEF InHand
<1>a. CASE pc'[t] = "swap" /\ call[t].op = "start_rebalance_online" /\ ~Idles(call[t])
  <2>1. ~migrating /\ migrating' = migrating
    BY <1>a, QuietSteady DEF Idles
  <2>. QED
    BY <1>a, <2>1 DEF Fits, Handful, Housed, Freezing, Moving, Filling, InHand
<1>2. CASE pc'[t] = "batch" /\ call[t].op = "advance_rebalance" /\ ~Idles(call[t])
  <2>1. migrating /\ migrating' = migrating
    BY <1>2, QuietSteady DEF Idles
  <2>. QED
    BY <1>2, <2>1 DEF Fits, Handful, Housed, Freezing, Moving, Filling, InHand
<1>. QED
  BY <1>0, <1>1, <1>a, <1>2 DEF ExclusiveRouting, Goto, LayoutOps

\* A cache that is filled is filled with a snapshot of its epoch.
LEMMA DataFillCache ==
  ASSUME Base, Data, NEW t \in Threads, FillCache(t), Step(t), Quiet
  PROVE  Data'
<1>1. Steady(t)
  BY QuietSteady
<1>2. \A u \in Threads : u # t => Fits(u)'
  BY <1>1, OthersFit
<1>3. pc[t] = "fill" /\ pc'[t] = "return"
        /\ snapshot_cache' = {[epoch |-> frame[t].cut, items |-> frame[t].got.items]}
  BY DEF FillCache, Goto, Base, CallsKept
<1>4. Fits(t)'
  BY <1>3, ElsewhereFits DEF InHand
<1>5. Current(frame[t].cut, frame[t].got.items)
  BY <1>3 DEF Data, Fits, Filling
<1>6. Contents' = Contents /\ write_epoch' = write_epoch
  BY QuietSteady
<1>7. Cache'
  BY <1>3, <1>5, <1>6 DEF Cache, Current
<1>. QED
  BY <1>1, <1>2, <1>4, <1>7 DEF Data, Steady

\* The steps that leave the data alone keep them in order.
LEMMA DataQuiet ==
  ASSUME Base, Data, NEW t \in Threads, Step(t), ~Changing(t)
  PROVE  Data'
<1>0. Quiet /\ Steady(t) /\ CallsKept /\ t \in DOMAIN pc
  BY QuietSteps, QuietSteady DEF Base, CallsKept
<1>. DEFINE Hot == InHand \cup {"route", "guards", "fill", "batch", "move", "drained", "swap"}
            Elsewhere == pc'[t] \notin Hot /\ snapshot_cache' = snapshot_cache
            Fit == Fits(t)' /\ snapshot_cache' = snapshot_cache
<1>1. ASSUME NEW c \in Mixes[config.mix], Invoke(t, c) PROVE Fit
  BY <1>1, FitsInvoke DEF Invoke
<1>2. Enqueue(t) => Fit
  BY <1>0, FitsEnqueue DEF Enqueue
<1>3. Return(t) => Elsewhere
  BY <1>0 DEF Return, Goes, Goto, InHand
<1>4. Drop(t) => Elsewhere
  BY <1>0 DEF Drop, Goes, Goto, InHand
<1>5. Route(t) => Fit
  BY <1>0, FitsRoute DEF Route
<1>6. FindSlot(t) => Fit
  BY <1>0, FitsFindSlot DEF FindSlot
<1>7. ReadActive(t) => Fit
  BY <1>0, FitsReadActive DEF ReadActive
<1>8. ReadPrevious(t) => Fit
  BY <1>0, FitsReadPrevious DEF ReadPrevious
<1>9. LockActive(t) => Fit
  BY <1>0, FitsLockActive DEF LockActive
<1>10. CachedSnapshot(t) => Elsewhere
  BY <1>0 DEF CachedSnapshot, Goes, Goto, InHand
<1>11. BuilderGate(t) => Elsewhere
  BY <1>0 DEF BuilderGate, Goes, Goto, InHand
<1>12. PinRouting(t) => Elsewhere
  BY <1>0 DEF PinRouting, Goto, InHand
<1>13. PinSlots(t) => Fit
  BY <1>0, FitsPinSlots DEF PinSlots
<1>14. NextGuard(t) => Fit
  BY <1>0, FitsNextGuard DEF NextGuard
<1>15. CollectShards(t) => Fit
  BY <1>0, CollectHand DEF CollectShards
<1>16. TxnSlot(t) => Fit
  BY <1>0, FitsTxnSlot DEF TxnSlot
<1>17. Exclusive(t) => Elsewhere
  BY <1>0 DEF Exclusive, Goes, Goto, InHand
<1>18. Visited(t) => Elsewhere
  BY <1>0 DEF Visited, Goes, Goto, InHand
<1>19. RebalanceLock(t) => Elsewhere
  BY <1>0 DEF RebalanceLock, Goto, InHand
<1>20. ExclusiveRouting(t) => Fit
  BY <1>0, FitsExclusiveRouting DEF ExclusiveRouting
<1>21. Maintain(t) => Elsewhere
  BY <1>0 DEF Maintain, Goto, InHand
<1>22. Glance(t) => Elsewhere
  BY <1>0 DEF Glance, Goto, InHand
<1>23. ExclusivePass(t) => Elsewhere
  BY <1>0 DEF ExclusivePass, Goto, InHand
<1>24. SharePass(t) => Elsewhere
  BY <1>0 DEF SharePass, GivesUp, Goto, InHand
<1>25. PassSlots(t) => Elsewhere
  BY <1>0 DEF PassSlots, Goes, AfterScan, Goto, InHand
<1>26. Scan(t) => Elsewhere
  BY <1>0 DEF Scan, Goes, AfterScan, Goto, InHand
<1>27. PassLock(t) => Elsewhere
  BY <1>0 DEF PassLock, Goes, Goto, InHand
<1>28. Elsewhere => Fit
  BY ElsewhereFits
<1>29. Fit => Data'
  BY <1>0, DataStep
<1>. QED
  BY <1>0, <1>1, <1>2, <1>3, <1>4, <1>5, <1>6, <1>7, <1>8, <1>9, <1>10, <1>11, <1>12, <1>13,
     <1>14, <1>15, <1>16, <1>17, <1>18, <1>19, <1>20, <1>21, <1>22, <1>23, <1>24, <1>25,
     <1>26, <1>27, <1>28, <1>29, DataFillCache
  DEF Step, KeyStep, BulkStep, MigrationStep, EvictionStep, Changing

-----------------------------------------------------------------------------
(*****************************************************************************)
(* Only a bounded map is maintained, and keys in hand are keys.              *)
(*****************************************************************************)
Maintaining == {"glance", "share", "pass", "repair", "evict", "pass_slots", "scan", "pass_lock",
                "trim"}

ShapeOf(t) == frame[t].part \subseteq Keys /\ (pc[t] \in Maintaining => enabled)

Shapes == \A t \in Threads : ShapeOf(t)

\* Every step keeps that.
LEMMA ShapesNext ==
  ASSUME Base, Shapes, NEW t \in Threads, Step(t)
  PROVE  Shapes'
<1>0. CallsKept /\ CountsKept /\ ShapeOf(t) /\ Only(t)
        /\ CallFits(pc[t], call[t], frame[t]) /\ t \in DOMAIN pc /\ t \in DOMAIN frame
  BY OneMoves DEF Base, CallsKept, Shapes
<1>a. enabled' = enabled
  <2>1. config' = config
    BY <1>0, LayoutStays
  <2>. QED
    BY <2>1 DEF enabled
<1>b. DOMAIN frame[t] = Fields /\ frame[t].left \subseteq Keys
  BY <1>0 DEF CallFits
<1>. DEFINE Same == frame'[t].part = frame[t].part
            Gone == frame'[t].part = {}
            Ours == frame'[t].part \subseteq Keys
            Away == pc'[t] \notin Maintaining
            Here == pc[t] \in Maintaining
<1>. SUFFICES (Same \/ Ours) /\ (Away \/ Here \/ enabled)
  <2>1. ShapeOf(t)'
    BY <1>0, <1>a DEF ShapeOf
  <2>2. ASSUME NEW u \in Threads, u # t PROVE ShapeOf(u)'
    <3>1. pc'[u] = pc[u] /\ frame'[u] = frame[u]
      BY <1>0, <2>2 DEF Only, CallsKept
    <3>. QED
      BY <1>a, <3>1 DEF Shapes, ShapeOf
  <2>. QED
    BY <2>1, <2>2 DEF Shapes
<1>c. ASSUME NEW old, pc[t] \in InHand, Done(t, old) PROVE Ours /\ Away
  <2>1. CASE /\ pc' = [pc EXCEPT ![t] = IF ReadOnly(t) THEN "return" ELSE "maintain"]
             /\ frame' = [frame EXCEPT ![t] =
                  [frame[t] EXCEPT !.left = {}, !.part = {},
                                   !.got = Tally(t, frame[t].part, old)]]
    BY <1>0, <1>b, <2>1 DEF Fields, Maintaining
  <2>2. ASSUME NEW part, part \subseteq frame[t].left \ frame[t].part,
               pc' = [pc EXCEPT ![t] = "slots"],
               frame' = [frame EXCEPT ![t] =
                 [frame[t] EXCEPT !.left = @ \ frame[t].part, !.part = part,
                                  !.got = Tally(t, frame[t].part, old)]]
        PROVE  Ours /\ Away
    BY <1>0, <1>b, <2>2 DEF Fields, Maintaining
  <2>. QED
    BY <1>0, <1>c, <2>1, <2>2, DoneMoves
<1>d. ASSUME NEW K \in SUBSET Keys, Pops(t, K) PROVE Ours /\ Away
  <2>1. PICK k \in K : Goes(t, "move", [frame[t] EXCEPT !.part = K \ {k}, !.plan = {k}])
    BY <1>d DEF Pops
  <2>. QED
    BY <1>0, <1>b, <2>1 DEF Goes, Goto, Fields, Maintaining
<1>e. ASSUME NEW K, K \subseteq frame[t].left, NEW part \in Parts(t, K),
             K # {} \/ call[t].op \in BatchOps \cup {"txn"},
             Goes(t, "slots", [frame[t] EXCEPT !.part = part])
      PROVE  Ours /\ Away
  <2>1. part \subseteq K
    BY <1>e, PartsTyped
  <2>. QED
    BY <1>0, <1>b, <1>e, <2>1 DEF Goes, Goto, Fields, Maintaining
<1>f. ASSUME Resolved(t), pc[t] \in InHand, call[t].op = "txn" PROVE Ours /\ Away
  <2>1. CASE Goes(t, "guards", [frame[t] EXCEPT !.plan = TxnPlan(t)])
    <3>1. frame'[t].part = frame[t].part
      BY <1>0, <1>b, <2>1 DEF Goes, Fields
    <3>. QED
      BY <1>0, <2>1, <3>1 DEF Goes, Goto, Maintaining, ShapeOf
  <2>2. CASE Unresolved(t) # {}
    BY <1>e, <1>f, <2>2 DEF Resolved, Unresolved
  <2>. QED
    BY <1>f, <2>1, <2>2 DEF Resolved
<1>g. ASSUME Collect(t) PROVE Same /\ Away
  <2>1. frame'[t] = [Answers(t, ItemsReply(Copied(t))) EXCEPT !.plan = {}, !.cut = write_epoch]
          /\ pc'[t] = IF Caching(t) THEN "fill" ELSE "return"
    BY <1>0, <1>g DEF Collect, Goes, Goto
  <2>. QED
    BY <1>b, <2>1 DEF Answers, Fields, Maintaining
<1>1. ASSUME NEW c \in Mixes[config.mix], Invoke(t, c) PROVE Ours /\ Away
  <2>1. c \in CallsMade
    BY <1>0, ScenariosAssumption DEF CountsKept
  <2>2. pc'[t] = FirstAwait(c)
          /\ frame'[t] = [EmptyFrame EXCEPT !.left = Concerned(c), !.got = NoAnswer(c)]
    BY <1>0, <1>1 DEF Invoke, Goes, Goto
  <2>3. FirstAwait(c) \in {"route", "gate", "cached", "exclusive", "rebalance", "maintain"}
    BY <2>1, CallsTyped DEF FirstAwait, KeyOps, BatchOps, LayoutOps
  <2>. QED
    BY <2>2, <2>3 DEF EmptyFrame, Maintaining
<1>2. Route(t) => Ours /\ Away
  <2>. SUFFICES ASSUME Route(t) PROVE Ours /\ Away
    OBVIOUS
  <2>1. PICK part \in Parts(t, frame[t].left) :
               Goes(t, "slots", [frame[t] EXCEPT !.part = part])
    BY DEF Route
  <2>2. frame[t].left # {} \/ call[t].op \in BatchOps \cup {"txn"}
    BY <1>0 DEF Route, CallFits
  <2>. QED
    BY <1>e, <2>1, <2>2
<1>3. FindSlot(t) => (Same \/ Ours) /\ Away
  BY <1>0, <1>c DEF FindSlot, Goto, InHand, Maintaining
<1>4. ReadActive(t) => (Same \/ Ours) /\ Away
  BY <1>0, <1>c DEF ReadActive, Goto, InHand, Maintaining
<1>5. ReadPrevious(t) => Ours /\ Away
  BY <1>c DEF ReadPrevious, InHand
<1>6. WriteKeys(t) => Ours /\ Away
  BY <1>c DEF WriteKeys, InHand
<1>7. TxnSlot(t) => (Same \/ Ours) /\ Away
  BY <1>0, <1>f DEF TxnSlot, Goto, InHand, Maintaining
<1>8. TxnInit(t) => Ours /\ Away
  BY <1>f DEF TxnInit, InHand
<1>9. LoadBatch(t) => (Same \/ Ours) /\ Away
  BY <1>0, <1>d DEF LoadBatch, Goto, Batches, Keyset, Maintaining
<1>10. SourceLeft(t) => (Same \/ Ours) /\ Away
  BY <1>0, <1>d DEF SourceLeft, BatchEnds, Goto, ShapeOf, Maintaining
<1>11. PinSlots(t) => (Same \/ Ours) /\ Away
  BY <1>0, <1>b, <1>g DEF PinSlots, Goes, Goto, Fields, Maintaining
<1>12. CollectShards(t) => Same /\ Away
  BY <1>g DEF CollectShards
<1>13. Enqueue(t) => (Same \/ Ours) /\ (Away \/ Here \/ enabled)
  BY <1>0, <1>b DEF Enqueue, Fields, Maintaining
<1>14. Return(t) => (Same \/ Ours) /\ (Away \/ Here \/ enabled)
  BY <1>0, <1>b DEF Return, Goes, EmptyFrame, Goto, Fields, Maintaining
<1>15. Drop(t) => (Same \/ Ours) /\ (Away \/ Here \/ enabled)
  BY <1>0, <1>b DEF Drop, Goes, EmptyFrame, Goto, Fields, Maintaining
<1>16. InitSlot(t) => (Same \/ Ours) /\ (Away \/ Here \/ enabled)
  BY <1>0, <1>b DEF InitSlot, Goto, Fields, Maintaining
<1>17. LockActive(t) => (Same \/ Ours) /\ (Away \/ Here \/ enabled)
  BY <1>0, <1>b DEF LockActive, Goto, Fields, Maintaining
<1>18. CachedSnapshot(t) => (Same \/ Ours) /\ (Away \/ Here \/ enabled)
  BY <1>0, <1>b DEF CachedSnapshot, Goes, Answers, Goto, Fields, Maintaining
<1>19. BuilderGate(t) => (Same \/ Ours) /\ (Away \/ Here \/ enabled)
  BY <1>0, <1>b DEF BuilderGate, Goes, Answers, Goto, Fields, Maintaining
<1>20. PinRouting(t) => (Same \/ Ours) /\ (Away \/ Here \/ enabled)
  BY <1>0, <1>b DEF PinRouting, Goto, Fields, Maintaining
<1>21. NextGuard(t) => (Same \/ Ours) /\ (Away \/ Here \/ enabled)
  BY <1>0, <1>b DEF NextGuard, Fields, Maintaining
<1>22. FillCache(t) => (Same \/ Ours) /\ (Away \/ Here \/ enabled)
  BY <1>0, <1>b DEF FillCache, Goto, Fields, Maintaining
<1>23. Commit(t) => (Same \/ Ours) /\ (Away \/ Here \/ enabled)
  BY <1>0, <1>b DEF Commit, Goes, Answers, Goto, Fields, Maintaining
<1>24. Exclusive(t) => (Same \/ Ours) /\ (Away \/ Here \/ enabled)
  BY <1>0, <1>b DEF Exclusive, Goes, Goto, Fields, Maintaining
<1>25. Sweep(t) => (Same \/ Ours) /\ (Away \/ Here \/ enabled)
  BY <1>0, <1>b DEF Sweep, Goes, Answers, Goto, Fields, Maintaining
<1>26. Visit(t) => (Same \/ Ours) /\ (Away \/ Here \/ enabled)
  BY <1>0, <1>b DEF Visit, Fields, Maintaining
<1>27. Visited(t) => (Same \/ Ours) /\ (Away \/ Here \/ enabled)
  BY <1>0, <1>b DEF Visited, Goes, Answers, Goto, Fields, Maintaining
<1>28. RebalanceLock(t) => (Same \/ Ours) /\ (Away \/ Here \/ enabled)
  BY <1>0, <1>b DEF RebalanceLock, Goto, Fields, Maintaining
<1>29. ExclusiveRouting(t) => (Same \/ Ours) /\ (Away \/ Here \/ enabled)
  BY <1>0, <1>b DEF ExclusiveRouting, LayoutOps, Goto, Fields, Maintaining
<1>30. start_rebalance_online(t) => (Same \/ Ours) /\ (Away \/ Here \/ enabled)
  BY <1>0, <1>b DEF start_rebalance_online, Goto, Fields, Maintaining
<1>31. rebalance_to(t) => (Same \/ Ours) /\ (Away \/ Here \/ enabled)
  BY <1>0, <1>b DEF rebalance_to, Goto, Fields, Maintaining
<1>32. MoveEntry(t) => (Same \/ Ours) /\ (Away \/ Here \/ enabled)
  BY <1>0, <1>b DEF MoveEntry, Goes, Goto, Fields, Maintaining
<1>33. SourceDrained(t) => (Same \/ Ours) /\ (Away \/ Here \/ enabled)
  BY <1>0, <1>b DEF SourceDrained, BatchEnds, Goes, Goto, Fields, Maintaining
<1>34. Maintain(t) => (Same \/ Ours) /\ (Away \/ Here \/ enabled)
  BY <1>0, <1>b DEF Maintain, Goto, Fields, Maintaining
<1>35. Glance(t) => (Same \/ Ours) /\ (Away \/ Here \/ enabled)
  BY <1>0, <1>b DEF Glance, Goto, Fields, Maintaining
<1>36. ExclusivePass(t) => (Same \/ Ours) /\ (Away \/ Here \/ enabled)
  BY <1>0, <1>b DEF ExclusivePass, Goto, Fields, Maintaining
<1>37. Repair(t) => (Same \/ Ours) /\ (Away \/ Here \/ enabled)
  BY <1>0, <1>b DEF Repair, Goto, Fields, Maintaining
<1>38. EvictGlobally(t) => (Same \/ Ours) /\ (Away \/ Here \/ enabled)
  BY <1>0, <1>b DEF EvictGlobally, Goto, Fields, Maintaining
<1>39. SharePass(t) => (Same \/ Ours) /\ (Away \/ Here \/ enabled)
  BY <1>0, <1>b DEF SharePass, GivesUp, Goto, Fields, Maintaining
<1>40. PassSlots(t) => (Same \/ Ours) /\ (Away \/ Here \/ enabled)
  BY <1>0, <1>b DEF PassSlots, Goes, AfterScan, Selected, Goto, Fields, Maintaining
<1>41. Scan(t) => (Same \/ Ours) /\ (Away \/ Here \/ enabled)
  BY <1>0, <1>b DEF Scan, Goes, AfterScan, Selected, Goto, Fields, Maintaining
<1>42. PassLock(t) => (Same \/ Ours) /\ (Away \/ Here \/ enabled)
  BY <1>0, <1>b DEF PassLock, Goes, Goto, Fields, Maintaining
<1>43. TrimShards(t) => (Same \/ Ours) /\ (Away \/ Here \/ enabled)
  BY <1>0, <1>b DEF TrimShards, GivesUp, Goto, Fields, Maintaining
<1>. QED
  BY <1>1, <1>2, <1>3, <1>4, <1>5, <1>6, <1>7, <1>8, <1>9, <1>10, <1>11, <1>12, <1>13,
     <1>14, <1>15, <1>16, <1>17, <1>18, <1>19, <1>20, <1>21, <1>22, <1>23, <1>24, <1>25,
     <1>26, <1>27, <1>28, <1>29, <1>30, <1>31, <1>32, <1>33, <1>34, <1>35, <1>36, <1>37,
     <1>38, <1>39, <1>40, <1>41, <1>42, <1>43
  DEF Step, KeyStep, BulkStep, MigrationStep, EvictionStep

-----------------------------------------------------------------------------
(*****************************************************************************)
(* The changes of the data.                                                  *)
(*****************************************************************************)
\* An empty shard in an empty slot changes nothing.
LEMMA SlotFilled ==
  ASSUME CountsKept, DataTypes, Homes, Accounts, NEW k \in Keys,
         shards' = [shards EXCEPT ![shard_index(k)] = IF @ = NoShard THEN EmptyShard ELSE @],
         UNCHANGED <<config, previous_shards, shard_count, previous_shard_count, migrating,
                     moved_shards, total_len, write_epoch, meta>>
  PROVE  /\ DataTypes' /\ Homes' /\ Accounts' /\ Contents' = Contents
         /\ \A j \in Keys : Settled(j) => Settled(j)'
         /\ shards'[shard_index(k)] # NoShard
<1>1. EmptyShard \in Shard /\ EmptyShard # NoShard /\ shard_index(k) \in Idx
  BY StateAssumption, IndexTyped DEF EmptyShard, Shard, OptVal
<1>2. DataTypes'
  BY <1>1 DEF DataTypes
<1>3. \A i \in Idx : shards'[i] = IF i = shard_index(k) /\ shards[i] = NoShard THEN EmptyShard
                                  ELSE shards[i]
  BY <1>1 DEF DataTypes
<1>4. \A i \in Idx, j \in Keys : Lookup(shards'[i], j) = Lookup(shards[i], j)
  BY <1>1, <1>3 DEF Lookup, EmptyShard
<1>5. Homes' /\ Contents' = [j \in Keys |-> Contents[j]]
  <2>1. PICK K \in SUBSET Keys : K = {}
    OBVIOUS
  <2>2. \A i \in Idx, j \in Keys :
          /\ Lookup(shards'[i], j) = IF j \in K /\ shard_index(j) = i THEN shards[j]
                                     ELSE Lookup(shards[i], j)
          /\ Lookup(previous_shards'[i], j) = IF j \in K THEN Nil
                                              ELSE Lookup(previous_shards[i], j)
    BY <1>4, <2>1
  <2>3. \A j \in K : shards[j] \in OptVal
    BY <2>1
  <2>4. Homes' /\ Contents' = [j \in Keys |-> IF j \in K THEN shards[j] ELSE Contents[j]]
    BY <1>2, <2>2, <2>3, Rewrites
  <2>. QED
    BY <2>1, <2>4
<1>6. Contents' = Contents
  BY <1>5 DEF Contents
<1>7. Stored' = Stored /\ enabled' = enabled
  BY <1>6 DEF Stored, enabled
<1>8. Accounts'
  BY <1>7 DEF Accounts
<1>9. \A j \in Keys : Settled(j) => Settled(j)'
  <2>1. \A j \in Keys : shard_index(j) \in Idx
    BY IndexTyped
  <2>. QED
    BY <1>1, <1>3, <2>1 DEF Settled, shard_index
<1>. QED
  BY <1>1, <1>2, <1>3, <1>5, <1>6, <1>8, <1>9

\* The accounts of a change of the keys in K.
LEMMA AccountsBalance ==
  ASSUME CountsKept, DataTypes, Accounts, NEW K \in SUBSET Keys, NEW new,
         Contents' = [k \in Keys |-> IF k \in K THEN new[k] ELSE Contents[k]],
         total_len' = total_len + Cardinality({k \in K : new[k] # Nil})
                        - Cardinality({k \in K : Contents[k] # Nil}),
         NEW stored \in SUBSET {k \in K : new[k] # Nil},
         {k \in K : new[k] # Nil} \subseteq Stored \cup stored,
         Recorded({k \in K : new[k] = Nil}, stored), config' = config
  PROVE  Accounts'
<1>. DEFINE N == {k \in K : new[k] # Nil}
<1>1. Stored' = (Stored \ K) \cup N
  BY DEF Stored
<1>2. Stored \in SUBSET Keys /\ N \in SUBSET K /\ Stored \cap K = {k \in K : Contents[k] # Nil}
  BY DEF Stored
<1>3. Cardinality(Stored') = Cardinality(Stored) + Cardinality(N) - Cardinality(Stored \cap K)
  BY <1>1, <1>2, CountReplaced
<1>4. total_len' = Cardinality(Stored')
  BY <1>2, <1>3 DEF Accounts
<1>5. enabled' = enabled
  BY DEF enabled
<1>6. ASSUME enabled' PROVE meta' = Stored'
  <2>1. meta = Stored /\ meta' = (meta \ {k \in K : new[k] = Nil}) \cup stored
    BY <1>5, <1>6 DEF Accounts, Recorded
  <2>. QED
    BY <1>1, <1>2, <2>1
<1>. QED
  BY <1>4, <1>6 DEF Accounts

\* Put gives the keys in K their new values.
LEMMA PutRewrites ==
  ASSUME CountsKept, DataTypes, Homes, NEW K \in SUBSET Keys, NEW new, Put(K, new),
         \A k \in K : new[k] \in OptVal, write_epoch' \in Nat,
         UNCHANGED <<config, shard_count, previous_shard_count, migrating, moved_shards>>
  PROVE  /\ DataTypes' /\ Homes'
         /\ Contents' = [k \in Keys |-> IF k \in K THEN new[k] ELSE Contents[k]]
         /\ \A j \in Keys : Settled(j) => Settled(j)'
         /\ (\A k \in K : Settled(k)) => Frozen' = Frozen
<1>1. \A k \in Keys : shard_index(k) \in Idx
  BY IndexTyped
<1>. DEFINE here(i) == {k \in K : shard_index(k) = i}
<1>2. \A i \in Idx :
        /\ shards[i] \in Shard \cup {NoShard} /\ previous_shards[i] \in Shard \cup {NoShard}
        /\ shards'[i] = IF here(i) = {} THEN shards[i]
                        ELSE [k \in Keys |-> IF k \in here(i) THEN new[k]
                                             ELSE Lookup(shards[i], k)]
        /\ previous_shards'[i] = IF previous_shards[i] = NoShard THEN NoShard
                                 ELSE [k \in Keys |-> IF k \in K THEN Nil
                                                      ELSE previous_shards[i][k]]
  BY DEF Put, DataTypes
<1>3. \A i \in Idx, k \in Keys : Lookup(shards[i], k) \in OptVal
  BY <1>2, LookupTyped
<1>4. \A i \in Idx : here(i) # {} =>
        [k \in Keys |-> IF k \in here(i) THEN new[k] ELSE Lookup(shards[i], k)] \in Shard
  BY <1>3 DEF Shard
<1>5. \A i \in Idx : previous_shards[i] # NoShard =>
        [k \in Keys |-> IF k \in K THEN Nil ELSE previous_shards[i][k]] \in Shard
  BY <1>2 DEF Shard, OptVal
<1>6. NoShard \notin Shard
  BY StateAssumption
<1>7. DataTypes'
  <2>1. shards' = [i \in Idx |-> shards'[i]] /\ previous_shards' = [i \in Idx |-> previous_shards'[i]]
    BY DEF Put
  <2>2. \A i \in Idx : shards'[i] \in Shard \cup {NoShard}
    BY <1>2, <1>4
  <2>3. \A i \in Idx : previous_shards'[i] \in Shard \cup {NoShard}
    BY <1>2, <1>5
  <2>4. shards' \in [Idx -> Shard \cup {NoShard}] /\ previous_shards' \in [Idx -> Shard \cup {NoShard}]
    BY <2>1, <2>2, <2>3
  <2>. QED
    BY <2>4 DEF DataTypes
<1>8. ASSUME NEW i \in Idx, NEW k \in Keys
      PROVE  Lookup(shards'[i], k) = IF k \in K /\ shard_index(k) = i THEN new[k]
                                     ELSE Lookup(shards[i], k)
  <2>0. shards'[i] = IF here(i) = {} THEN shards[i]
                     ELSE [j \in Keys |-> IF j \in here(i) THEN new[j] ELSE Lookup(shards[i], j)]
    BY <1>2
  <2>1. CASE here(i) = {}
    BY <2>0, <2>1
  <2>2. CASE here(i) # {}
    <3>1. shards'[i] # NoShard
      BY <1>4, <1>6, <2>0, <2>2
    <3>2. shards'[i][k] = IF k \in here(i) THEN new[k] ELSE Lookup(shards[i], k)
      BY <2>0, <2>2
    <3>. QED
      BY <3>1, <3>2 DEF Lookup
  <2>. QED
    BY <2>1, <2>2
<1>9. ASSUME NEW i \in Idx, NEW k \in Keys
      PROVE  Lookup(previous_shards'[i], k) = IF k \in K THEN Nil
                                              ELSE Lookup(previous_shards[i], k)
  <2>0. previous_shards'[i] = IF previous_shards[i] = NoShard THEN NoShard
                              ELSE [j \in Keys |-> IF j \in K THEN Nil
                                                   ELSE previous_shards[i][j]]
    BY <1>2
  <2>1. CASE previous_shards[i] = NoShard
    BY <2>0, <2>1 DEF Lookup
  <2>2. CASE previous_shards[i] # NoShard
    <3>1. previous_shards'[i] # NoShard
      BY <1>5, <1>6, <2>0, <2>2
    <3>2. previous_shards'[i][k] = IF k \in K THEN Nil ELSE previous_shards[i][k]
      BY <2>0, <2>2
    <3>. QED
      BY <2>2, <3>1, <3>2 DEF Lookup
  <2>. QED
    BY <2>1, <2>2
<1>10. ASSUME NEW i \in Idx
       PROVE  previous_shards[i] = NoShard <=> previous_shards'[i] = NoShard
  <2>1. previous_shards'[i] = IF previous_shards[i] = NoShard THEN NoShard
                              ELSE [j \in Keys |-> IF j \in K THEN Nil
                                                   ELSE previous_shards[i][j]]
    BY <1>2
  <2>. QED
    BY <1>5, <1>6, <2>1
<1>11. Homes' /\ Contents' = [k \in Keys |-> IF k \in K THEN new[k] ELSE Contents[k]]
  <2>1. \A i \in Idx, k \in Keys :
          /\ Lookup(shards'[i], k) = IF k \in K /\ shard_index(k) = i THEN new[k]
                                     ELSE Lookup(shards[i], k)
          /\ Lookup(previous_shards'[i], k) = IF k \in K THEN Nil
                                              ELSE Lookup(previous_shards[i], k)
    BY <1>8, <1>9
  <2>2. \A i \in Idx : previous_shards[i] = NoShard => previous_shards'[i] = NoShard
    BY <1>10
  <2>. QED
    BY <1>7, <2>1, <2>2, Rewrites
<1>12. ASSUME NEW i \in Idx, shards'[i] = NoShard PROVE shards[i] = NoShard
  <2>1. shards'[i] = IF here(i) = {} THEN shards[i]
                     ELSE [j \in Keys |-> IF j \in here(i) THEN new[j] ELSE Lookup(shards[i], j)]
    BY <1>2
  <2>. QED
    BY <1>4, <1>6, <1>12, <2>1
<1>13. \A j \in Keys : Settled(j) => Settled(j)'
  BY <1>1, <1>12 DEF Settled, shard_index
<1>14. ASSUME \A k \in K : Settled(k) PROVE Frozen' = Frozen
  <2>1. \A i \in Idx : shards[i] = NoShard => here(i) = {}
    BY <1>14 DEF Settled
  <2>2. \A i \in Idx : shards'[i] = NoShard <=> shards[i] = NoShard
    BY <1>2, <1>12, <2>1
  <2>3. Initialized(shards') = Initialized(shards)
          /\ Initialized(previous_shards') = Initialized(previous_shards)
    BY <1>10, <2>2 DEF Initialized
  <2>. QED
    BY <2>3 DEF Frozen
<1>. QED
  BY <1>7, <1>11, <1>13, <1>14

\* Removing keys that are stored, wherever they are.
LEMMA RemovalSteady ==
  ASSUME Base, Data, NEW t \in Threads, NEW gone \in SUBSET Stored,
         shards' = [i \in Idx |-> Without(shards[i], gone)],
         previous_shards' = [i \in Idx |-> Without(previous_shards[i], gone)],
         total_len' = total_len - Cardinality(gone),
         write_epoch' = write_epoch + Cardinality(gone),
         Recorded(gone, {}),
         UNCHANGED <<config, shard_count, previous_shard_count, migrating, moved_shards>>
  PROVE  Steady(t) /\ Contents' = [k \in Keys |-> IF k \in gone THEN Nil ELSE Contents[k]]
<1>0. CountsKept /\ DataTypes /\ Homes /\ Accounts /\ gone \in SUBSET Keys
  BY DEF Base, Data, Stored
<1>1. Cardinality(gone) \in Nat /\ IsFiniteSet(gone)
  BY <1>0, KeysFinite
<1>2. \A i \in Idx :
        /\ shards[i] \in Shard \cup {NoShard} /\ previous_shards[i] \in Shard \cup {NoShard}
        /\ shards'[i] = Without(shards[i], gone)
        /\ previous_shards'[i] = Without(previous_shards[i], gone)
  BY <1>0 DEF DataTypes
<1>3. ASSUME NEW slot \in Shard \cup {NoShard}
      PROVE  /\ Without(slot, gone) \in Shard \cup {NoShard}
             /\ Without(slot, gone) = NoShard <=> slot = NoShard
             /\ \A k \in Keys : Lookup(Without(slot, gone), k)
                                  = IF k \in gone THEN Nil ELSE Lookup(slot, k)
  <2>1. NoShard \notin Shard
    BY StateAssumption
  <2>2. CASE slot = NoShard
    BY <2>2 DEF Without, Lookup
  <2>3. CASE slot # NoShard
    <3>1. Without(slot, gone) = [k \in Keys |-> IF k \in gone THEN Nil ELSE slot[k]]
      BY <2>3 DEF Without
    <3>2. Without(slot, gone) \in Shard
      BY <2>3, <3>1 DEF Shard, OptVal
    <3>. QED
      BY <2>1, <2>3, <3>1, <3>2 DEF Lookup
  <2>. QED
    BY <2>2, <2>3
<1>4. DataTypes'
  <2>1. write_epoch' \in Nat
    BY <1>0, <1>1 DEF DataTypes
  <2>2. \A i \in Idx : shards'[i] \in Shard \cup {NoShard}
                         /\ previous_shards'[i] \in Shard \cup {NoShard}
    BY <1>2, <1>3
  <2>3. shards' \in [Idx -> Shard \cup {NoShard}] /\ previous_shards' \in [Idx -> Shard \cup {NoShard}]
    BY <2>2
  <2>. QED
    BY <1>0, <2>1, <2>3 DEF DataTypes
<1>. DEFINE new == [k \in gone |-> Nil]
<1>5. \A k \in gone : new[k] = Nil /\ new[k] \in OptVal
  BY DEF OptVal
<1>. HIDE DEF new
<1>6. Homes' /\ Contents' = [k \in Keys |-> IF k \in gone THEN new[k] ELSE Contents[k]]
  <2>1. \A i \in Idx, k \in Keys :
          /\ Lookup(shards'[i], k) = IF k \in gone /\ shard_index(k) = i THEN new[k]
                                     ELSE Lookup(shards[i], k)
          /\ Lookup(previous_shards'[i], k) = IF k \in gone THEN Nil
                                              ELSE Lookup(previous_shards[i], k)
    <3>1. \A i \in Idx, k \in Keys : shard_index(k) # i => Lookup(shards[i], k) = Nil
      BY <1>0, HomesExact
    <3>. QED
      BY <1>2, <1>3, <1>5, <3>1
  <2>2. \A i \in Idx : previous_shards[i] = NoShard => previous_shards'[i] = NoShard
    BY <1>2, <1>3
  <2>. QED
    BY <1>0, <1>4, <1>5, <2>1, <2>2, Rewrites
<1>7. Accounts'
  <2>1. {k \in gone : new[k] # Nil} = {} /\ {k \in gone : new[k] = Nil} = gone
          /\ {k \in gone : Contents[k] # Nil} = gone
    BY <1>5 DEF Stored
  <2>2. total_len' = total_len + Cardinality({}) - Cardinality(gone)
    <3>1. total_len \in Nat
      BY <1>0, KeysFinite DEF Accounts, Stored
    <3>. QED
      BY <1>1, <3>1, FS_EmptySet
  <2>. QED
    BY <1>0, <1>6, <2>1, <2>2, AccountsBalance
<1>8. Contents' = [k \in Keys |-> IF k \in gone THEN Nil ELSE Contents[k]]
  BY <1>5, <1>6
<1>9. write_epoch <= write_epoch' /\ (write_epoch' = write_epoch => Contents' = Contents)
  <2>1. write_epoch' = write_epoch => gone = {}
    BY <1>0, <1>1, FS_EmptySet DEF DataTypes
  <2>2. gone = {} => Contents' = Contents
    BY <1>8 DEF Contents
  <2>. QED
    BY <1>0, <1>1, <2>1, <2>2 DEF DataTypes
<1>10. \A i \in Idx : (shards'[i] = NoShard <=> shards[i] = NoShard)
                       /\ (previous_shards'[i] = NoShard <=> previous_shards[i] = NoShard)
  BY <1>2, <1>3
<1>11. \A k \in Keys : Settled(k) => Settled(k)'
  <2>1. \A k \in Keys : shard_index(k) \in Idx
    BY <1>0, IndexTyped
  <2>. QED
    BY <1>10, <2>1 DEF Settled, shard_index
<1>12. Frozen' = Frozen
  BY <1>10 DEF Frozen, Initialized
<1>. QED
  BY <1>4, <1>6, <1>7, <1>8, <1>9, <1>11, <1>12 DEF Steady

\* A slot is initialized under the directory's lock, when no builder has it.
LEMMA DataInitSlot ==
  ASSUME Base, Data, NEW t \in Threads, InitSlot(t) \/ TxnInit(t)
  PROVE  Steady(t) /\ Fits(t)' /\ snapshot_cache' = snapshot_cache /\ Contents' = Contents
<1>0. /\ CallsKept /\ CountsKept /\ Falling /\ DataTypes /\ Homes /\ Accounts
      /\ pc[t] = "init" /\ pc[t] \in InHand /\ t \in DOMAIN pc
  BY DEF Base, Locking, CallsKept, Data, InitSlot, TxnInit, InHand
<1>1. KeyInHand(t) \in Keys
  BY <1>0, HandHasKey
<1>2. /\ get_or_init_shard(t)
      /\ UNCHANGED <<config, previous_shards, shard_count, previous_shard_count, migrating,
                     moved_shards, total_len, write_epoch, meta, snapshot_cache, call>>
  BY DEF InitSlot, TxnInit, counters, engine
<1>3. /\ DataTypes' /\ Homes' /\ Accounts' /\ Contents' = Contents
      /\ \A j \in Keys : Settled(j) => Settled(j)'
      /\ shards'[shard_index(KeyInHand(t))] # NoShard
  BY <1>0, <1>1, <1>2, SlotFilled DEF get_or_init_shard
<1>4. readers[Slots] = {}
  <2>1. Wanted(t) = <<Slots, "write">>
    BY <1>0, WantedAt
  <2>2. Obstacles(t) = {}
    BY DEF InitSlot, TxnInit, Resolved, Acquire
  <2>. QED
    BY <2>1, <2>2 DEF Obstacles
<1>5. Steady(t)
  BY <1>2, <1>3, <1>4 DEF Steady, Data, DataTypes
<1>6. CASE InitSlot(t)
  <2>1. call[t].op # "txn" /\ pc'[t] = "active" /\ frame' = frame
    BY <1>0, <1>6 DEF InitSlot, Goto
  <2>2. Fits(t)'
    BY <1>0, <1>2, <1>3, <2>1, SettledHand
  <2>. QED
    BY <1>2, <1>3, <1>5, <2>2
<1>7. CASE TxnInit(t)
  <2>1. call[t].op = "txn" /\ Resolved(t)
    BY <1>7 DEF TxnInit
  <2>2. Fits(t)'
    BY <1>0, <1>2, <1>3, <2>1, ResolvedHand
  <2>. QED
    BY <1>2, <1>3, <1>5, <2>2
<1>. QED
  BY <1>6, <1>7

\* The arguments of the calls that name keys.
LEMMA ArgumentsTyped ==
  ASSUME NEW c \in CallsMade
  PROVE  /\ c.op \in KeyOps \cup {"batch_insert"} => c.new \in OptVal
         /\ c.op \in {"insert", "get_or_insert", "cas", "batch_insert"} => c.new # Nil
         /\ c.op \in {"cas", "compare_and_remove"} => c.exp # Nil
         /\ c.op = "txn" =>
              /\ c.steps \in Seq(TxnSteps)
              /\ \A i \in DOMAIN c.steps : c.steps[i].op = "write" => c.steps[i].new # Nil
<1>. USE DEF KeyOps, BatchOps
<1>1. CASE c \in Calls
  <2>1. c \in AllCalls /\ WellFormed(c)
    BY <1>1, CallsAssumption
  <2>2. CASE c \in KeyCalls
    BY <2>1, <2>2 DEF KeyCalls, WellFormed
  <2>3. CASE c \in TxnCalls
    BY <2>1, <2>3 DEF TxnCalls, WellFormed
  <2>4. CASE c \in SnapCalls \cup SweepCalls
    BY <2>4 DEF SnapCalls, SweepCalls
  <2>. QED
    BY <2>1, <2>2, <2>3, <2>4 DEF AllCalls
<1>2. CASE c \in OtherCalls
  <2>1. c \in BatchCalls \cup LayoutCalls \cup EvictCalls \cup [op : {"drain"}]
          /\ (c.op = "batch_insert" => c.new # Nil)
    BY <1>2, OtherCallsAssumption
  <2>2. CASE c \in BatchCalls
    BY <2>1, <2>2 DEF BatchCalls
  <2>3. CASE c \in LayoutCalls
    BY <2>3 DEF LayoutCalls
  <2>4. CASE c \in EvictCalls \cup [op : {"drain"}]
    BY <2>4 DEF EvictCalls
  <2>. QED
    BY <2>1, <2>2, <2>3, <2>4
<1>. QED
  BY <1>1, <1>2 DEF CallsMade

\* A method stores a value it was given and says so, or leaves the old one, or nothing; who
\* stores has a ticket.
LEMMA MethodFits ==
  ASSUME NEW c \in CallsMade, c.op \in KeyOps \cup BatchOps, c.op \notin {"get", "batch_get"},
         NEW v \in OptVal
  PROVE  /\ Method(c, v).after \in OptVal /\ Method(c, v).inserts \in BOOLEAN
         /\ Method(c, v).inserts => Method(c, v).after # Nil /\ Method(c, v).ticket
         /\ ~Method(c, v).inserts => Method(c, v).after \in {v, Nil}
<1>0. Nil \in OptVal
  BY DEF OptVal
<1>1. CASE c.op \in {"insert", "batch_insert"}
  <2>1. Method(c, v) = insert_inner(c, v)
    BY <1>1 DEF Method
  <2>. QED
    BY <1>1, <2>1, ArgumentsTyped DEF insert_inner, Outcome, KeyOps
<1>2. CASE c.op \in {"remove", "batch_remove"}
  <2>1. Method(c, v) = remove_inner(v)
    BY <1>2 DEF Method
  <2>. QED
    BY <1>0, <2>1 DEF remove_inner, Outcome
<1>3. CASE c.op = "compute"
  <2>1. Method(c, v) = compute_if_present(c, v) /\ c.new \in OptVal
    BY <1>3, ArgumentsTyped DEF Method, KeyOps
  <2>2. CASE v = Nil
    BY <1>0, <2>1, <2>2 DEF compute_if_present, Outcome
  <2>3. CASE v # Nil
    <3>1. PICK b \in BOOLEAN : b = (c.new # Nil)
      OBVIOUS
    <3>2. Method(c, v) = Outcome(c.new, b, TRUE, KeyReply(b, c.new))
      BY <2>1, <2>3, <3>1 DEF compute_if_present
    <3>3. Method(c, v).after = c.new /\ Method(c, v).inserts = b /\ Method(c, v).ticket = TRUE
      BY <3>2 DEF Outcome
    <3>4. CASE c.new = Nil
      BY <2>1, <3>1, <3>3, <3>4
    <3>5. CASE c.new # Nil
      BY <2>1, <3>1, <3>3, <3>5
    <3>. QED
      BY <3>4, <3>5
  <2>. QED
    BY <2>2, <2>3
<1>4. CASE c.op = "get_or_insert"
  <2>1. Method(c, v) = get_or_insert_with(c, v) /\ c.new \in OptVal /\ c.new # Nil
    BY <1>4, ArgumentsTyped DEF Method, KeyOps
  <2>. QED
    BY <2>1 DEF get_or_insert_with, Outcome
<1>5. CASE c.op = "cas"
  <2>1. Method(c, v) = compare_and_swap(c, v) /\ c.new \in OptVal /\ c.new # Nil
    BY <1>5, ArgumentsTyped DEF Method, KeyOps
  <2>. QED
    BY <2>1 DEF compare_and_swap, Outcome
<1>6. CASE c.op = "compare_and_remove"
  <2>1. Method(c, v) = compare_and_remove(c, v)
    BY <1>6 DEF Method
  <2>. QED
    BY <1>0, <2>1 DEF compare_and_remove, Outcome
<1>. QED
  BY <1>1, <1>2, <1>3, <1>4, <1>5, <1>6 DEF KeyOps, BatchOps

\* What an access sees that does not go on to the previous generation.
LEMMA ActiveContents ==
  ASSUME Base, Data, NEW t \in Threads, pc[t] \in InHand, call[t].op # "txn", ~FallsBack(t),
         NEW k \in frame[t].part
  PROVE  k \in Keys /\ Contents[k] = InActive(k)
<1>0. CallsKept /\ CountsKept /\ DataTypes /\ Homes /\ Fits(t)
  BY DEF Base, Data
<1>1. KeyInHand(t) \in frame[t].part /\ k \in Keys
  BY <1>0, HandHasKey
<1>2. CASE previous_shard_count = 0
  BY <1>0, <1>1, <1>2, ContentsAt
<1>3. CASE previous_shard_count # 0
  <2>1. migrating
    BY <1>0, <1>3 DEF Homes
  <2>2. previous_shard(KeyInHand(t)) = NoShard
    BY <2>1 DEF FallsBack
  <2>3. k = KeyInHand(t)
    BY <1>0, <1>1, <2>1 DEF Fits, Handful
  <2>. QED
    BY <1>0, <1>1, <2>2, <2>3, ContentsAt DEF Lookup
<1>. QED
  BY <1>1, <1>2, <1>3

\* What a method sees is what the map contains.
LEMMA SeenContents ==
  ASSUME Base, Data, NEW t \in Threads, pc[t] \in {"active", "previous"}
  PROVE  Seen(t) = Contents
<1>1. call[t].op # "txn"
  BY DEF Base, CallsKept, CallFits
<1>2. \A k \in frame[t].part : ~FallsBack(t) => Contents[k] = InActive(k)
  BY <1>1, ActiveContents DEF InHand
<1>. QED
  BY <1>2 DEF Seen, Contents

\* A change of the keys in hand: the mutation bumps the epoch if anything changed.
LEMMA DataWriteKeys ==
  ASSUME Base, Data, NEW t \in Threads, WriteKeys(t)
  PROVE  /\ Steady(t) /\ Fits(t)' /\ snapshot_cache' = snapshot_cache
         /\ Contents' = [k \in Keys |-> IF k \in frame[t].part
                                        THEN Method(call[t], Contents[k]).after
                                        ELSE Contents[k]]
<1>0. /\ CallsKept /\ CountsKept /\ DataTypes /\ Homes /\ Accounts /\ Fits(t)
      /\ CallFits(pc[t], call[t], frame[t]) /\ pc[t] \in {"active", "previous"}
      /\ pc[t] \in InHand /\ ~ReadOnly(t)
  BY DEF Base, CallsKept, Data, InHand, WriteKeys
<1>1. /\ call[t] \in CallsMade /\ call[t].op \in KeyOps \cup BatchOps
      /\ call[t].op \notin {"get", "batch_get", "txn"}
  BY <1>0, HandHasKey DEF CallFits, ReadOnly, NoCall, KeyOps, BatchOps
<1>. DEFINE K == frame[t].part
            out == [k \in K |-> Method(call[t], Contents[k])]
            new == [k \in K |-> out[k].after]
            before == {k \in K : Contents[k] # Nil}
            after == {k \in K : new[k] # Nil}
            grown == Cardinality(after) - Cardinality(before)
            inserted == \E k \in K : out[k].inserts
<1>2. K \in SUBSET Keys
  BY <1>0, HandHasKey
<1>3. ASSUME NEW k \in K
      PROVE  /\ new[k] \in OptVal /\ (out[k].inserts => new[k] # Nil)
             /\ (~out[k].inserts => new[k] \in {Contents[k], Nil})
  <2>1. Contents[k] \in OptVal
    BY <1>0, <1>2, ContentsAt
  <2>. QED
    BY <1>1, <2>1, MethodFits
<1>4. Seen(t) = Contents
  BY <1>0, SeenContents
<1>5. /\ Put(K, new)
      /\ total_len' = total_len + grown
      /\ write_epoch' = write_epoch + (IF inserted \/ grown # 0 THEN 1 ELSE 0)
      /\ Recorded({k \in K : new[k] = Nil}, {k \in K : out[k].inserts})
      /\ Done(t, Contents)
      /\ UNCHANGED <<config, shard_count, previous_shard_count, migrating, moved_shards,
                     snapshot_cache, call>>
  BY <1>4 DEF WriteKeys, ShardMutationDrop
<1>6. /\ IsFiniteSet(after) /\ IsFiniteSet(before) /\ Cardinality(after) \in Nat
      /\ Cardinality(before) \in Nat /\ write_epoch \in Nat /\ total_len \in Nat
  BY <1>0, <1>2, KeysFinite DEF DataTypes, Accounts, Stored
<1>7. \A k \in K : Settled(k)
  BY <1>0 DEF Fits, Housed
<1>. HIDE DEF out
<1>8. write_epoch' \in Nat /\ write_epoch <= write_epoch'
  BY <1>5, <1>6
<1>9. ASSUME write_epoch' = write_epoch PROVE \A k \in K : new[k] = Contents[k]
  <2>1. ~inserted /\ grown = 0
    BY <1>5, <1>6, <1>9
  <2>2. after \subseteq before
    BY <1>3, <2>1
  <2>3. Cardinality(after) = Cardinality(before)
    BY <1>6, <2>1
  <2>4. after = before
    BY <1>6, <2>2, <2>3, FS_Subset
  <2>. QED
    BY <1>3, <2>1, <2>4
<1>. HIDE DEF new
<1>10. /\ DataTypes' /\ Homes'
       /\ Contents' = [k \in Keys |-> IF k \in K THEN new[k] ELSE Contents[k]]
       /\ (\A j \in Keys : Settled(j) => Settled(j)') /\ Frozen' = Frozen
  BY <1>0, <1>2, <1>3, <1>5, <1>7, <1>8, PutRewrites
<1>11. Accounts'
  <2>1. total_len' = total_len + Cardinality(after) - Cardinality(before)
    BY <1>5, <1>6
  <2>2. {k \in K : out[k].inserts} \in SUBSET after
    BY <1>3
  <2>3. after \subseteq Stored \cup {k \in K : out[k].inserts}
    BY <1>2, <1>3 DEF Stored
  <2>. QED
    BY <1>0, <1>2, <1>5, <1>10, <2>1, <2>2, <2>3, AccountsBalance
<1>12. write_epoch' = write_epoch => Contents' = Contents
  <2>1. Contents = [k \in Keys |-> Contents[k]]
    BY DEF Contents
  <2>. QED
    BY <1>9, <1>10, <2>1
<1>13. Steady(t)
  BY <1>8, <1>10, <1>11, <1>12 DEF Steady
<1>14. Fits(t)'
  BY <1>0, <1>1, <1>5, DoneHand
<1>15. Contents' = [k \in Keys |-> IF k \in K THEN Method(call[t], Contents[k]).after
                                   ELSE Contents[k]]
  BY <1>10 DEF new, out
<1>. QED
  BY <1>5, <1>13, <1>14, <1>15

\* What a transaction leaves under a key: what its last step that writes it does.
LEMMA LastWriter ==
  ASSUME NEW steps \in Seq(TxnSteps), NEW n \in 0..Len(steps), NEW old, NEW k \in Keys
  PROVE  /\ (\A i \in 1..n : ~Writes(steps[i], k)) => AfterSteps(steps, n, old)[k] = old[k]
         /\ (\E i \in 1..n : Writes(steps[i], k)) =>
              \E i \in 1..n :
                /\ Writes(steps[i], k)
                /\ AfterSteps(steps, n, old)[k] =
                     IF steps[i].op = "write" THEN steps[i].new ELSE Nil
<1>. DEFINE IsLast(i) == Writes(steps[i], k) /\ \A j \in (i + 1)..n : ~Writes(steps[j], k)
<1>1. ASSUME \A i \in 1..n : ~Writes(steps[i], k)
      PROVE  AfterSteps(steps, n, old)[k] = old[k]
  BY <1>1 DEF AfterSteps
<1>2. ASSUME NEW a \in 1..n, Writes(steps[a], k)
      PROVE  \E i \in 1..n :
               /\ Writes(steps[i], k)
               /\ AfterSteps(steps, n, old)[k] = IF steps[i].op = "write" THEN steps[i].new ELSE Nil
  <2>1. PICK back : \A m : m \in back <=> m \in 0..n /\ n - m \in 1..n /\ Writes(steps[n - m], k)
    <3>1. PICK S : S = {m \in 0..n : n - m \in 1..n /\ Writes(steps[n - m], k)}
      OBVIOUS
    <3>2. \A m : m \in S <=> m \in 0..n /\ n - m \in 1..n /\ Writes(steps[n - m], k)
      BY <3>1, Zenon
    <3>. QED
      BY <3>2, Zenon
  <2>2. back \in SUBSET Nat /\ back # {} /\ n \in Nat
    <3>1. PICK m \in 0..n : n - m = a
      OBVIOUS
    <3>2. m \in back
      BY <1>2, <2>1, <3>1
    <3>. QED
      BY <2>1, <3>2
  <2>3. PICK m \in back : \A x \in back : m <= x
    BY <2>2, LeastNatural
  <2>4. m \in 0..n /\ n - m \in 1..n /\ Writes(steps[n - m], k)
    BY <2>1, <2>3
  <2>5. ASSUME NEW j \in (n - m + 1)..n PROVE ~Writes(steps[j], k)
    <3>1. PICK x \in 0..n : n - x = j /\ j \in 1..n /\ x < m
      <4>1. n - j \in 0..n /\ n - (n - j) = j /\ j \in 1..n /\ n - j < m
        BY <2>2, <2>4
      <4>. QED
        BY <4>1
    <3>2. x \notin back
      BY <2>2, <2>3, <2>4, <3>1
    <3>. QED
      BY <2>1, <3>1, <3>2
  <2>6. \E i \in 1..n : IsLast(i)
    BY <2>4, <2>5
  <2>7. PICK last : last = CHOOSE i \in 1..n : IsLast(i)
    OBVIOUS
  <2>8. last \in 1..n /\ IsLast(last)
    BY <2>6, <2>7
  <2>9. AfterSteps(steps, n, old)[k] = IF steps[last].op = "write" THEN steps[last].new ELSE Nil
    BY <1>2, <2>7 DEF AfterSteps
  <2>. QED
    BY <2>8, <2>9
<1>. QED
  BY <1>1, <1>2

\* A transaction none of whose steps changes anything leaves everything as it was.
LEMMA NothingChanges ==
  ASSUME NEW steps \in Seq(TxnSteps), NEW old, NEW k \in Keys,
         \A n \in DOMAIN steps :
           /\ steps[n].op # "write"
           /\ steps[n].op = "remove" => AfterSteps(steps, n - 1, old)[steps[n].key] = Nil
  PROVE  AfterSteps(steps, Len(steps), old)[k] = old[k]
<1>. DEFINE n == Len(steps)
            writers == {i \in 1..n : Writes(steps[i], k)}
<1>0. n \in Nat /\ n \in 0..n /\ DOMAIN steps = 1..n
  OBVIOUS
<1>1. CASE writers = {}
  BY <1>0, <1>1, LastWriter
<1>2. CASE writers # {}
  <2>1. PICK i \in writers : \A j \in writers : i <= j
    <3>1. writers \in SUBSET Nat
      OBVIOUS
    <3>. HIDE DEF writers
    <3>. QED
      BY <1>2, <3>1, LeastNatural
  <2>2. i \in 1..n /\ i - 1 \in 0..n /\ steps[i].key = k /\ steps[i].op = "remove"
    BY <1>0, <2>1 DEF Writes
  <2>3. \A j \in 1..(i - 1) : ~Writes(steps[j], k)
    BY <1>0, <2>1, <2>2
  <2>4. AfterSteps(steps, i - 1, old)[k] = old[k]
    <3>1. PICK m \in 0..n : m = i - 1
      BY <2>2
    <3>. QED
      BY <2>3, <3>1, LastWriter
  <2>5. old[k] = Nil
    BY <1>0, <2>2, <2>4
  <2>6. PICK l \in 1..n : /\ Writes(steps[l], k)
                          /\ AfterSteps(steps, n, old)[k] =
                               IF steps[l].op = "write" THEN steps[l].new ELSE Nil
    BY <1>0, <2>1, LastWriter
  <2>. QED
    BY <1>0, <2>5, <2>6
<1>. QED
  BY <1>1, <1>2

\* A committed transaction: the epoch is bumped if a step changed anything.
LEMMA DataCommit ==
  ASSUME Base, Data, NEW t \in Threads, Commit(t)
  PROVE  /\ Steady(t) /\ Fits(t)' /\ snapshot_cache' = snapshot_cache
         /\ Contents' = [k \in Keys |->
              IF k \in frame[t].left
              THEN AfterSteps(call[t].steps, Len(call[t].steps), Contents)[k] ELSE Contents[k]]
<1>0. /\ CallsKept /\ CountsKept /\ DataTypes /\ Homes /\ Accounts /\ Fits(t)
      /\ CallFits(pc[t], call[t], frame[t]) /\ pc[t] = "guards" /\ ~ReadOnly(t)
  BY DEF Base, CallsKept, Data, Commit
<1>1. /\ call[t] \in CallsMade /\ call[t].op = "txn" /\ frame[t].left \in SUBSET Keys
      /\ t \in DOMAIN pc
  <2>1. call[t].op = "txn"
    BY <1>0 DEF CallFits, ReadOnly
  <2>. QED
    BY <1>0, <2>1 DEF CallFits, CallsKept, NoCall
<1>2. PICK steps : steps = call[t].steps
  OBVIOUS
<1>3. /\ steps \in Seq(TxnSteps)
      /\ \A i \in DOMAIN steps : steps[i].op = "write" => steps[i].new # Nil
      /\ \A i \in DOMAIN steps : steps[i] \in TxnSteps
  BY <1>1, <1>2, ArgumentsTyped
<1>. DEFINE K == frame[t].left
            new == AfterSteps(steps, Len(steps), Contents)
            changes == {n \in DOMAIN steps : Changes(steps, n)}
            stored == {k \in K : new[k] # Nil /\ \E n \in DOMAIN steps : Writes(steps[n], k)}
<1>4. /\ Put(K, new)
      /\ total_len' = total_len + Cardinality({k \in K : new[k] # Nil})
                        - Cardinality({k \in K : Contents[k] # Nil})
      /\ write_epoch' = write_epoch + Cardinality(changes)
      /\ Recorded({k \in K : new[k] = Nil}, stored)
      /\ Goto(t, "maintain")
      /\ UNCHANGED <<config, shard_count, previous_shard_count, migrating, moved_shards,
                     snapshot_cache>>
  BY <1>2 DEF Commit, Goes
<1>5. IsFiniteSet(changes) /\ Cardinality(changes) \in Nat /\ (Cardinality(changes) = 0 => changes = {})
  <2>1. IsFiniteSet(DOMAIN steps)
    BY <1>3, FS_Interval
  <2>2. IsFiniteSet(changes)
    BY <2>1, FS_Subset
  <2>. QED
    BY <2>2, FS_CardinalityType, FS_EmptySet
<1>6. write_epoch' \in Nat /\ write_epoch <= write_epoch'
        /\ (write_epoch' = write_epoch => changes = {})
  <2>. HIDE DEF changes
  <2>. QED
    BY <1>0, <1>4, <1>5 DEF DataTypes
<1>7. ASSUME NEW k \in Keys
      PROVE  /\ new[k] \in OptVal
             /\ new[k] # Nil => new[k] = Contents[k] \/ \E n \in DOMAIN steps : Writes(steps[n], k)
  <2>1. Contents[k] \in OptVal /\ Nil \in OptVal
    BY <1>0, ContentsAt DEF OptVal
  <2>2. Len(steps) \in 0..Len(steps) /\ DOMAIN steps = 1..Len(steps)
    BY <1>3
  <2>3. CASE \A i \in 1..Len(steps) : ~Writes(steps[i], k)
    BY <1>3, <2>1, <2>2, <2>3, LastWriter
  <2>4. CASE \E i \in 1..Len(steps) : Writes(steps[i], k)
    <3>1. PICK i \in 1..Len(steps) : /\ Writes(steps[i], k)
                                    /\ new[k] = IF steps[i].op = "write" THEN steps[i].new ELSE Nil
      BY <1>3, <2>2, <2>4, LastWriter
    <3>2. steps[i].new \in OptVal
      BY <1>3, <2>2 DEF TxnSteps
    <3>. QED
      BY <2>1, <2>2, <3>1, <3>2
  <2>. QED
    BY <2>3, <2>4
<1>8. ASSUME changes = {} PROVE \A k \in Keys : new[k] = Contents[k]
  <2>1. \A n \in DOMAIN steps :
          /\ steps[n].op # "write"
          /\ steps[n].op = "remove" => AfterSteps(steps, n - 1, Contents)[steps[n].key] = Nil
    BY <1>8 DEF Changes
  <2>. QED
    BY <1>3, <2>1, NothingChanges
<1>9. \A k \in K : Settled(k)
  BY <1>0 DEF Fits, Housed
<1>. HIDE DEF new, changes
<1>10. /\ DataTypes' /\ Homes'
       /\ Contents' = [k \in Keys |-> IF k \in K THEN new[k] ELSE Contents[k]]
       /\ (\A j \in Keys : Settled(j) => Settled(j)') /\ Frozen' = Frozen
  BY <1>0, <1>1, <1>4, <1>6, <1>7, <1>9, PutRewrites
<1>11. Accounts'
  <2>1. stored \in SUBSET {k \in K : new[k] # Nil}
    OBVIOUS
  <2>2. {k \in K : new[k] # Nil} \subseteq Stored \cup stored
    BY <1>1, <1>7 DEF Stored
  <2>. QED
    BY <1>0, <1>1, <1>4, <1>10, <2>1, <2>2, AccountsBalance
<1>12. write_epoch' = write_epoch => Contents' = Contents
  <2>1. Contents = [k \in Keys |-> Contents[k]]
    BY DEF Contents
  <2>. QED
    BY <1>1, <1>6, <1>8, <1>10, <2>1
<1>13. Steady(t)
  BY <1>6, <1>10, <1>11, <1>12 DEF Steady
<1>14. Fits(t)'
  BY <1>1, <1>4, ElsewhereFits DEF Goto, InHand
<1>. QED
  BY <1>2, <1>4, <1>10, <1>13, <1>14 DEF new

\* Everything is swept away in one go.
LEMMA DataSweep ==
  ASSUME Base, Data, NEW t \in Threads, Sweep(t)
  PROVE  /\ Steady(t) /\ Fits(t)' /\ snapshot_cache' = snapshot_cache
         /\ Contents' = [k \in Keys |-> Nil]
<1>0. /\ CountsKept /\ DataTypes /\ Homes /\ Accounts /\ pc[t] = "sweep" /\ t \in DOMAIN pc
  BY DEF Base, CallsKept, Data, Sweep
<1>1. /\ shards' = Emptied(shards) /\ previous_shards' = [i \in Idx |-> NoShard]
      /\ previous_shard_count' = 0 /\ migrating' = FALSE /\ moved_shards' = 0 /\ total_len' = 0
      /\ write_epoch' = write_epoch + (IF Stored # {} THEN 1 ELSE 0)
      /\ Recorded(Stored, {}) /\ Goto(t, "maintain")
      /\ UNCHANGED <<config, shard_count, snapshot_cache>>
  BY DEF Sweep, Goes
<1>2. EmptyShard \in Shard /\ 0 \in Idx /\ Idx = 0..(MaxCount - 1)
  BY StateAssumption DEF EmptyShard, Shard, OptVal, Idx
<1>3. \A i \in Idx, k \in Keys : /\ shards'[i] \in {NoShard, EmptyShard}
                                 /\ Lookup(shards'[i], k) = Nil
                                 /\ previous_shards'[i] = NoShard
  BY <1>1 DEF Emptied, Lookup, EmptyShard
<1>4. DataTypes'
  <2>1. /\ shards' \in [Idx -> Shard \cup {NoShard}]
        /\ previous_shards' \in [Idx -> Shard \cup {NoShard}]
    BY <1>1, <1>2 DEF Emptied
  <2>2. write_epoch' \in Nat
    BY <1>0, <1>1 DEF DataTypes
  <2>. QED
    BY <1>1, <1>2, <2>1, <2>2 DEF DataTypes
<1>5. Homes'
  <2>1. \A i \in Idx : Keyset(shards'[i]) = {} /\ Keyset(previous_shards'[i]) = {}
    BY <1>3 DEF Keyset, Lookup
  <2>2. OneHome(shards', shard_count', previous_shards', previous_shard_count')
    BY <2>1 DEF OneHome
  <2>. QED
    BY <1>1, <1>3, <2>2 DEF Homes, Drained
<1>6. Contents' = [k \in Keys |-> Nil]
  <2>1. \A k \in Keys : (Hash[k] % shard_count') \in Idx
    BY <1>0, <1>1, IndexTyped DEF shard_index
  <2>2. \A k \in Keys : InActive(k)' = Nil /\ Lookup(previous_shard(k)', k) = Nil
    BY <1>1, <1>3, <2>1 DEF InActive, shard_index, previous_shard, Lookup
  <2>. QED
    BY <2>2 DEF Contents
<1>7. Stored' = {}
  BY <1>6 DEF Stored
<1>8. Accounts'
  BY <1>0, <1>1, <1>7, FS_EmptySet DEF Accounts, Recorded, enabled
<1>9. write_epoch <= write_epoch' /\ (write_epoch' = write_epoch => Contents' = Contents)
  <2>1. write_epoch' = write_epoch => Stored = {}
    BY <1>0, <1>1 DEF DataTypes
  <2>2. Stored = {} => Contents' = Contents
    BY <1>6 DEF Stored, Contents
  <2>. QED
    BY <1>0, <1>1, <2>1, <2>2 DEF DataTypes
<1>10. Steady(t)
  BY <1>0, <1>4, <1>5, <1>8, <1>9 DEF Steady, Alone
<1>11. Fits(t)'
  BY <1>0, <1>1, ElsewhereFits DEF Goto, InHand
<1>. QED
  BY <1>1, <1>6, <1>10, <1>11

\* Retain removes from a shard what is stored there.
LEMMA DataVisit ==
  ASSUME Base, Data, NEW t \in Threads, Visit(t)
  PROVE  /\ Steady(t) /\ Fits(t)' /\ snapshot_cache' = snapshot_cache
         /\ \E gone \in SUBSET Stored :
              /\ gone = Keyset(Home(NextShard(t))) \ call[t].keep
              /\ Contents' = [k \in Keys |-> IF k \in gone THEN Nil ELSE Contents[k]]
<1>0. /\ CallsKept /\ CountsKept /\ DataTypes /\ Homes /\ pc[t] = "visit" /\ frame[t].plan # {}
      /\ CallFits(pc[t], call[t], frame[t]) /\ t \in DOMAIN pc
  BY DEF Base, CallsKept, Data, Visit
<1>1. PICK gone : gone = Keyset(Home(NextShard(t))) \ call[t].keep
  OBVIOUS
<1>2. gone \in SUBSET Stored
  <2>1. NextShard(t) \in ShardLocks
    BY <1>0, NextShardFirst DEF CallFits
  <2>2. PICK i \in Idx : \/ Home(NextShard(t)) = shards[i]
                         \/ Home(NextShard(t)) = previous_shards[i]
    BY <2>1 DEF ShardLocks, Home
  <2>3. \A k \in gone : k \in Keys /\ Lookup(Home(NextShard(t)), k) # Nil
    BY <1>1 DEF Keyset
  <2>. QED
    BY <1>0, <2>2, <2>3, HomesExact DEF Stored
<1>3. /\ shards' = [i \in Idx |-> Without(shards[i], gone)]
      /\ previous_shards' = [i \in Idx |-> Without(previous_shards[i], gone)]
      /\ total_len' = total_len - Cardinality(gone)
      /\ write_epoch' = write_epoch + Cardinality(gone)
      /\ Recorded(gone, {})
      /\ UNCHANGED <<config, shard_count, previous_shard_count, migrating, moved_shards,
                     snapshot_cache, pc, call>>
  BY <1>1 DEF Visit
<1>4. Steady(t) /\ Contents' = [k \in Keys |-> IF k \in gone THEN Nil ELSE Contents[k]]
  BY <1>2, <1>3, RemovalSteady
<1>5. Fits(t)'
  BY <1>0, <1>3, ElsewhereFits DEF InHand
<1>. QED
  BY <1>1, <1>2, <1>3, <1>4, <1>5

\* A shard index is an index.
LEMMA ModTyped ==
  ASSUME NEW k \in Keys, NEW n \in 1..MaxCount
  PROVE  Hash[k] % n \in Idx
<1>1. Hash[k] \in Nat /\ MaxCount \in Nat
  BY StateAssumption
<1>. QED
  BY <1>1 DEF Idx

\* An online migration begins with everything in the previous generation.
LEMMA DataSwap ==
  ASSUME Base, Data, NEW t \in Threads, Step(t), start_rebalance_online(t)
  PROVE  Steady(t) /\ Fits(t)' /\ snapshot_cache' = snapshot_cache /\ Contents' = Contents
<1>0. /\ CountsKept /\ DataTypes /\ Homes /\ Accounts /\ pc[t] = "swap" /\ t \in DOMAIN pc
      /\ Moving(t)
  BY DEF Base, CallsKept, Data, Fits, start_rebalance_online
<1>1. /\ previous_shards' = shards /\ shards' = [i \in Idx |-> NoShard]
      /\ previous_shard_count' = shard_count /\ migrating' = TRUE /\ moved_shards' = 0
      /\ pc' = [pc EXCEPT ![t] = "return"]
      /\ UNCHANGED <<config, total_len, write_epoch, meta, snapshot_cache>>
  BY DEF start_rebalance_online, Goto, counters
<1>2. previous_shard_count = 0
  BY <1>0 DEF Moving, Homes
<1>3. 0 \in Idx /\ shard_count \in 1..MaxCount /\ Idx = 0..(MaxCount - 1)
  BY <1>0, StateAssumption DEF Idx, CountsKept
<1>a. shard_count' \in 1..MaxCount
  <2>1. CountsKept'
    BY CountsNext DEF Base
  <2>. QED
    BY <2>1 DEF CountsKept
<1>4. DataTypes'
  BY <1>0, <1>1, <1>3 DEF DataTypes
<1>5. \A i \in Idx, k \in Keys : Lookup(shards'[i], k) = Nil
  BY <1>1 DEF Lookup
<1>6. Homes'
  <2>1. \A i \in Idx : Keyset(shards'[i]) = {}
    BY <1>5 DEF Keyset
  <2>2. \A i \in Idx : \A k \in Keyset(shards[i]) : i = Hash[k] % shard_count
    BY <1>0 DEF Homes, OneHome
  <2>3. OneHome(shards', shard_count', previous_shards', previous_shard_count')
    BY <1>1, <1>3, <2>1, <2>2 DEF OneHome
  <2>4. Drained(previous_shards', previous_shard_count', moved_shards')
    BY <1>1, <1>3 DEF Drained
  <2>. QED
    BY <1>1, <1>3, <2>3, <2>4 DEF Homes
<1>7. Contents' = Contents
  <2>1. ASSUME NEW k \in Keys
        PROVE  InActive(k)' = Nil /\ Lookup(previous_shard(k)', k) = Contents[k]
    <3>1. Hash[k] % shard_count' \in Idx
      BY <1>a, ModTyped
    <3>2. Contents[k] = Lookup(shards[shard_index(k)], k)
      BY <1>0, <1>2, ContentsAt
    <3>3. previous_shard(k)' = shards[shard_index(k)]
      BY <1>1, <1>3 DEF previous_shard, previous_index, shard_index
    <3>. QED
      BY <1>5, <3>1, <3>2, <3>3 DEF InActive, shard_index
  <2>2. Contents = [k \in Keys |-> Contents[k]]
    BY DEF Contents
  <2>3. Contents' = [k \in Keys |-> Contents[k]]
    BY <2>1 DEF Contents
  <2>. QED
    BY <2>2, <2>3
<1>9. Steady(t)
  <2>1. Stored' = Stored /\ enabled' = enabled
    BY <1>1, <1>7 DEF Stored, enabled
  <2>2. Accounts'
    BY <1>0, <1>1, <2>1 DEF Accounts
  <2>. QED
    BY <1>0, <1>1, <1>4, <1>6, <1>7, <2>2 DEF Steady, Alone, Resharding, DataTypes
<1>10. Fits(t)'
  BY <1>0, <1>1, ElsewhereFits DEF InHand
<1>. QED
  BY <1>1, <1>7, <1>9, <1>10

\* A stop-the-world rebalance puts everything where the new count says.
LEMMA DataRebuild ==
  ASSUME Base, Data, NEW t \in Threads, Step(t), rebalance_to(t)
  PROVE  Steady(t) /\ Fits(t)' /\ snapshot_cache' = snapshot_cache /\ Contents' = Contents
<1>0. /\ CountsKept /\ DataTypes /\ Homes /\ Accounts /\ pc[t] = "rebuild" /\ t \in DOMAIN pc
  BY DEF Base, CallsKept, Data, rebalance_to
<1>1. /\ shards' = Staged(shard_count') /\ previous_shards' = [i \in Idx |-> NoShard]
      /\ previous_shard_count' = 0 /\ total_len' = Cardinality(Stored)
      /\ migrating' = FALSE /\ moved_shards' = 0
      /\ pc' = [pc EXCEPT ![t] = "return"]
      /\ UNCHANGED <<config, write_epoch, meta, snapshot_cache>>
  BY DEF rebalance_to, Goto
<1>2. shard_count' \in 1..MaxCount
  <2>1. CountsKept'
    BY CountsNext DEF Base
  <2>. QED
    BY <2>1 DEF CountsKept
<1>3. 0 \in Idx /\ NoShard \notin Shard
  BY StateAssumption DEF Idx
<1>. DEFINE here(i) == {k \in Stored : Hash[k] % shard_count' = i}
<1>4. ASSUME NEW i \in Idx
      PROVE  /\ shards'[i] \in Shard \cup {NoShard}
             /\ \A k \in Keys : Lookup(shards'[i], k) =
                  IF Hash[k] % shard_count' = i THEN Contents[k] ELSE Nil
  <2>1. \A k \in Keys : Contents[k] \in OptVal /\ (k \in Stored <=> Contents[k] # Nil)
    BY <1>0, ContentsAt
  <2>2. CASE here(i) = {}
    <3>1. shards'[i] = NoShard
      BY <1>1, <2>2 DEF Staged
    <3>. QED
      BY <2>1, <2>2, <3>1 DEF Lookup
  <2>3. CASE here(i) # {}
    <3>1. shards'[i] = [k \in Keys |-> IF k \in here(i) THEN Contents[k] ELSE Nil]
      BY <1>1, <2>3 DEF Staged
    <3>2. shards'[i] \in Shard
      BY <2>1, <3>1 DEF Shard, OptVal
    <3>3. \A k \in Keys : Lookup(shards'[i], k) = IF k \in here(i) THEN Contents[k] ELSE Nil
      BY <1>3, <3>1, <3>2 DEF Lookup
    <3>. QED
      BY <2>1, <3>2, <3>3
  <2>. QED
    BY <2>2, <2>3
<1>5. DataTypes'
  <2>1. shards' = [i \in Idx |-> shards'[i]]
    BY <1>1 DEF Staged
  <2>2. shards' \in [Idx -> Shard \cup {NoShard}]
    BY <1>4, <2>1
  <2>. QED
    BY <1>0, <1>1, <1>3, <2>2 DEF DataTypes
<1>6. Homes'
  <2>1. \A i \in Idx : \A k \in Keyset(shards'[i]) : i = Hash[k] % shard_count'
    BY <1>4 DEF Keyset
  <2>2. \A i \in Idx : previous_shards'[i] = NoShard /\ Keyset(previous_shards'[i]) = {}
    BY <1>1 DEF Keyset, Lookup
  <2>3. OneHome(shards', shard_count', previous_shards', previous_shard_count')
    BY <2>1, <2>2 DEF OneHome
  <2>. QED
    BY <1>1, <2>2, <2>3 DEF Homes, Drained
<1>7. Contents' = Contents
  <2>1. ASSUME NEW k \in Keys
        PROVE  InActive(k)' = Contents[k] /\ Lookup(previous_shard(k)', k) = Nil
    <3>1. Hash[k] % shard_count' \in Idx
      BY <1>2, ModTyped
    <3>. QED
      BY <1>1, <1>4, <3>1 DEF InActive, shard_index, previous_shard, Lookup
  <2>2. Contents = [k \in Keys |-> Contents[k]]
    BY DEF Contents
  <2>3. Contents' = [k \in Keys |-> Contents[k]]
    BY <2>1 DEF Contents
  <2>. QED
    BY <2>2, <2>3
<1>8. Steady(t)
  <2>1. Stored' = Stored /\ enabled' = enabled
    BY <1>1, <1>7 DEF Stored, enabled
  <2>2. Accounts'
    BY <1>0, <1>1, <2>1 DEF Accounts
  <2>. QED
    BY <1>0, <1>1, <1>5, <1>6, <1>7, <2>2 DEF Steady, Alone, Resharding, DataTypes
<1>9. Fits(t)'
  BY <1>0, <1>1, ElsewhereFits DEF InHand
<1>. QED
  BY <1>1, <1>7, <1>8, <1>9

\* The target slot of a key popped from a batch is initialized.
LEMMA DataPops ==
  ASSUME Base, Data, NEW t \in Threads, pc[t] \in Alone, migrating, NEW K \in SUBSET Keys,
         Pops(t, K),
         UNCHANGED <<config, previous_shards, shard_count, previous_shard_count, migrating,
                     moved_shards, total_len, write_epoch, meta, snapshot_cache>>
  PROVE  Steady(t) /\ Fits(t)' /\ Contents' = Contents
<1>0. CountsKept /\ DataTypes /\ Homes /\ Accounts /\ t \in DOMAIN pc /\ t \in DOMAIN frame
  BY DEF Base, CallsKept, Data
<1>1. PICK k \in K :
        /\ shards' = [shards EXCEPT ![shard_index(k)] = IF @ = NoShard THEN EmptyShard ELSE @]
        /\ Goes(t, "move", [frame[t] EXCEPT !.part = K \ {k}, !.plan = {k}])
  BY DEF Pops
<1>2. DataTypes' /\ Homes' /\ Accounts' /\ Contents' = Contents
  BY <1>0, <1>1, SlotFilled
<1>3. Steady(t)
  BY <1>0, <1>2 DEF Steady, DataTypes
<1>4. pc'[t] = "move" /\ frame'[t].plan = {k}
  <2>1. DOMAIN frame[t] = Fields
    BY DEF Base, CallsKept, CallFits
  <2>. QED
    BY <1>0, <1>1, <2>1 DEF Goes, Goto, Fields
<1>5. Fits(t)'
  BY <1>4 DEF Fits, Handful, Housed, Freezing, Moving, Filling, InHand
<1>. QED
  BY <1>2, <1>3, <1>5

\* A batch is loaded.
LEMMA DataLoadBatch ==
  ASSUME Base, Data, NEW t \in Threads, LoadBatch(t)
  PROVE  Steady(t) /\ Fits(t)' /\ snapshot_cache' = snapshot_cache /\ Contents' = Contents
<1>0. /\ pc[t] = "batch" /\ t \in DOMAIN pc /\ migrating /\ pc[t] \in Alone
      /\ UNCHANGED <<config, previous_shards, shard_count, previous_shard_count, migrating,
                     moved_shards, counters, snapshot_cache, engine>>
  BY DEF Base, CallsKept, Data, LoadBatch, Fits, Moving, Alone, Resharding
<1>1. PICK K \in Batches(t) : \/ Goto(t, "drained") /\ UNCHANGED <<shards, frame>>
                              \/ Pops(t, K)
  BY DEF LoadBatch
<1>2. K \in SUBSET Keys
  BY DEF Batches, Keyset
<1>3. CASE Pops(t, K)
  BY <1>0, <1>2, <1>3, DataPops DEF counters, engine
<1>4. CASE Goto(t, "drained") /\ UNCHANGED <<shards, frame>>
  <2>1. Quiet /\ pc'[t] = "drained"
    BY <1>0, <1>4 DEF Quiet, layout, engine, Goto
  <2>2. Fits(t)'
    BY <1>0, <2>1 DEF Fits, Handful, Housed, Freezing, Moving, Filling, InHand
  <2>. QED
    BY <1>0, <2>1, <2>2, QuietSteady
<1>. QED
  BY <1>1, <1>3, <1>4

\* The source still has entries.
LEMMA DataSourceLeft ==
  ASSUME Base, Shapes, Data, NEW t \in Threads, SourceLeft(t)
  PROVE  Steady(t) /\ Fits(t)' /\ snapshot_cache' = snapshot_cache /\ Contents' = Contents
<1>0. /\ pc[t] = "drained" /\ t \in DOMAIN pc /\ migrating /\ pc[t] \in Alone
      /\ frame[t].part \in SUBSET Keys
      /\ UNCHANGED <<config, previous_shards, shard_count, previous_shard_count, migrating,
                     moved_shards, counters, snapshot_cache, engine>>
  BY DEF Base, CallsKept, Data, SourceLeft, Fits, Moving, Alone, Resharding, Shapes, ShapeOf
<1>1. CASE Pops(t, frame[t].part)
  BY <1>0, <1>1, DataPops DEF counters, engine
<1>2. CASE BatchEnds(t) /\ UNCHANGED <<shards, frame>>
  <2>1. Quiet /\ pc'[t] = "return"
    BY <1>0, <1>2 DEF Quiet, layout, engine, BatchEnds, Goto
  <2>2. Fits(t)'
    BY <2>1, ElsewhereFits DEF InHand
  <2>. QED
    BY <1>0, <2>1, <2>2, QuietSteady
<1>. QED
  BY <1>1, <1>2 DEF SourceLeft

\* An entry is moved: it is in the active generation then, with the value it had.
LEMMA DataMoveEntry ==
  ASSUME Base, Data, NEW t \in Threads, MoveEntry(t)
  PROVE  Steady(t) /\ Fits(t)' /\ snapshot_cache' = snapshot_cache /\ Contents' = Contents
<1>0. /\ CountsKept /\ DataTypes /\ Homes /\ Accounts /\ pc[t] = "move" /\ t \in DOMAIN pc
      /\ migrating /\ pc[t] \in Alone /\ frame[t].plan \in SUBSET Keys
  BY DEF Base, CallsKept, Data, MoveEntry, Fits, Moving, Alone, Resharding
<1>1. /\ Put(frame[t].plan, Contents) /\ pc' = [pc EXCEPT ![t] = "drained"]
      /\ UNCHANGED <<config, shard_count, previous_shard_count, migrating, moved_shards,
                     total_len, write_epoch, meta, snapshot_cache>>
  BY DEF MoveEntry, Goes, Goto, counters, engine
<1>2. \A k \in frame[t].plan : Contents[k] \in OptVal
  BY <1>0, ContentsAt
<1>3. /\ DataTypes' /\ Homes'
      /\ Contents' = [k \in Keys |-> IF k \in frame[t].plan THEN Contents[k] ELSE Contents[k]]
  BY <1>0, <1>1, <1>2, PutRewrites DEF DataTypes
<1>4. Contents' = Contents
  BY <1>3 DEF Contents
<1>5. Accounts'
  <2>1. Stored' = Stored /\ enabled' = enabled
    BY <1>1, <1>4 DEF Stored, enabled
  <2>. QED
    BY <1>0, <1>1, <2>1 DEF Accounts
<1>6. Steady(t)
  BY <1>0, <1>1, <1>3, <1>4, <1>5 DEF Steady, DataTypes
<1>7. Fits(t)'
  BY <1>0, <1>1 DEF Fits, Handful, Housed, Freezing, Moving, Filling, InHand
<1>. QED
  BY <1>1, <1>4, <1>6, <1>7

\* An empty source is dropped, with the previous generation if it was the last.
LEMMA DataSourceDrained ==
  ASSUME Base, Data, NEW t \in Threads, SourceDrained(t)
  PROVE  Steady(t) /\ Fits(t)' /\ snapshot_cache' = snapshot_cache /\ Contents' = Contents
<1>0. /\ CountsKept /\ DataTypes /\ Homes /\ Accounts /\ pc[t] = "drained" /\ t \in DOMAIN pc
      /\ migrating /\ pc[t] \in Alone /\ Keyset(previous_shards[moved_shards]) = {}
      /\ UNCHANGED <<config, shards, shard_count, total_len, write_epoch, meta, snapshot_cache>>
  BY DEF Base, CallsKept, Data, SourceDrained, Fits, Moving, Alone, Resharding, counters,
         engine, Source
<1>1. /\ moved_shards \in Idx /\ moved_shards < previous_shard_count
      /\ previous_shard_count \in 1..MaxCount /\ Idx = 0..(MaxCount - 1) /\ MaxCount \in Nat
      /\ 0 \in Idx
      /\ \A i \in Idx : i < moved_shards => previous_shards[i] = NoShard
  BY <1>0, StateAssumption DEF Homes, Drained, CountsKept, DataTypes, Idx
<1>2. \A k \in Keys : Lookup(previous_shards[moved_shards], k) = Nil
  BY <1>0 DEF Keyset
<1>3. ASSUME LastSource PROVE DataTypes' /\ Homes' /\ Contents' = Contents /\ Fits(t)'
  <2>1. /\ previous_shards' = [i \in Idx |-> NoShard] /\ previous_shard_count' = 0
        /\ migrating' = FALSE /\ moved_shards' = 0 /\ pc' = [pc EXCEPT ![t] = "return"]
    BY <1>3 DEF SourceDrained, BatchEnds, Goto
  <2>2. DataTypes'
    BY <1>0, <1>1, <2>1 DEF DataTypes
  <2>3. \A i \in Idx : previous_shards'[i] = NoShard /\ Keyset(previous_shards'[i]) = {}
    BY <2>1 DEF Keyset, Lookup
  <2>4. OneHome(shards', shard_count', previous_shards', previous_shard_count')
    BY <1>0, <2>3 DEF Homes, OneHome
  <2>5. Homes'
    BY <2>1, <2>3, <2>4 DEF Homes, Drained
  <2>6. ASSUME NEW k \in Keys PROVE Lookup(previous_shard(k), k) = Nil
    <3>1. previous_index(k) \in Idx /\ previous_index(k) < previous_shard_count
      <4>1. Hash[k] \in Nat
        BY StateAssumption
      <4>. QED
        BY <1>1, <4>1 DEF previous_index
    <3>2. previous_index(k) <= moved_shards
      BY <1>1, <1>3, <3>1 DEF LastSource
    <3>3. CASE previous_index(k) = moved_shards
      BY <1>1, <1>2, <3>3 DEF previous_shard
    <3>4. CASE previous_index(k) < moved_shards
      BY <1>1, <3>1, <3>4 DEF previous_shard, Lookup
    <3>. QED
      BY <1>1, <3>1, <3>2, <3>3, <3>4
  <2>7. ASSUME NEW k \in Keys
        PROVE  InActive(k)' = InActive(k) /\ Lookup(previous_shard(k)', k) = Nil
    BY <1>0, <2>1 DEF InActive, shard_index, previous_shard, Lookup
  <2>8. Contents' = Contents
    BY <2>6, <2>7 DEF Contents
  <2>9. Fits(t)'
    BY <1>0, <2>1, ElsewhereFits DEF InHand
  <2>. QED
    BY <2>2, <2>5, <2>8, <2>9
<1>4. ASSUME ~LastSource PROVE DataTypes' /\ Homes' /\ Contents' = Contents /\ Fits(t)'
  <2>1. /\ previous_shards' = [previous_shards EXCEPT ![moved_shards] = NoShard]
        /\ moved_shards' = moved_shards + 1
        /\ UNCHANGED <<previous_shard_count, migrating>>
        /\ pc' = [pc EXCEPT ![t] = "batch"] \/ pc' = [pc EXCEPT ![t] = "return"]
    BY <1>4 DEF SourceDrained, BatchEnds, Goes, Goto
  <2>2. moved_shards + 1 < previous_shard_count /\ moved_shards + 1 \in Idx
    BY <1>1, <1>4 DEF LastSource
  <2>3. DataTypes'
    BY <1>0, <1>1, <2>1, <2>2 DEF DataTypes
  <2>4. \A i \in Idx : previous_shards'[i] = IF i = moved_shards THEN NoShard
                                             ELSE previous_shards[i]
    BY <1>0, <1>1, <2>1 DEF DataTypes
  <2>5. \A i \in Idx, k \in Keys : Lookup(previous_shards'[i], k) = Lookup(previous_shards[i], k)
    BY <1>2, <2>4 DEF Lookup
  <2>6. Homes'
    <3>1. \A i \in Idx : Keyset(previous_shards'[i]) = Keyset(previous_shards[i])
      BY <2>5 DEF Keyset
    <3>2. OneHome(shards', shard_count', previous_shards', previous_shard_count')
      BY <1>0, <2>1, <3>1 DEF Homes, OneHome
    <3>3. \A i \in Idx : i < moved_shards + 1 => previous_shards'[i] = NoShard
      BY <1>1, <2>4
    <3>4. Drained(previous_shards', previous_shard_count', moved_shards')
      BY <1>1, <2>1, <2>2, <3>3 DEF Drained
    <3>. QED
      BY <1>0, <2>1, <3>2, <3>4 DEF Homes
  <2>7. Contents' = Contents
    <3>1. ASSUME NEW k \in Keys
          PROVE  /\ InActive(k)' = InActive(k)
                 /\ Lookup(previous_shard(k)', k) = Lookup(previous_shard(k), k)
      <4>1. previous_index(k) \in Idx /\ previous_index(k)' = previous_index(k)
        BY <1>0, <1>1, <2>1, IndexTyped DEF previous_index
      <4>. QED
        BY <1>0, <2>1, <2>5, <4>1 DEF InActive, shard_index, previous_shard, Lookup
    <3>. QED
      BY <3>1 DEF Contents
  <2>8. Fits(t)'
    BY <1>0, <2>1 DEF Fits, Handful, Housed, Freezing, Moving, Filling, InHand
  <2>. QED
    BY <2>3, <2>6, <2>7, <2>8
<1>5. DataTypes' /\ Homes' /\ Contents' = Contents /\ Fits(t)'
  BY <1>3, <1>4
<1>6. Stored' = Stored /\ enabled' = enabled
  BY <1>0, <1>5 DEF Stored, enabled
<1>7. Accounts'
  BY <1>0, <1>6 DEF Accounts
<1>8. Steady(t)
  BY <1>0, <1>5, <1>7 DEF Steady, DataTypes
<1>. QED
  BY <1>0, <1>5, <1>8

\* Maintenance repairs the metadata, and evicts what it has metadata for.
LEMMA DataMaintained ==
  ASSUME Base, Shapes, Data, NEW t \in Threads, Repair(t) \/ EvictGlobally(t) \/ TrimShards(t)
  PROVE  /\ Steady(t) /\ Fits(t)' /\ snapshot_cache' = snapshot_cache
         /\ \E gone \in SUBSET Stored :
              Contents' = [k \in Keys |-> IF k \in gone THEN Nil ELSE Contents[k]]
<1>0. /\ CountsKept /\ DataTypes /\ Homes /\ Accounts /\ t \in DOMAIN pc /\ ShapeOf(t)
  BY DEF Base, CallsKept, Data, Shapes
<1>1. snapshot_cache' = snapshot_cache
        /\ pc'[t] \in {"evict", "return", "glance"} /\ pc[t] \in {"repair", "evict", "trim"}
  BY <1>0 DEF Repair, EvictGlobally, TrimShards, GivesUp, Goto
<1>2. Fits(t)'
  BY <1>1, ElsewhereFits DEF InHand
<1>3. meta = Stored
  BY <1>0, <1>1 DEF ShapeOf, Maintaining, Accounts
<1>4. ASSUME NEW K \in SUBSET meta, Evicted(K),
             UNCHANGED <<config, shard_count, previous_shard_count, migrating, moved_shards>>
      PROVE  /\ Steady(t)
             /\ \E gone \in SUBSET Stored :
                  Contents' = [k \in Keys |-> IF k \in gone THEN Nil ELSE Contents[k]]
  BY <1>3, <1>4, RemovalSteady DEF Evicted
<1>5. CASE EvictGlobally(t)
  <2>1. PICK K \in SUBSET meta : Evicted(K)
    BY <1>5 DEF EvictGlobally
  <2>. QED
    BY <1>1, <1>2, <1>4, <1>5, <2>1 DEF EvictGlobally
<1>6. ASSUME Contents' = Contents
      PROVE  \E gone \in SUBSET Stored :
               Contents' = [k \in Keys |-> IF k \in gone THEN Nil ELSE Contents[k]]
  <2>1. PICK gone \in SUBSET Stored : gone = {}
    OBVIOUS
  <2>2. Contents' = [k \in Keys |-> IF k \in gone THEN Nil ELSE Contents[k]]
    BY <1>6, <2>1 DEF Contents
  <2>. QED
    BY <2>2
<1>7. CASE TrimShards(t)
  <2>1. CASE dirty
    <3>1. Quiet
      BY <1>7, <2>1 DEF TrimShards, Quiet, layout
    <3>. QED
      BY <1>1, <1>2, <1>6, <3>1, QuietSteady
  <2>2. CASE ~dirty
    <3>1. PICK K \in SUBSET meta : Evicted(K)
      BY <1>7, <2>2 DEF TrimShards
    <3>. QED
      BY <1>1, <1>2, <1>4, <1>7, <3>1 DEF TrimShards
  <2>. QED
    BY <2>1, <2>2
<1>8. CASE Repair(t)
  <2>1. Quiet
    BY <1>3, <1>8 DEF Repair, Quiet
  <2>. QED
    BY <1>1, <1>2, <1>6, <2>1, QuietSteady
<1>. QED
  BY <1>5, <1>7, <1>8

-----------------------------------------------------------------------------
\* Every step keeps the data in order.
LEMMA DataNext ==
  ASSUME Base, Shapes, Data, NEW t \in Threads, Step(t)
  PROVE  Data'
<1>. DEFINE Kept == Steady(t) /\ Fits(t)' /\ snapshot_cache' = snapshot_cache
<1>1. InitSlot(t) \/ TxnInit(t) => Kept
  BY DataInitSlot
<1>2. WriteKeys(t) => Kept
  BY DataWriteKeys
<1>3. Commit(t) => Kept
  BY DataCommit
<1>4. Sweep(t) => Kept
  BY DataSweep
<1>5. Visit(t) => Kept
  BY DataVisit
<1>6. start_rebalance_online(t) => Kept
  BY DataSwap
<1>7. rebalance_to(t) => Kept
  BY DataRebuild
<1>8. LoadBatch(t) => Kept
  BY DataLoadBatch
<1>9. MoveEntry(t) => Kept
  BY DataMoveEntry
<1>10. SourceLeft(t) => Kept
  BY DataSourceLeft
<1>11. SourceDrained(t) => Kept
  BY DataSourceDrained
<1>12. Repair(t) \/ EvictGlobally(t) \/ TrimShards(t) => Kept
  BY DataMaintained
<1>13. Kept => Data'
  BY DataStep
<1>. QED
  BY <1>1, <1>2, <1>3, <1>4, <1>5, <1>6, <1>7, <1>8, <1>9, <1>10, <1>11, <1>12, <1>13, DataQuiet
  DEF Changing

\* A map that nobody is in starts in order.
LEMMA DataInit ==
  Init => Shapes /\ Data
<1>. SUFFICES ASSUME Init PROVE Shapes /\ Data
  OBVIOUS
<1>1. PICK s \in Scenarios :
        /\ shards = s.shards /\ previous_shards = s.previous_shards
        /\ shard_count = s.shard_count /\ previous_shard_count = s.previous_shard_count
        /\ migrating = (s.previous_shard_count # 0) /\ moved_shards = s.moved_shards
        /\ total_len = Cardinality(Stored) /\ write_epoch = 0 /\ snapshot_cache = {}
        /\ meta = IF enabled THEN Stored ELSE {}
        /\ pc = [t \in Threads |-> "idle"] /\ frame = [t \in Threads |-> EmptyFrame]
  BY DEF Init
<1>2. DataTypes /\ Homes
  <2>1. migrating \in BOOLEAN /\ (migrating <=> previous_shard_count # 0)
    BY <1>1
  <2>. QED
    BY <1>1, <2>1, ScenariosAssumption DEF DataTypes, Homes
<1>3. Accounts /\ Cache
  BY <1>1 DEF Accounts, Cache
<1>4. \A t \in Threads : Fits(t)
  BY <1>1 DEF Fits, Handful, Housed, Freezing, Moving, Filling, InHand
<1>5. Shapes
  BY <1>1 DEF Shapes, ShapeOf, Maintaining, EmptyFrame
<1>. QED
  BY <1>2, <1>3, <1>4, <1>5 DEF Data

\* Nothing changes if nothing happens.
LEMMA DataStutters ==
  ASSUME Shapes, Data, UNCHANGED vars
  PROVE  Shapes' /\ Data'
<1>. USE DEF vars, layout, counters, engine, locks
<1>1. /\ Contents' = Contents /\ Stored' = Stored /\ Frozen' = Frozen /\ enabled' = enabled
      /\ \A k : shard_index(k)' = shard_index(k)
  BY DEF Contents, Stored, InActive, previous_shard, shard_index, previous_index, Frozen, enabled
<1>2. Shapes'
  BY <1>1 DEF Shapes, ShapeOf
<1>3. DataTypes' /\ Homes' /\ Accounts' /\ Cache'
  BY <1>1 DEF Data, DataTypes, Homes, OneHome, Drained, Accounts, Cache, Current
<1>4. ASSUME NEW t \in Threads PROVE Fits(t)'
  <2>1. Fits(t)
    BY DEF Data
  <2>2. ReadOnly(t)' = ReadOnly(t) /\ KeyInHand(t)' = KeyInHand(t)
    BY DEF ReadOnly, KeyInHand
  <2>3. Handful(t)' /\ Housed(t)' /\ Moving(t)'
    BY <1>1, <2>1, <2>2 DEF Fits, Handful, Housed, Moving, Settled
  <2>4. Freezing(t)' /\ Filling(t)'
    BY <1>1, <2>1, <2>2 DEF Fits, Freezing, Filling, Current
  <2>. QED
    BY <2>1, <2>3, <2>4 DEF Fits
<1>. QED
  BY <1>2, <1>3, <1>4 DEF Data

\* The map is whole when the data are in order.
LEMMA DataWhole ==
  ASSUME Data
  PROVE  MapWhole
BY DEF Data, Homes, Accounts, Cache, Current, MapWhole, CacheCoherent

\* Whatever was dropped and where, the map is whole: no await separates a change of the data
\* from its accounting, from the epoch it bumps and from the metadata that records it.
THEOREM MapStaysWhole == Spec => []MapWhole
<1>1. Init => Base /\ Shapes /\ Data
  BY CallsInit, DataInit DEF Base
<1>2. Base /\ Shapes /\ Data /\ [Next]_vars => Base' /\ Shapes' /\ Data'
  <2>. SUFFICES ASSUME Base, Shapes, Data, [Next]_vars PROVE Base' /\ Shapes' /\ Data'
    OBVIOUS
  <2>1. Base'
    BY BaseNext
  <2>2. CASE Next
    <3>1. PICK t \in Threads : Step(t)
      BY <2>2 DEF Next, Step
    <3>. QED
      BY <2>1, <3>1, ShapesNext, DataNext
  <2>3. CASE UNCHANGED vars
    BY <2>1, <2>3, DataStutters
  <2>. QED
    BY <2>2, <2>3
<1>3. Data => MapWhole
  BY DataWhole
<1>. QED
  BY <1>1, <1>2, <1>3, PTL DEF Spec

-----------------------------------------------------------------------------
(*****************************************************************************)
(* The limits.                                                               *)
(*****************************************************************************)
Roomy(i) == ~Over(Cardinality(InShard(Stored, i)), shard_limit)

Surveying == {"pass_slots", "scan", "pass_lock", "trim"}

\* What a pass knows: as long as its generation is the latest, the shards that it has neither
\* to inspect, nor picked, nor locked have room.  Nobody repairs metadata in vain.
Surveyed(t) ==
  /\ pc[t] \in {"share"} \cup Surveying => shard_limit # Nil
  /\ pc[t] \in Surveying => previous_shard_count = 0
  /\ pc[t] = "scan" /\ t \in current =>
       \A i \in Idx : Active(i) \in frame[t].plan \cup frame[t].picked \/ Roomy(i)
  /\ pc[t] = "pass_lock" /\ t \in current =>
       \A i \in Idx : Active(i) \in frame[t].plan \cup Held(t) \/ Roomy(i)
  /\ pc[t] = "trim" /\ t \in current =>
       \A i \in Idx : Active(i) \in Held(t) \/ Roomy(i)
  /\ pc[t] = "repair" => dirty /\ work

\* A map beyond its limits knows that maintenance is due, whoever is in it.
Limits == (WithinLimits \/ dirty \/ work) /\ \A t \in Threads : Surveyed(t)

-----------------------------------------------------------------------------
\* The limits of the configuration, and which of them a call may lower.
LEMMA LimitsTyped ==
  ASSUME CountsKept
  PROVE  /\ config.max_entries \in Nat \cup {Nil} /\ shard_limit \in Nat \cup {Nil}
         /\ config.max_entries = Nil \/ shard_limit = Nil
         /\ enabled <=> config.max_entries # Nil \/ shard_limit # Nil
  BY ScenariosAssumption DEF CountsKept, shard_limit, enabled

\* A shard that holds less than one with room has room.
LEMMA RoomKept ==
  ASSUME CountsKept, NEW S \in SUBSET Keys, NEW R \in SUBSET S, shard_limit \in Nat,
         ~Over(Cardinality(S), shard_limit)
  PROVE  ~Over(Cardinality(R), shard_limit)
<1>1. Cardinality(R) <= Cardinality(S) /\ Cardinality(R) \in Nat /\ Cardinality(S) \in Nat
  BY KeysFinite, FS_Subset
<1>. QED
  BY <1>1 DEF Over

\* What is stored does not grow, in the same shards; or the map has no limits; or the need
\* for maintenance is announced to everybody.
Announced ==
  \/ Stored' \subseteq Stored /\ UNCHANGED shard_count
  \/ ~enabled
  \/ work' /\ current' = {}

\* A write that leaves more than it found has taken a ticket.
LEMMA WriteKeysAnnounced ==
  ASSUME Base, Data, NEW t \in Threads, WriteKeys(t)
  PROVE  Announced
<1>0. /\ CallsKept /\ CountsKept /\ DataTypes /\ CallFits(pc[t], call[t], frame[t])
      /\ pc[t] \in {"active", "previous"} /\ pc[t] \in InHand /\ ~ReadOnly(t)
      /\ UNCHANGED shard_count
  BY DEF Base, CallsKept, Data, InHand, WriteKeys
<1>1. /\ call[t] \in CallsMade /\ call[t].op \in KeyOps \cup BatchOps
      /\ call[t].op \notin {"get", "batch_get", "txn"}
  BY <1>0, HandHasKey DEF CallFits, ReadOnly, NoCall, KeyOps, BatchOps
<1>. DEFINE K == frame[t].part
<1>2. K \in SUBSET Keys
  BY <1>0, HandHasKey
<1>3. Seen(t) = Contents
  BY <1>0, SeenContents
<1>4. Contents' = [k \in Keys |-> IF k \in K THEN Method(call[t], Contents[k]).after
                                  ELSE Contents[k]]
  BY DataWriteKeys
<1>5. CASE \E k \in K : Method(call[t], Contents[k]).ticket
  <2>1. mark_pending
    BY <1>3, <1>5 DEF WriteKeys
  <2>. QED
    BY <2>1 DEF mark_pending, Announced
<1>6. CASE \A k \in K : ~Method(call[t], Contents[k]).ticket
  <2>1. ASSUME NEW k \in K PROVE Method(call[t], Contents[k]).after \in {Contents[k], Nil}
    <3>1. Contents[k] \in OptVal
      BY <1>0, <1>2, ContentsAt
    <3>2. ~Method(call[t], Contents[k]).inserts
      BY <1>1, <1>6, <3>1, MethodFits
    <3>. QED
      BY <1>1, <3>1, <3>2, MethodFits
  <2>2. \A k \in Keys : Contents'[k] \in {Contents[k], Nil}
    BY <1>4, <2>1
  <2>3. Stored' \subseteq Stored
    BY <2>2 DEF Stored
  <2>. QED
    BY <1>0, <2>3 DEF Announced
<1>. QED
  BY <1>5, <1>6

\* So has a transaction.
LEMMA CommitAnnounced ==
  ASSUME Base, Data, NEW t \in Threads, Commit(t)
  PROVE  Announced
<1>0. /\ CallFits(pc[t], call[t], frame[t]) /\ pc[t] = "guards" /\ ~ReadOnly(t)
      /\ UNCHANGED shard_count
  BY DEF Base, CallsKept, Commit
<1>1. /\ call[t] \in CallsMade /\ call[t].op = "txn" /\ frame[t].left \in SUBSET Keys
  <2>1. call[t].op = "txn"
    BY <1>0 DEF CallFits, ReadOnly
  <2>. QED
    BY <1>0, <2>1 DEF CallFits, NoCall
<1>2. PICK steps : steps = call[t].steps
  OBVIOUS
<1>3. steps \in Seq(TxnSteps)
  BY <1>1, <1>2, ArgumentsTyped
<1>4. CASE \E n \in DOMAIN steps : Changes(steps, n)
  <2>1. mark_pending
    BY <1>2, <1>4 DEF Commit
  <2>. QED
    BY <2>1 DEF mark_pending, Announced
<1>5. CASE \A n \in DOMAIN steps : ~Changes(steps, n)
  <2>1. \A n \in DOMAIN steps :
          /\ steps[n].op # "write"
          /\ steps[n].op = "remove" => AfterSteps(steps, n - 1, Contents)[steps[n].key] = Nil
    BY <1>5 DEF Changes
  <2>2. \A k \in Keys : AfterSteps(steps, Len(steps), Contents)[k] = Contents[k]
    BY <1>3, <2>1, NothingChanges
  <2>3. Contents' = [k \in Keys |->
              IF k \in frame[t].left THEN AfterSteps(steps, Len(steps), Contents)[k]
              ELSE Contents[k]]
    BY <1>2, DataCommit
  <2>4. \A k \in Keys : Contents'[k] = Contents[k]
    BY <2>2, <2>3
  <2>5. Stored' = Stored
    BY <2>4 DEF Stored
  <2>. QED
    BY <1>0, <2>5 DEF Announced
<1>. QED
  BY <1>4, <1>5

\* Every step that makes the map grow, or moves its entries elsewhere, announces it.
LEMMA GrowthAnnounced ==
  ASSUME Base, Shapes, Data, NEW t \in Threads, Step(t)
  PROVE  Announced
<1>. DEFINE Fewer == \A k \in Keys : Contents'[k] \in {Contents[k], Nil}
<1>1. Fewer /\ UNCHANGED shard_count => Announced
  BY DEF Announced, Stored
<1>2. Contents' = Contents => Fewer
  OBVIOUS
<1>3. (\E gone : Contents' = [k \in Keys |-> IF k \in gone THEN Nil ELSE Contents[k]]) => Fewer
  OBVIOUS
<1>. HIDE DEF Fewer
<1>4. CASE ~Changing(t)
  <2>1. Quiet
    BY <1>4, QuietSteps
  <2>2. Contents' = Contents /\ UNCHANGED shard_count
    BY <2>1, QuietSteady DEF Quiet, layout
  <2>. QED
    BY <1>1, <1>2, <2>2
<1>5. InitSlot(t) \/ TxnInit(t) => Announced
  BY <1>1, <1>2, DataInitSlot DEF InitSlot, TxnInit
<1>6. WriteKeys(t) => Announced
  BY WriteKeysAnnounced
<1>7. Commit(t) => Announced
  BY CommitAnnounced
<1>8. Sweep(t) => Announced
  BY DEF Sweep, mark_pending, Announced
<1>9. Visit(t) => Announced
  BY <1>1, <1>3, DataVisit DEF Visit
<1>10. start_rebalance_online(t) => Announced
  BY DEF start_rebalance_online, mark_pending, Announced
<1>11. rebalance_to(t) => Announced
  BY DEF rebalance_to, mark_pending, Announced
<1>12. LoadBatch(t) => Announced
  BY <1>1, <1>2, DataLoadBatch DEF LoadBatch
<1>13. MoveEntry(t) => Announced
  BY <1>1, <1>2, DataMoveEntry DEF MoveEntry
<1>14. SourceLeft(t) => Announced
  BY <1>1, <1>2, DataSourceLeft DEF SourceLeft
<1>15. SourceDrained(t) => Announced
  BY <1>1, <1>2, DataSourceDrained DEF SourceDrained
<1>16. Repair(t) \/ EvictGlobally(t) \/ TrimShards(t) => Announced
  <2>1. Repair(t) \/ EvictGlobally(t) \/ TrimShards(t) => UNCHANGED shard_count
    BY DEF Repair, EvictGlobally, TrimShards, layout
  <2>. QED
    BY <1>1, <1>3, <2>1, DataMaintained
<1>. QED
  BY <1>4, <1>5, <1>6, <1>7, <1>8, <1>9, <1>10, <1>11, <1>12, <1>13, <1>14, <1>15, <1>16
  DEF Changing

\* The steps of maintenance.
Surveys(t) ==
  \/ Enqueue(t) \/ Maintain(t) \/ Glance(t) \/ ExclusivePass(t) \/ Repair(t) \/ EvictGlobally(t)
  \/ SharePass(t) \/ PassSlots(t) \/ Scan(t) \/ PassLock(t) \/ TrimShards(t)

Watched == {"share", "repair"} \cup Surveying

\* No other step forgets that maintenance is due, or takes note of a generation, or is at an
\* await where something has to be known of the shards.
LEMMA OthersMind ==
  ASSUME Base, NEW t \in Threads, Step(t), ~Surveys(t)
  PROVE  (dirty => dirty') /\ (work => work') /\ current' \subseteq current /\ pc'[t] \notin Watched
<1>. DEFINE Minds == /\ (dirty => dirty') /\ (work => work') /\ current' \subseteq current
                     /\ pc'[t] \notin Watched
<1>0. t \in DOMAIN pc /\ t \in DOMAIN frame /\ CallsKept /\ CallFits(pc[t], call[t], frame[t])
  BY DEF Base, CallsKept
<1>. USE <1>0 DEF engine, Watched, Surveying
<1>a. ASSUME NEW old, pc[t] \in InHand, Done(t, old) PROVE pc'[t] \notin Watched
  BY <1>a, DoneMoves
<1>b. ASSUME NEW l, l \notin Watched, Goto(t, l) PROVE pc'[t] \notin Watched
  BY <1>b DEF Goto
<1>1. ASSUME NEW c \in Mixes[config.mix], Invoke(t, c) PROVE Minds
  <2>1. c \in CallsMade
    BY ScenariosAssumption DEF Base, CountsKept
  <2>2. FirstAwait(c) \in {"route", "gate", "cached", "exclusive", "rebalance", "maintain"}
    BY <2>1, CallsTyped DEF FirstAwait, KeyOps, BatchOps, LayoutOps
  <2>. QED
    BY <1>0, <1>1, <2>2 DEF Invoke, Goes, Goto, mark_pending
<1>2. Return(t) => Minds
  BY DEF Return, Goes, Goto
<1>3. Drop(t) => Minds
  <2>1. Drop(t) => (dirty => dirty') /\ UNCHANGED work /\ current' = current \ {t}
    BY Zenon DEF Drop, MutationTicketDrop
  <2>. QED
    BY <2>1 DEF Drop, Goes, Goto
<1>4. Route(t) => Minds
  BY DEF Route, Goes, Goto
<1>5. FindSlot(t) => Minds
  BY <1>a, <1>b DEF FindSlot, InHand
<1>6. InitSlot(t) => Minds
  BY DEF InitSlot, Goto
<1>7. ReadActive(t) => Minds
  BY <1>a, <1>b DEF ReadActive, InHand
<1>8. ReadPrevious(t) => Minds
  BY <1>a DEF ReadPrevious, InHand
<1>9. LockActive(t) => Minds
  BY DEF LockActive, Goto
<1>10. WriteKeys(t) => Minds
  <2>0. WriteKeys(t) => UNCHANGED dirty /\ \E b : IF b THEN mark_pending
                                                 ELSE UNCHANGED <<work, current>>
    BY Zenon DEF WriteKeys
  <2>1. WriteKeys(t) => UNCHANGED dirty /\ (work => work') /\ current' \subseteq current
    BY <2>0 DEF mark_pending
  <2>2. WriteKeys(t) => pc[t] \in InHand /\ \E old : Done(t, old)
    BY Zenon DEF WriteKeys, InHand
  <2>. QED
    BY <1>a, <2>1, <2>2
<1>11. CachedSnapshot(t) => Minds
  BY DEF CachedSnapshot, Goes, Goto
<1>12. BuilderGate(t) => Minds
  BY DEF BuilderGate, Goes, Goto
<1>13. PinRouting(t) => Minds
  BY DEF PinRouting, Goto
<1>14. PinSlots(t) => Minds
  BY DEF PinSlots, Collect, Goes, Goto
<1>15. NextGuard(t) => Minds
  BY DEF NextGuard
<1>16. CollectShards(t) => Minds
  BY DEF CollectShards, Collect, Goes, Goto
<1>17. FillCache(t) => Minds
  BY DEF FillCache, Goto
<1>18. TxnSlot(t) => Minds
  BY DEF TxnSlot, Resolved, Goto, Goes
<1>19. TxnInit(t) => Minds
  BY DEF TxnInit, Resolved, Goes, Goto
<1>20. Commit(t) => Minds
  BY DEF Commit, mark_pending, Goes, Goto
<1>21. Exclusive(t) => Minds
  BY DEF Exclusive, Goes, mark_pending, Goto
<1>22. Sweep(t) => Minds
  BY DEF Sweep, mark_pending, Goes, Goto
<1>23. Visit(t) => Minds
  BY DEF Visit
<1>24. Visited(t) => Minds
  BY DEF Visited, Goes, Goto
<1>25. RebalanceLock(t) => Minds
  BY DEF RebalanceLock, Goto
<1>26. ExclusiveRouting(t) => Minds
  <2>1. ExclusiveRouting(t) => UNCHANGED <<dirty, work, current>>
    BY DEF ExclusiveRouting
  <2>. QED
    BY <2>1 DEF ExclusiveRouting, Goto, LayoutOps
<1>27. start_rebalance_online(t) => Minds
  BY DEF start_rebalance_online, mark_pending, Goto
<1>28. rebalance_to(t) => Minds
  BY DEF rebalance_to, mark_pending, Goto
<1>29. LoadBatch(t) => Minds
  <2>1. LoadBatch(t) => UNCHANGED <<dirty, work, current>>
    BY DEF LoadBatch
  <2>2. LoadBatch(t) => Goto(t, "drained") \/ Goto(t, "move")
    BY DEF LoadBatch, Pops, Goes
  <2>. QED
    BY <2>1, <2>2 DEF Goto
<1>30. MoveEntry(t) => Minds
  BY DEF MoveEntry, Goes, Goto
<1>31. SourceLeft(t) => Minds
  <2>1. SourceLeft(t) => UNCHANGED <<dirty, work, current>>
    BY DEF SourceLeft
  <2>2. SourceLeft(t) => Goto(t, "return") \/ Goto(t, "move")
    BY DEF SourceLeft, Pops, BatchEnds, Goes
  <2>. QED
    BY <2>1, <2>2 DEF Goto
<1>32. SourceDrained(t) => Minds
  BY DEF SourceDrained, BatchEnds, Goes, Goto
<1>. QED
  BY <1>1, <1>2, <1>3, <1>4, <1>5, <1>6, <1>7, <1>8, <1>9, <1>10, <1>11, <1>12, <1>13,
     <1>14, <1>15, <1>16, <1>17, <1>18, <1>19, <1>20, <1>21, <1>22, <1>23, <1>24, <1>25,
     <1>26, <1>27, <1>28, <1>29, <1>30, <1>31, <1>32
  DEF Step, KeyStep, BulkStep, MigrationStep, EvictionStep, Surveys

\* A step of maintenance takes note of a generation for nobody else; outside the map it
\* forgets nothing as long as metadata is suspect.
LEMMA SurveysMind ==
  ASSUME NEW t \in Threads, Surveys(t)
  PROVE  /\ current' \subseteq current \cup {t}
         /\ pc[t] \notin Sharing \cup Alone /\ dirty => dirty' /\ (work => work')
<1>. DEFINE Minds == /\ current' \subseteq current \cup {t}
                     /\ pc[t] \notin Sharing \cup Alone /\ dirty => dirty' /\ (work => work')
<1>. USE DEF engine, Sharing, Alone
<1>1. Enqueue(t) => Minds
  BY DEF Enqueue
<1>2. Maintain(t) => Minds
  BY DEF Maintain, maintenance_generation
<1>3. Glance(t) => Minds
  BY DEF Glance, mark_pending, mark_maintained
<1>4. ExclusivePass(t) => Minds
  BY DEF ExclusivePass, PassBegins
<1>5. Repair(t) => Minds
  BY DEF Repair
<1>6. EvictGlobally(t) => Minds
  BY DEF EvictGlobally, mark_maintained
<1>7. SharePass(t) => Minds
  BY DEF SharePass, PassBegins, maintenance_generation
<1>8. PassSlots(t) => Minds
  BY DEF PassSlots
<1>9. Scan(t) => Minds
  BY DEF Scan
<1>10. PassLock(t) => Minds
  BY DEF PassLock
<1>11. TrimShards(t) => Minds
  BY DEF TrimShards, mark_maintained, maintenance_generation
<1>. QED
  BY <1>1, <1>2, <1>3, <1>4, <1>5, <1>6, <1>7, <1>8, <1>9, <1>10, <1>11 DEF Surveys

\* A shard keeps its room if nothing is stored in addition.
LEMMA RoomStays ==
  ASSUME CountsKept, NEW i \in Idx, Stored' \subseteq Stored, UNCHANGED <<config, shard_count>>,
         Roomy(i)
  PROVE  Roomy(i)'
<1>1. InShard(Stored, i)' = {k \in Stored' : shard_index(k) = i}
  BY DEF InShard, shard_index
<1>2. InShard(Stored, i) \in SUBSET Keys /\ InShard(Stored, i)' \in SUBSET InShard(Stored, i)
  BY <1>1 DEF InShard, Stored
<1>3. CASE shard_limit = Nil
  BY <1>3 DEF Roomy, Over, shard_limit
<1>4. CASE shard_limit # Nil
  <2>1. shard_limit \in Nat /\ ~Over(Cardinality(InShard(Stored, i)), shard_limit)
    BY <1>4, LimitsTyped DEF Roomy
  <2>2. ~Over(Cardinality(InShard(Stored, i)'), shard_limit)
    BY <1>2, <2>1, RoomKept
  <2>. QED
    BY <2>2 DEF Roomy, shard_limit, Over
<1>. QED
  BY <1>3, <1>4

\* What the others know of their shards stays true.
LEMMA OthersSurveyed ==
  ASSUME Base, Shapes, Data, Limits, NEW t \in Threads, Step(t), NEW u \in Threads, u # t
  PROVE  Surveyed(u)'
<1>0. CallsKept /\ CountsKept /\ Locking /\ Surveyed(u)
  BY DEF Base, Limits
<1>1. pc'[u] = pc[u] /\ frame'[u] = frame[u]
  BY <1>0, OneMoves DEF CallsKept, Only
<1>2. config' = config /\ shard_limit' = shard_limit
  BY <1>0, LayoutStays DEF shard_limit
<1>3. Held(u)' = Held(u)
  <2>1. \A l \in ShardLocks : writer'[l] = u <=> writer[l] = u
    BY OthersHold DEF Locks
  <2>. QED
    BY <2>1 DEF Held
<1>4. u \in current' => u \in current
  <2>1. current' \subseteq current \cup {t}
    BY OthersMind, SurveysMind
  <2>. QED
    BY <2>1
<1>5. pc[u] \in Surveying => previous_shard_count' = 0
  <2>. SUFFICES ASSUME pc[u] \in Surveying PROVE previous_shard_count' = 0
    OBVIOUS
  <2>1. pc[t] \notin Alone
    BY <1>0, AloneIsAlone DEF Surveying, Sharing
  <2>. QED
    BY <1>0, <2>1, LayoutStays DEF Surveyed
<1>6. ASSUME NEW i \in Idx, Roomy(i), u \in current', pc[u] \in Surveying PROVE Roomy(i)'
  <2>1. shard_limit # Nil
    BY <1>0, <1>6 DEF Surveyed
  <2>2. enabled
    BY <1>0, <2>1, LimitsTyped
  <2>3. Stored' \subseteq Stored /\ UNCHANGED shard_count
    BY <1>6, <2>2, GrowthAnnounced DEF Announced
  <2>. QED
    BY <1>0, <1>2, <1>6, <2>3, RoomStays
<1>7. pc[u] = "repair" => dirty' /\ work'
  <2>. SUFFICES ASSUME pc[u] = "repair" PROVE dirty' /\ work'
    OBVIOUS
  <2>1. pc[t] \notin Sharing \cup Alone /\ dirty /\ work
    <3>1. u # t /\ pc[u] \in Alone
      BY DEF Alone
    <3>. QED
      BY <1>0, <3>1, AloneIsAlone DEF Surveyed
  <2>. QED
    BY <2>1, OthersMind, SurveysMind
<1>. QED
  BY <1>0, <1>1, <1>2, <1>3, <1>4, <1>5, <1>6, <1>7 DEF Surveyed, Surveying

\* Without a previous generation, what is stored in a shard is what hashes there.
LEMMA ShardHolds ==
  ASSUME CountsKept, DataTypes, Homes, previous_shard_count = 0, NEW i \in Idx
  PROVE  Keyset(shards[i]) = InShard(Stored, i)
<1>1. ASSUME NEW k \in Keyset(shards[i]) PROVE k \in InShard(Stored, i)
  <2>1. k \in Keys /\ Lookup(shards[i], k) # Nil
    BY DEF Keyset
  <2>2. i = shard_index(k) /\ Contents[k] = Lookup(shards[i], k)
    BY <2>1, HomesExact
  <2>. QED
    BY <2>1, <2>2 DEF InShard, Stored
<1>2. ASSUME NEW k \in InShard(Stored, i) PROVE k \in Keyset(shards[i])
  <2>1. k \in Keys /\ Contents[k] # Nil /\ shard_index(k) = i
    BY DEF InShard, Stored
  <2>2. Lookup(shards[i], k) # Nil
    BY <2>1, ContentsAt
  <2>. QED
    BY <2>1, <2>2 DEF Keyset
<1>. QED
  BY <1>1, <1>2

\* Nothing happens to the shards.
LEMMA QuietRoom ==
  ASSUME Data, NEW t \in Threads, Quiet
  PROVE  /\ \A i \in Idx : Roomy(i)' <=> Roomy(i)
         /\ shard_limit' = shard_limit /\ (WithinLimits' <=> WithinLimits)
         /\ UNCHANGED <<config, shards, shard_count, previous_shard_count>>
<1>1. UNCHANGED <<config, shards, shard_count, previous_shard_count, total_len>>
        /\ Contents' = Contents /\ shard_limit' = shard_limit
  BY QuietSteady DEF Quiet, layout, counters, shard_limit
<1>2. Stored' = Stored /\ \A k : shard_index(k)' = shard_index(k)
  BY <1>1 DEF Stored, shard_index
<1>3. \A i \in Idx : InShard(Stored, i)' = InShard(Stored, i)
  BY <1>2 DEF InShard
<1>. QED
  BY <1>1, <1>3 DEF Roomy, WithinLimits, Over

\* A pass has all initialized shards to inspect: there is nothing in the others.
LEMMA SurveyBegins ==
  ASSUME Base, Data, Limits, NEW t \in Threads, PassSlots(t), Quiet
  PROVE  Surveyed(t)'
<1>0. /\ CountsKept /\ DataTypes /\ Homes /\ Surveyed(t) /\ pc[t] = "pass_slots"
      /\ t \in DOMAIN pc /\ t \in DOMAIN frame /\ DOMAIN frame[t] = Fields
  BY DEF Base, CallsKept, CallFits, Data, Limits, PassSlots
<1>. DEFINE all == Both(Initialized(shards), {})
<1>1. Goes(t, AfterScan(all, {}), Selected(t, all, {}))
  BY DEF PassSlots
<1>2. shard_limit # Nil /\ previous_shard_count = 0 /\ shard_limit \in Nat
  BY <1>0, LimitsTyped DEF Surveyed, Surveying
<1>3. ASSUME NEW i \in Idx PROVE Active(i) \in all \/ Roomy(i)
  <2>1. CASE shards[i] = NoShard
    <3>1. InShard(Stored, i) = {}
      BY <1>0, <1>2, <2>1, ShardHolds DEF Keyset, Lookup
    <3>. QED
      BY <1>2, <3>1, FS_EmptySet DEF Roomy, Over
  <2>2. CASE shards[i] # NoShard
    BY <2>2 DEF Both, Initialized
  <2>. QED
    BY <2>1, <2>2
<1>4. \/ all # {} /\ pc'[t] = "scan" /\ frame'[t].plan = all
      \/ all = {} /\ pc'[t] = "trim"
  <2>. HIDE DEF all
  <2>. QED
    BY <1>0, <1>1 DEF Goes, Goto, AfterScan, Selected, Fields
<1>5. \A i \in Idx : Roomy(i)' <=> Roomy(i)
  BY <1>0, QuietRoom
<1>. HIDE DEF all
<1>. QED
  BY <1>2, <1>3, <1>4, <1>5, QuietRoom DEF Surveyed, Surveying

\* A shard that is not picked has room.
LEMMA SurveyGoesOn ==
  ASSUME Base, Data, Limits, NEW t \in Threads, Scan(t), Quiet
  PROVE  Surveyed(t)'
<1>0. /\ CountsKept /\ DataTypes /\ Homes /\ Surveyed(t) /\ pc[t] = "scan"
      /\ t \in DOMAIN pc /\ t \in DOMAIN frame /\ DOMAIN frame[t] = Fields
      /\ current' = current
  BY DEF Base, CallsKept, CallFits, Data, Limits, Scan, engine
<1>. DEFINE rest == frame[t].plan \ {NextShard(t)}
            picked == frame[t].picked \cup (IF Crowded(NextShard(t)) THEN {NextShard(t)} ELSE {})
<1>1. Goes(t, AfterScan(rest, picked), Selected(t, rest, picked))
  BY DEF Scan
<1>2. shard_limit # Nil /\ previous_shard_count = 0
  BY <1>0 DEF Surveyed, Surveying
<1>3. ASSUME t \in current, NEW i \in Idx PROVE Active(i) \in rest \cup picked \/ Roomy(i)
  <2>1. Active(i) \in frame[t].plan \cup frame[t].picked \/ Roomy(i)
    BY <1>0, <1>3 DEF Surveyed
  <2>2. CASE Active(i) = NextShard(t) /\ ~Crowded(NextShard(t))
    <3>1. Home(Active(i)) = shards[i]
      BY DEF Home, Active
    <3>2. Keyset(shards[i]) = InShard(Stored, i)
      BY <1>0, <1>2, ShardHolds
    <3>. QED
      BY <2>2, <3>1, <3>2 DEF Crowded, Roomy
  <2>. QED
    BY <2>1, <2>2
<1>. HIDE DEF rest, picked
<1>4. \/ rest # {} /\ pc'[t] = "scan" /\ frame'[t].plan = rest /\ frame'[t].picked = picked
      \/ rest = {} /\ picked # {} /\ pc'[t] = "pass_lock" /\ frame'[t].plan = picked
      \/ rest = {} /\ picked = {} /\ pc'[t] = "trim"
  BY <1>0, <1>1 DEF Goes, Goto, AfterScan, Selected, Fields
<1>5. \A i \in Idx : Roomy(i)' <=> Roomy(i)
  BY <1>0, QuietRoom
<1>. QED
  BY <1>0, <1>2, <1>3, <1>4, <1>5, QuietRoom DEF Surveyed, Surveying

\* A shard that was picked gets locked.
LEMMA SurveyLocks ==
  ASSUME Base, Data, Limits, NEW t \in Threads, PassLock(t), Quiet
  PROVE  Surveyed(t)'
<1>0. /\ CallsKept /\ CountsKept /\ Falling /\ LockTypes /\ WritersExclude
      /\ Surveyed(t) /\ pc[t] = "pass_lock"
      /\ t \in DOMAIN pc /\ t \in DOMAIN frame /\ DOMAIN frame[t] = Fields
      /\ current' = current /\ Acquire(t, {})
  BY DEF Base, CallsKept, CallFits, Locking, Limits, PassLock, engine
<1>. DEFINE rest == frame[t].plan \ {NextShard(t)}
<1>1. Goes(t, IF rest = {} THEN "trim" ELSE "pass_lock", [frame[t] EXCEPT !.plan = rest])
  BY DEF PassLock
<1>2. shard_limit # Nil /\ previous_shard_count = 0
  BY <1>0 DEF Surveyed, Surveying
<1>3. Wanted(t) = <<NextShard(t), "write">> /\ NextShard(t) \in ShardLocks
        /\ ShardLocks \subseteq Locks
  BY <1>0, WantedAt DEF Planned, Locks
<1>4. Took(t, {}, {NextShard(t)}, {})
  BY <1>0, <1>3, AcquiredWrite
<1>5. Held(t) \cup {NextShard(t)} \subseteq Held(t)'
  BY <1>3, <1>4 DEF Took, Held
<1>6. ASSUME t \in current, NEW i \in Idx PROVE Active(i) \in rest \cup Held(t)' \/ Roomy(i)
  BY <1>0, <1>5, <1>6 DEF Surveyed
<1>. HIDE DEF rest
<1>7. \/ pc'[t] = "pass_lock" /\ frame'[t].plan = rest
      \/ rest = {} /\ pc'[t] = "trim"
  BY <1>0, <1>1 DEF Goes, Goto, Fields
<1>8. \A i \in Idx : Roomy(i)' <=> Roomy(i)
  BY QuietRoom
<1>. QED
  BY <1>0, <1>2, <1>6, <1>7, <1>8, QuietRoom DEF Surveyed, Surveying

\* What a task knows of the shards after its own step.
LEMMA OwnSurveyed ==
  ASSUME Base, Shapes, Data, Limits, NEW t \in Threads, Step(t)
  PROVE  Surveyed(t)'
<1>0. /\ Surveyed(t) /\ t \in DOMAIN pc /\ CountsKept
  BY DEF Base, CallsKept, Limits
<1>1. pc'[t] \notin Watched => Surveyed(t)'
  BY DEF Surveyed, Watched, Surveying
<1>2. CASE ~Surveys(t)
  BY <1>1, <1>2, OthersMind
<1>3. ASSUME Enqueue(t) PROVE Surveyed(t)'
  <2>1. Quiet /\ UNCHANGED <<pc, frame, writer, current, dirty, work>>
    BY <1>3 DEF Enqueue, Quiet, engine
  <2>2. Held(t)' = Held(t)
    BY <2>1 DEF Held
  <2>. QED
    BY <1>0, <2>1, <2>2, QuietRoom DEF Surveyed
<1>4. ASSUME Maintain(t) PROVE Surveyed(t)'
  <2>1. Quiet
    BY <1>4 DEF Maintain, Quiet
  <2>2. \/ pc'[t] \in {"return", "glance"}
        \/ pc'[t] = "share" /\ shard_limit # Nil
    BY <1>0, <1>4 DEF Maintain, Goto
  <2>. QED
    BY <2>1, <2>2, QuietRoom DEF Surveyed, Surveying
<1>5. Glance(t) => pc'[t] \notin Watched
  BY <1>0 DEF Glance, Goto, Watched, Surveying
<1>6. ASSUME ExclusivePass(t) PROVE Surveyed(t)'
  BY <1>0, <1>6 DEF ExclusivePass, PassBegins, Goto, Surveyed, Surveying
<1>7. Repair(t) \/ EvictGlobally(t) => pc'[t] \notin Watched
  BY <1>0 DEF Repair, EvictGlobally, Goto, Watched, Surveying
<1>8. ASSUME SharePass(t) PROVE Surveyed(t)'
  <2>1. Quiet
    BY <1>8 DEF SharePass, Quiet
  <2>2. \/ pc'[t] = "glance"
        \/ pc'[t] = "pass_slots" /\ previous_shard_count = 0 /\ shard_limit # Nil
    BY <1>0, <1>8 DEF SharePass, GivesUp, Goto, Surveyed
  <2>. QED
    BY <2>1, <2>2, QuietRoom DEF Surveyed, Surveying
<1>9. ASSUME PassSlots(t) \/ Scan(t) \/ PassLock(t) PROVE Surveyed(t)'
  <2>1. Quiet
    BY <1>9 DEF PassSlots, Scan, PassLock, Quiet, engine
  <2>. QED
    BY <1>9, <2>1, SurveyBegins, SurveyGoesOn, SurveyLocks
<1>10. TrimShards(t) => pc'[t] \notin Watched
  BY <1>0 DEF TrimShards, GivesUp, Goto, Watched, Surveying
<1>. QED
  BY <1>1, <1>2, <1>3, <1>4, <1>5, <1>6, <1>7, <1>8, <1>9, <1>10 DEF Surveys

\* A call evicts to no more than the limit of the map.
LEMMA EntryLimit ==
  ASSUME Base, NEW t \in Threads, NEW n \in Nat, ~Over(n, entry_limit(t))
  PROVE  ~Over(n, config.max_entries)
<1>1. target(t) \in Nat \cup {Nil}
  <2>1. call[t] \in CallsMade \cup {NoCall}
    BY DEF Base, CallsKept, CallFits
  <2>2. ASSUME call[t].op = "evict" PROVE call[t].target \in Nat
    <3>1. call[t] \in OtherCalls
      <4>1. call[t] \notin Calls
        BY <2>2, CallsAssumption
        DEF AllCalls, KeyCalls, KeyOps, TxnCalls, SnapCalls, SweepCalls
      <4>. QED
        BY <2>1, <2>2, <4>1 DEF CallsMade, NoCall
    <3>. QED
      BY <2>2, <3>1, OtherCallsAssumption DEF BatchCalls, BatchOps, LayoutCalls, EvictCalls
  <2>. QED
    BY <2>2 DEF target
<1>2. config.max_entries \in Nat \cup {Nil}
  BY LimitsTyped DEF Base
<1>. QED
  BY <1>1, <1>2 DEF entry_limit, Limit, Over

\* What the map knows after the entries in K are evicted.
LEMMA EvictedKnown ==
  ASSUME Base, Shapes, Data, NEW t \in Threads, pc[t] \in {"evict", "trim"},
         NEW K \in SUBSET meta, Evicted(K),
         UNCHANGED <<config, shard_count, previous_shard_count, migrating, moved_shards>>
  PROVE  /\ meta = Stored /\ total_len' = total_len - Cardinality(K) /\ total_len' \in Nat
         /\ Stored' = Stored \ K
         /\ \A i \in Idx : InShard(Stored, i)' = InShard(meta \ K, i)
         /\ shard_limit' = shard_limit
<1>0. CountsKept /\ DataTypes /\ Homes /\ Accounts /\ ShapeOf(t)
  BY DEF Base, Data, Shapes
<1>1. meta = Stored
  BY <1>0 DEF ShapeOf, Maintaining, Accounts
<1>2. Steady(t) /\ Contents' = [k \in Keys |-> IF k \in K THEN Nil ELSE Contents[k]]
  BY <1>1, RemovalSteady DEF Evicted
<1>3. Stored' = Stored \ K
  BY <1>1, <1>2 DEF Stored
<1>4. total_len' \in Nat
  <2>1. Stored' \in SUBSET Keys
    BY <1>3 DEF Stored
  <2>. QED
    BY <1>2, <2>1, KeysFinite DEF Steady, Accounts
<1>5. \A i \in Idx : InShard(Stored, i)' = InShard(meta \ K, i)
  BY <1>1, <1>3 DEF InShard, shard_index
<1>. QED
  BY <1>1, <1>3, <1>4, <1>5 DEF Evicted, shard_limit

\* A global pass that trusts its metadata leaves the map within its limits.
LEMMA GlobalPassEnforces ==
  ASSUME Base, Shapes, Data, NEW t \in Threads, EvictGlobally(t)
  PROVE  WithinLimits' \/ dirty'
<1>1. CASE dirty
  BY <1>1 DEF EvictGlobally
<1>2. CASE ~dirty
  <2>1. PICK K \in SUBSET meta : Needed(t, K) /\ Evicted(K)
    BY <1>2 DEF EvictGlobally
  <2>2. /\ total_len' = total_len - Cardinality(K) /\ total_len' \in Nat
        /\ \A i \in Idx : InShard(Stored, i)' = InShard(meta \ K, i)
        /\ shard_limit' = shard_limit /\ config' = config
    BY <2>1, EvictedKnown DEF EvictGlobally
  <2>3. ~Excess(t, K)
    BY <2>1 DEF Needed
  <2>4. ~Over(total_len', config.max_entries)
    BY <2>2, <2>3, EntryLimit DEF Excess
  <2>5. \A i \in Idx : ~Over(Cardinality(InShard(meta \ K, i)), shard_limit)
    BY <2>3 DEF Excess
  <2>. QED
    BY <2>2, <2>4, <2>5 DEF WithinLimits, Over
<1>. QED
  BY <1>1, <1>2

\* A pass over the shards whose generation is the latest leaves them all with room: those it
\* holds lose what they have too much, the others had room.
LEMMA ShardPassEnforces ==
  ASSUME Base, Shapes, Data, Limits, NEW t \in Threads, TrimShards(t)
  PROVE  WithinLimits' \/ dirty' \/ work'
<1>0. /\ CountsKept /\ DataTypes /\ Homes /\ Surveyed(t) /\ pc[t] = "trim"
      /\ UNCHANGED <<config, shard_count, previous_shard_count, migrating, moved_shards>>
  BY DEF Base, Data, Limits, TrimShards
<1>1. CASE dirty
  <2>1. dirty'
    BY <1>1, Zenon DEF TrimShards, MutationTicketDrop
  <2>. QED
    BY <2>1
<1>2. CASE ~dirty /\ work /\ t \notin current
  BY <1>2 DEF TrimShards, mark_maintained
<1>3. CASE ~dirty /\ (~work \/ t \in current)
  <2>1. /\ shard_limit \in Nat /\ shard_limit # Nil /\ previous_shard_count = 0
        /\ config.max_entries = Nil
    BY <1>0, LimitsTyped DEF Surveyed, Surveying
  <2>2. PICK K \in SUBSET meta : Trims(t, K) /\ Evicted(K)
    BY <1>3 DEF TrimShards
  <2>3. /\ meta = Stored /\ shard_limit' = shard_limit
        /\ \A i \in Idx : InShard(Stored, i)' = InShard(meta \ K, i)
    BY <1>0, <2>2, EvictedKnown
  <2>4. ASSUME NEW i \in Idx PROVE ~Over(Cardinality(InShard(meta \ K, i)), shard_limit)
    <3>1. PICK full \in SUBSET Keys : full = InShard(Stored, i)
      BY DEF InShard, Stored
    <3>2. InShard(meta \ K, i) = full \ K
      BY <2>3, <3>1 DEF InShard
    <3>3. /\ Cardinality(full) \in Nat /\ Cardinality(full \ K) \in Nat
          /\ Cardinality(full \cap K) \in Nat
          /\ Cardinality(full \ K) = Cardinality(full) - Cardinality(full \cap K)
      BY KeysFinite, FS_Difference
    <3>. DEFINE Fitting == Cardinality(full \ K) <= shard_limit
    <3>a. ASSUME Fitting PROVE ~Over(Cardinality(InShard(meta \ K, i)), shard_limit)
      <4>1. PICK left \in Nat, most \in Nat : left = Cardinality(full \ K) /\ most = shard_limit
        BY <2>1, <3>3
      <4>2. ~(left > most)
        BY <3>a, <4>1
      <4>. QED
        BY <3>2, <4>1, <4>2 DEF Over
    <3>4. ASSUME Active(i) \in Held(t) PROVE Fitting
      <4>1. Home(Active(i)) = shards[i] /\ Keyset(shards[i]) = full
        BY <1>0, <2>1, <3>1, ShardHolds DEF Home, Active
      <4>2. Cardinality(full \cap K) =
              IF Over(Cardinality(full), shard_limit) THEN Cardinality(full) - shard_limit ELSE 0
        BY <2>2, <3>4, <4>1 DEF Trims, Crowded
      <4>. QED
        BY <2>1, <3>3, <4>2 DEF Over
    <3>5. ASSUME Roomy(i) PROVE Fitting
      <4>1. ~(Cardinality(full) > shard_limit)
        BY <2>1, <3>1, <3>5 DEF Roomy, Over
      <4>. QED
        BY <2>1, <3>3, <4>1
    <3>6. t \notin current => Roomy(i)
      BY <1>3 DEF Limits, WithinLimits, Roomy
    <3>. HIDE DEF Fitting
    <3>. QED
      BY <1>0, <3>a, <3>4, <3>5, <3>6 DEF Surveyed
  <2>5. ~Over(total_len', config'.max_entries)
    BY <1>0, <2>1 DEF Over
  <2>. QED
    BY <2>3, <2>4, <2>5 DEF WithinLimits, Over
<1>. QED
  BY <1>1, <1>2, <1>3

\* A map within its limits stays so, or knows that maintenance is due.
LEMMA LimitsStep ==
  ASSUME Base, Shapes, Data, WithinLimits, NEW t \in Threads, Step(t)
  PROVE  WithinLimits' \/ work'
<1>0. /\ CountsKept /\ Accounts /\ config' = config /\ shard_limit' = shard_limit
      /\ total_len' = Cardinality(Stored')
  <2>1. config' = config
    BY LayoutStays DEF Base
  <2>2. Data'
    BY DataNext
  <2>. QED
    BY <2>1, <2>2 DEF Base, Data, Accounts, shard_limit
<1>1. CASE Stored' \subseteq Stored /\ UNCHANGED shard_count
  <2>1. \A i \in Idx : Roomy(i) => Roomy(i)'
    BY <1>0, <1>1, RoomStays
  <2>2. ~Over(total_len', config.max_entries)
    <3>1. Stored \in SUBSET Keys /\ Stored' \in SUBSET Stored
      BY <1>1 DEF Stored
    <3>2. /\ Cardinality(Stored') <= Cardinality(Stored)
          /\ Cardinality(Stored') \in Nat /\ Cardinality(Stored) \in Nat
      BY <3>1, KeysFinite, FS_Subset
    <3>3. config.max_entries \in Nat \cup {Nil} /\ ~Over(Cardinality(Stored), config.max_entries)
      BY <1>0, LimitsTyped DEF WithinLimits, Accounts
    <3>. QED
      BY <1>0, <3>2, <3>3 DEF Over
  <2>. QED
    BY <1>0, <2>1, <2>2 DEF WithinLimits, Roomy
<1>2. CASE ~enabled
  BY <1>0, <1>2, LimitsTyped DEF WithinLimits, Over
<1>. QED
  BY <1>1, <1>2, GrowthAnnounced DEF Announced

\* Every step keeps the need for maintenance known.
LEMMA LimitsNext ==
  ASSUME Base, Shapes, Data, Limits, NEW t \in Threads, Step(t)
  PROVE  Limits'
<1>1. \A u \in Threads : Surveyed(u)'
  BY OwnSurveyed, OthersSurveyed
<1>2. WithinLimits \/ dirty \/ work
  BY DEF Limits
<1>. DEFINE Known == WithinLimits' \/ dirty' \/ work'
<1>3. ASSUME ~Surveys(t) PROVE Known
  BY <1>2, <1>3, OthersMind, LimitsStep
<1>4. ASSUME Quiet, dirty => dirty', work => work' PROVE Known
  BY <1>2, <1>4, QuietRoom
<1>. HIDE DEF Known
<1>5. Enqueue(t) \/ Maintain(t) \/ PassSlots(t) \/ Scan(t) \/ PassLock(t) => Known
  BY <1>4 DEF Enqueue, Maintain, PassSlots, Scan, PassLock, Quiet, engine, Known
<1>6. ExclusivePass(t) => Known
  BY DEF ExclusivePass, PassBegins, Known
<1>7. SharePass(t) => Known
  <2>1. SharePass(t) => Quiet /\ (dirty => dirty') /\ (work => work')
    BY DEF SharePass, PassBegins, Quiet
  <2>. QED
    BY <1>4, <2>1 DEF Known
<1>8. Repair(t) => Known
  BY DEF Repair, Limits, Surveyed, Known
<1>9. ASSUME Glance(t) PROVE Known
  <2>1. Quiet
    BY <1>9 DEF Glance, Quiet
  <2>2. CASE ~dirty /\ shard_limit = Nil /\ ~Over(total_len, entry_limit(t))
    <3>1. total_len \in Nat
      BY KeysFinite DEF Data, Accounts, Stored
    <3>2. WithinLimits
      BY <2>2, <3>1, EntryLimit DEF WithinLimits, Over
    <3>. QED
      BY <2>1, <3>2, QuietRoom DEF Known
  <2>3. CASE ~(~dirty /\ shard_limit = Nil /\ ~Over(total_len, entry_limit(t)))
    <3>1. mark_pending /\ UNCHANGED dirty
      BY <1>9, <2>3 DEF Glance
    <3>2. (dirty => dirty') /\ (work => work')
      BY <3>1 DEF mark_pending
    <3>. QED
      BY <1>4, <2>1, <3>2 DEF Known
  <2>. QED
    BY <2>2, <2>3
<1>10. EvictGlobally(t) => Known
  BY GlobalPassEnforces DEF Known
<1>11. TrimShards(t) => Known
  BY ShardPassEnforces DEF Known
<1>12. Known
  BY <1>3, <1>5, <1>6, <1>7, <1>8, <1>9, <1>10, <1>11 DEF Surveys, Known
<1>. QED
  BY <1>1, <1>12 DEF Limits, Known

\* A map that nobody is in starts within its limits.
LEMMA LimitsInit ==
  Init => Limits
<1>. SUFFICES ASSUME Init PROVE Limits
  OBVIOUS
<1>0. CountsKept /\ DataTypes /\ Homes /\ total_len = Cardinality(Stored)
  BY CallsInit, DataInit DEF Data, Accounts
<1>1. PICK s \in Scenarios :
        /\ config = s.config /\ shard_count = s.shard_count
        /\ shards = s.shards /\ previous_shards = s.previous_shards
        /\ pc = [t \in Threads |-> "idle"]
  BY DEF Init
<1>. DEFINE stored == {k \in Keys : \E i \in Idx :
                         k \in Keyset(s.shards[i]) \cup Keyset(s.previous_shards[i])}
<1>2. /\ ~Over(Cardinality(stored), s.config.max_entries)
      /\ \A i \in Idx : ~Over(Cardinality({k \in stored : Hash[k] % s.shard_count = i}),
                              s.config.max_items_per_shard)
  BY ScenariosAssumption, Zenon
<1>3. ASSUME NEW k \in Keys PROVE k \in stored <=> k \in Stored
  <2>1. ASSUME k \in stored PROVE k \in Stored
    <3>1. PICK i \in Idx : Lookup(shards[i], k) # Nil \/ Lookup(previous_shards[i], k) # Nil
      BY <1>1, <2>1 DEF Keyset
    <3>. QED
      BY <1>0, <3>1, HomesExact, ContentsAt
  <2>2. ASSUME k \in Stored PROVE k \in stored
    <3>1. \E i \in Idx : Lookup(shards[i], k) # Nil \/ Lookup(previous_shards[i], k) # Nil
      BY <1>0, <2>2, ContentsAt
    <3>. QED
      BY <1>1, <3>1 DEF Keyset
  <2>. QED
    BY <2>1, <2>2
<1>4. stored = Stored
  BY <1>3 DEF Stored
<1>. HIDE DEF stored
<1>5. \A i \in Idx : InShard(stored, i) = {k \in stored : Hash[k] % s.shard_count = i}
  BY <1>1 DEF InShard, shard_index
<1>6. WithinLimits
  BY <1>0, <1>1, <1>2, <1>4, <1>5 DEF WithinLimits, shard_limit
<1>7. \A t \in Threads : Surveyed(t)
  BY <1>1 DEF Surveyed, Surveying
<1>. QED
  BY <1>6, <1>7 DEF Limits

\* What is due stays due if nothing happens.
LEMMA LimitsStutters ==
  ASSUME Limits, UNCHANGED vars
  PROVE  Limits'
<1>. USE DEF vars, layout, counters, engine, locks
<1>1. Stored' = Stored /\ \A K, i : InShard(K, i)' = InShard(K, i)
  BY DEF Stored, Contents, InActive, previous_shard, shard_index, previous_index, InShard
<1>2. shard_limit' = shard_limit /\ \A i : Roomy(i)' = Roomy(i)
  BY <1>1 DEF shard_limit, Roomy, InShard, shard_index
<1>3. WithinLimits' = WithinLimits
  BY <1>1, <1>2 DEF WithinLimits, InShard, shard_index
<1>4. ASSUME NEW t \in Threads PROVE Surveyed(t)'
  <2>1. Surveyed(t) /\ Held(t)' = Held(t)
    BY DEF Limits, Held
  <2>. QED
    BY <1>2, <2>1 DEF Surveyed
<1>. QED
  BY <1>3, <1>4 DEF Limits

\* A bounded map beyond its limits knows that maintenance is due: growth is announced by the
\* ticket that precedes it, and only a pass that found every shard within bounds, in a
\* generation that nobody has made obsolete, forgets that there is work.
THEOREM LimitsStayPending == Spec => []LimitsOrPending
<1>1. Init => Base /\ Shapes /\ Data /\ Limits
  BY CallsInit, DataInit, LimitsInit DEF Base
<1>2. Base /\ Shapes /\ Data /\ Limits /\ [Next]_vars => Base' /\ Shapes' /\ Data' /\ Limits'
  <2>. SUFFICES ASSUME Base, Shapes, Data, Limits, [Next]_vars
                PROVE  Base' /\ Shapes' /\ Data' /\ Limits'
    OBVIOUS
  <2>1. Base'
    BY BaseNext
  <2>2. CASE Next
    <3>1. PICK t \in Threads : Step(t)
      BY <2>2 DEF Next, Step
    <3>. QED
      BY <2>1, <3>1, ShapesNext, DataNext, LimitsNext
  <2>3. CASE UNCHANGED vars
    BY <2>1, <2>3, DataStutters, LimitsStutters
  <2>. QED
    BY <2>2, <2>3
<1>3. Limits => LimitsOrPending
  BY DEF Limits, LimitsOrPending
<1>. QED
  BY <1>1, <1>2, <1>3, PTL DEF Spec
=============================================================================
