------------------------------ MODULE Snapshots ------------------------------
(*****************************************************************************)
(* capture_snapshot ("snapshot": iter, cow_snapshot, versioned_snapshot) and *)
(* snapshot_view ("view": keys, values) of sync_impl.rs.  A cached snapshot  *)
(* is served without any map lock when its epoch is current; otherwise one   *)
(* builder at a time pins routing and the directory, read-locks every        *)
(* initialized shard in order, and copies.                                   *)
(*****************************************************************************)
EXTENDS ShardState

SnapshotReply(epoch, items) == [tag |-> "snapshot", epoch |-> epoch, items |-> items]

\* cached_snapshot: under the cache's own lock, so one step.
\* Mutant of Hits: any cached snapshot is served.
HitsStale == snapshot_cache

Hits == {c \in snapshot_cache : c.epoch = write_epoch}

CheckCache(t) ==
  /\ pc[t] = "cached"
  /\ \/ /\ Hits = {}
        /\ Goto(t, "gate")
        /\ UNCHANGED reply
     \/ \E c \in Hits : Goto(t, "return") /\ Say(t, SnapshotReply(c.epoch, c.items))
  /\ UNCHANGED <<topology, counters, snapshot_cache, locks, call, at, cut, preimage>>

EnterGate(t) ==
  /\ pc[t] = "gate" /\ Goto(t, IF call[t].op = "view" THEN "pin" ELSE "recheck")
  /\ WriteLock(t, Gate)
  /\ UNCHANGED <<topology, counters, snapshot_cache, call, reply, at, cut, preimage>>

Recheck(t) ==
  /\ pc[t] = "recheck"
  /\ \/ /\ Hits = {}
        /\ Goto(t, "pin")
        /\ UNCHANGED <<locks, reply>>
     \/ /\ \E c \in Hits : Say(t, SnapshotReply(c.epoch, c.items))
        /\ Goto(t, "return")
        /\ Unlock(t, {Gate})
  /\ UNCHANGED <<topology, counters, snapshot_cache, call, at, cut, preimage>>

PinRouting(t) ==
  /\ pc[t] = "pin" /\ Goto(t, "pin_directory")
  /\ ReadLock(t, Routing)
  /\ UNCHANGED <<topology, counters, snapshot_cache, call, reply, at, cut, preimage>>

PinDirectory(t) ==
  /\ pc[t] = "pin_directory" /\ Goto(t, "guards")
  /\ ReadLock(t, Directory)
  /\ UNCHANGED <<topology, counters, snapshot_cache, call, reply, at, cut, preimage>>

\* The locks of the initialized shards, the slots of both directories.
Initialized ==
  {Active(i) : i \in {j \in Idx : shards[j] # NoShard}}
    \cup {Previous(i) : i \in {j \in Idx : previous_shards[j] # NoShard}}

\* The order in which several shard locks are taken.
Before(l, m) ==
  \/ l[1] = "active" /\ m[1] = "previous"
  \/ l[1] = m[1] /\ l[2] < m[2]

IsFirst(l, L) == l \in L /\ \A m \in L \ {l} : Before(l, m)

Unguarded(t) == {l \in Initialized : t \notin readers[l]}

GuardNext(t) ==
  /\ pc[t] = "guards" /\ UNCHANGED pc
  /\ \E l \in Unguarded(t) : IsFirst(l, Unguarded(t)) /\ ReadLock(t, l)
  /\ UNCHANGED <<topology, counters, snapshot_cache, call, reply, at, cut, preimage>>

LoadEpoch(t) ==
  /\ pc[t] = "guards" /\ Goto(t, "collect")
  /\ Unguarded(t) = {}
  /\ cut' = [cut EXCEPT ![t] = write_epoch]
  /\ UNCHANGED <<topology, counters, snapshot_cache, locks, call, reply, at, preimage>>

Items(slot) == IF slot = NoShard THEN {} ELSE Pairs(slot)

\* Mutant of AllItems: the previous generation is not copied.
AllItemsActive == UNION {Items(shards[i]) : i \in Idx}

AllItems == UNION {Items(shards[i]) \cup Items(previous_shards[i]) : i \in Idx}

\* Only a Cow builder clones after its guards have dropped, from shard
\* allocations that no writer touches any more: the same items.
Collect(t) ==
  /\ pc[t] = "collect" /\ Goto(t, IF call[t].op = "view" THEN "return" ELSE "cache")
  /\ Say(t, SnapshotReply(cut[t], AllItems))
  /\ Unlock(t, {Routing, Directory} \cup ShardLocks
                 \cup IF call[t].op = "view" THEN {Gate} ELSE {})
  /\ cut' = [cut EXCEPT ![t] = 0]
  /\ UNCHANGED <<topology, counters, snapshot_cache, call, at, preimage>>

\* A key's or a value's Clone panics: no snapshot, nothing cached.
SnapshotUnwind(t) ==
  /\ pc[t] = "collect" /\ Goto(t, "return")
  /\ Say(t, PanickedReply)
  /\ Unlock(t, Locks)
  /\ cut' = [cut EXCEPT ![t] = 0]
  /\ UNCHANGED <<topology, counters, snapshot_cache, call, at, preimage>>

\* Mutant of FillCache: labelled with the epoch of the publication.
FillCacheLate(t) ==
  /\ pc[t] = "cache" /\ Goto(t, "return")
  /\ snapshot_cache' = {[epoch |-> write_epoch, items |-> reply[t].items]}
  /\ Unlock(t, {Gate})
  /\ UNCHANGED <<topology, counters, call, reply, at, cut, preimage>>

FillCache(t) ==
  /\ pc[t] = "cache" /\ Goto(t, "return")
  /\ snapshot_cache' = IF Mode = "Clone" THEN snapshot_cache
                       ELSE {[epoch |-> reply[t].epoch, items |-> reply[t].items]}
  /\ Unlock(t, {Gate})
  /\ UNCHANGED <<topology, counters, call, reply, at, cut, preimage>>

SnapshotStep(t) ==
  \/ CheckCache(t) \/ EnterGate(t) \/ Recheck(t)
  \/ PinRouting(t) \/ PinDirectory(t) \/ GuardNext(t)
  \/ LoadEpoch(t) \/ Collect(t) \/ SnapshotUnwind(t) \/ FillCache(t)
=============================================================================
