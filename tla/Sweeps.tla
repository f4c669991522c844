------------------------------- MODULE Sweeps -------------------------------
(*****************************************************************************)
(* retain and clear (and drain, which removes as clear does) of              *)
(* sync_impl.rs: exclusive routing, then every shard of both generations.    *)
(*****************************************************************************)
EXTENDS Snapshots

SweepRouting(t) ==
  /\ pc[t] = "exclusive" /\ Goto(t, "sweep")
  /\ WriteLock(t, Routing)
  /\ UNCHANGED <<topology, counters, snapshot_cache, call, reply, at, cut, preimage>>

SlotOf(l) == IF l[1] = "active" THEN shards[l[2]] ELSE previous_shards[l[2]]

Present(slot) == IF slot = NoShard THEN {} ELSE {k \in Keys : slot[k] # Nil}

\* Mutant of Condemned: retain removes what it should keep.
CondemnedInverted(t, l) ==
  Present(SlotOf(l)) \cap (IF call[t].op = "retain" THEN call[t].keep ELSE Keys)

Condemned(t, l) ==
  Present(SlotOf(l)) \ (IF call[t].op = "retain" THEN call[t].keep ELSE {})

Remove(slot, gone) == [k \in Keys |-> IF k \in gone THEN Nil ELSE slot[k]]

(*****************************************************************************)
(* One removal with its record_write: clear drains a shard, retain extracts  *)
(* one entry.  Only a reader of the cache can run now, and it is served      *)
(* only before the first publication.                                        *)
(*****************************************************************************)
SweepShard(t) ==
  LET todo == {l \in ShardLocks : Condemned(t, l) # {}} IN
  /\ pc[t] = "sweep" /\ UNCHANGED pc
  /\ \E l \in todo, gone \in SUBSET Keys :
       /\ IsFirst(l, todo)
       /\ gone \subseteq Condemned(t, l)
       /\ IF call[t].op = "retain" THEN Cardinality(gone) = 1 ELSE gone = Condemned(t, l)
       /\ preimage' = [k \in Keys |-> IF k \in gone /\ preimage[k] = Clean
                                      THEN SlotOf(l)[k] ELSE preimage[k]]
       /\ IF l[1] = "active"
          THEN /\ shards' = [shards EXCEPT ![l[2]] = Remove(@, gone)]
               /\ UNCHANGED previous_shards
          ELSE /\ previous_shards' = [previous_shards EXCEPT ![l[2]] = Remove(@, gone)]
               /\ UNCHANGED shards
       /\ record_write(Cardinality(gone))
  /\ UNCHANGED <<shard_count, previous_shard_count, migrating, moved_shards,
                 snapshot_cache, locks, call, reply, at, cut>>

SweepEnd(t, r) ==
  /\ Goto(t, "return")
  /\ Unlock(t, {Routing})
  /\ preimage' = [k \in Keys |-> Clean]
  /\ Say(t, r)
  /\ UNCHANGED <<shards, shard_count, counters, snapshot_cache, call, at, cut>>

\* clear also drops the previous generation and ends the migration.
SweepFinish(t) ==
  /\ pc[t] = "sweep"
  /\ \A l \in ShardLocks : Condemned(t, l) = {}
  /\ IF call[t].op = "clear"
     THEN /\ previous_shards' = [i \in Idx |-> NoShard]
          /\ previous_shard_count' = 0
          /\ migrating' = FALSE
          /\ moved_shards' = 0
     ELSE UNCHANGED <<previous_shards, previous_shard_count, migrating, moved_shards>>
  /\ SweepEnd(t, DoneReply)

\* The predicate, or a Cow shard's Clone, panics: earlier removals stand.
SweepUnwind(t) ==
  /\ pc[t] = "sweep"
  /\ UNCHANGED <<previous_shards, previous_shard_count, migrating, moved_shards>>
  /\ SweepEnd(t, PanickedReply)

SweepStep(t) ==
  SweepRouting(t) \/ SweepShard(t) \/ SweepFinish(t) \/ SweepUnwind(t)
=============================================================================
