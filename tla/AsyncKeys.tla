------------------------------ MODULE AsyncKeys ------------------------------
(*****************************************************************************)
(* The methods of the asynchronous map that name their keys, and batches of  *)
(* them.  frame.part is the keys in hand: one, or those of a batch that go   *)
(* to the same shard.                                                        *)
(*****************************************************************************)
EXTENDS AsyncState

(*****************************************************************************)
(* What each method does with the value it finds under the guard of its      *)
(* shard: the value it leaves, whether a ShardMutation inserted it, whether  *)
(* it took a ticket, and its answer.                                         *)
(*****************************************************************************)
Outcome(after, inserts, ticket, answer) ==
  [after |-> after, inserts |-> inserts, ticket |-> ticket, answer |-> answer]

\* Neither insert nor remove looks before it takes its ticket.
insert_inner(c, old) == Outcome(c.new, TRUE, TRUE, KeyReply(old # Nil, old))

remove_inner(old) ==
  Outcome(Nil, FALSE, config.mode # "Cow" \/ old # Nil, KeyReply(old # Nil, old))

compute_if_present(c, old) ==
  IF old = Nil THEN Outcome(Nil, FALSE, FALSE, KeyReply(FALSE, Nil))
  ELSE Outcome(c.new, c.new # Nil, TRUE, KeyReply(c.new # Nil, c.new))

get_or_insert_with(c, old) ==
  IF old # Nil THEN Outcome(old, FALSE, FALSE, KeyReply(TRUE, old))
  ELSE Outcome(c.new, TRUE, TRUE, KeyReply(TRUE, c.new))

compare_and_swap(c, old) ==
  IF old = c.exp THEN Outcome(c.new, TRUE, TRUE, KeyReply(TRUE, c.new))
  ELSE Outcome(old, FALSE, FALSE, KeyReply(FALSE, IF old = Nil THEN c.new ELSE old))

compare_and_remove(c, old) ==
  IF old = c.exp THEN Outcome(Nil, FALSE, TRUE, KeyReply(TRUE, Nil))
  ELSE Outcome(old, FALSE, FALSE, KeyReply(FALSE, Nil))

Method(c, old) ==
  CASE c.op \in {"insert", "batch_insert"} -> insert_inner(c, old)
    [] c.op \in {"remove", "batch_remove"} -> remove_inner(old)
    [] c.op = "compute"            -> compute_if_present(c, old)
    [] c.op = "get_or_insert"      -> get_or_insert_with(c, old)
    [] c.op = "cas"                -> compare_and_swap(c, old)
    [] c.op = "compare_and_remove" -> compare_and_remove(c, old)

\* A batch counts what it inserted or removed, or collects what it read.
Tally(t, part, old) ==
  LET got == frame[t].got
      found == {k \in part : old[k] # Nil} IN
  CASE call[t].op = "batch_insert" -> CountReply(got.count + Cardinality(part \ found))
    [] call[t].op = "batch_remove" -> CountReply(got.count + Cardinality(found))
    [] call[t].op = "batch_get"    -> ItemsReply(got.items \cup {<<k, old[k]>> : k \in found})
    [] call[t].op = "get" -> LET v == old[call[t].key] IN KeyReply(v # Nil, v)
    [] OTHER -> Method(call[t], old[call[t].key]).answer
-----------------------------------------------------------------------------
(*****************************************************************************)
(* The next keys.  While a migration is under way a batch goes key by key,   *)
(* otherwise shard by shard, in the order of a hash map; a transaction       *)
(* resolves its shards in ascending order before it locks any.               *)
(*****************************************************************************)
SameShard(k, K) == {j \in K : shard_index(j) = shard_index(k)}

Parts(t, K) ==
  CASE call[t].op \in BatchOps ->
         IF migrating THEN {{k} : k \in K} ELSE {SameShard(k, K) : k \in K}
    [] call[t].op = "txn" ->
         {SameShard(k, K) : k \in {j \in K : \A i \in K : shard_index(j) <= shard_index(i)}}
    [] OTHER -> {K}

\* Mutant of Route: routing is only looked at.
RouteBriefly(t) ==
  /\ pc[t] = "route"
  /\ Acquire(t, {Routing})
  /\ \E part \in Parts(t, frame[t].left) :
       Goes(t, "slots", [frame[t] EXCEPT !.part = part])
  /\ UNCHANGED <<config, layout, counters, snapshot_cache, engine, call, bounds>>

\* Routing is pinned for the whole call.
Route(t) ==
  /\ pc[t] = "route"
  /\ Acquire(t, {})
  /\ \E part \in Parts(t, frame[t].left) :
       Goes(t, "slots", [frame[t] EXCEPT !.part = part])
  /\ UNCHANGED <<config, layout, counters, snapshot_cache, engine, call, bounds>>

\* The keys in hand are done: their guards are dropped, and routing with the last of them.
Done(t, old) ==
  LET left == frame[t].left \ frame[t].part
      f == [frame[t] EXCEPT !.left = left, !.part = {}, !.got = Tally(t, frame[t].part, old)] IN
  IF left = {} THEN Goes(t, IF ReadOnly(t) THEN "return" ELSE "maintain", f)
  ELSE \E part \in Parts(t, left) : Goes(t, "slots", [f EXCEPT !.part = part])

Dropped(t) ==
  {Slots} \cup ShardLocks \cup (IF frame[t].left = frame[t].part THEN {Routing} ELSE {})

vacant(t) == shards[shard_index(KeyInHand(t))] = NoShard

\* Does the access go on to the previous generation?  A bucket of a batch does not ask.
FallsBack(t) ==
  /\ call[t].op \in BatchOps => migrating
  /\ previous_shard(KeyInHand(t)) # NoShard

\* Mutant of KeepsSlots: the directory is released before the fallback.
KeepsSlotsNot(t) == FALSE

\* A lookup keeps the directory locked while it looks into the previous generation.
KeepsSlots(t) == vacant(t) /\ ReadOnly(t) /\ FallsBack(t)

\* A vacant slot is initialized by a writer; a bucket with nothing to remove or to read is
\* passed over; a lookup falls back.
FindSlot(t) ==
  /\ pc[t] = "slots" /\ call[t].op # "txn"
  /\ \/ /\ ~vacant(t)
        /\ Acquire(t, {Slots}) /\ Goto(t, "active") /\ UNCHANGED frame
     \/ /\ vacant(t) /\ ReadOnly(t) /\ FallsBack(t)
        /\ Acquire(t, IF KeepsSlots(t) THEN {} ELSE {Slots})
        /\ Goto(t, "previous") /\ UNCHANGED frame
     \/ /\ vacant(t)
        /\ \/ ReadOnly(t) /\ ~FallsBack(t)
           \/ call[t].op = "batch_remove" /\ ~migrating
        /\ Acquire(t, Dropped(t)) /\ Done(t, EmptyShard)
     \/ /\ vacant(t) /\ ~ReadOnly(t) /\ (call[t].op = "batch_remove" => migrating)
        /\ Acquire(t, {Slots}) /\ Goto(t, "init") /\ UNCHANGED frame
  /\ UNCHANGED <<config, layout, counters, snapshot_cache, engine, call, bounds>>

get_or_init_shard(t) ==
  shards' = [shards EXCEPT ![shard_index(KeyInHand(t))] = IF @ = NoShard THEN EmptyShard ELSE @]

InitSlot(t) ==
  /\ pc[t] = "init" /\ call[t].op # "txn"
  /\ Acquire(t, {Slots})
  /\ get_or_init_shard(t)
  /\ Goto(t, "active")
  /\ UNCHANGED <<config, previous_shards, shard_count, previous_shard_count, migrating,
                 moved_shards, counters, snapshot_cache, engine, call, frame, bounds>>

\* read_key and batch_get: a miss goes on with the active guard held.
ReadActive(t) ==
  LET old == [k \in Keys |-> InActive(k)] IN
  /\ pc[t] = "active" /\ ReadOnly(t)
  /\ \/ /\ FallsBack(t) /\ old[KeyInHand(t)] = Nil
        /\ Acquire(t, {}) /\ Goto(t, "previous") /\ UNCHANGED frame
     \/ /\ ~FallsBack(t) \/ old[KeyInHand(t)] # Nil
        /\ Acquire(t, Dropped(t)) /\ Done(t, old)
  /\ UNCHANGED <<config, layout, counters, snapshot_cache, engine, call, bounds>>

ReadPrevious(t) ==
  /\ pc[t] = "previous" /\ ReadOnly(t)
  /\ Acquire(t, Dropped(t))
  /\ Done(t, [k \in Keys |-> Lookup(previous_shard(k), k)])
  /\ UNCHANGED <<config, layout, counters, snapshot_cache, engine, call, bounds>>

(*****************************************************************************)
(* lock_key ends with the active guard held and the key promoted; the        *)
(* method, its ShardMutation and its hook follow without another await.      *)
(*****************************************************************************)
LockActive(t) ==
  /\ pc[t] = "active" /\ ~ReadOnly(t) /\ FallsBack(t)
  /\ Acquire(t, {})
  /\ Goto(t, "previous")
  /\ UNCHANGED <<config, layout, counters, snapshot_cache, engine, call, frame, bounds>>

\* What the method sees under the guards it has.
Seen(t) ==
  [k \in Keys |-> IF k \in frame[t].part /\ ~FallsBack(t) THEN InActive(k) ELSE Contents[k]]

WriteKeys(t) ==
  LET K == frame[t].part
      old == Seen(t)
      out == [k \in K |-> Method(call[t], old[k])]
      after == [k \in K |-> out[k].after] IN
  /\ pc[t] \in {"active", "previous"} /\ ~ReadOnly(t)
  /\ pc[t] = "active" => ~FallsBack(t)
  /\ Acquire(t, Dropped(t))
  /\ Put(K, after)
  /\ ShardMutationDrop({k \in K : old[k] # Nil}, {k \in K : after[k] # Nil},
                       \E k \in K : out[k].inserts)
  /\ Recorded({k \in K : after[k] = Nil}, {k \in K : out[k].inserts})
  /\ IF \E k \in K : out[k].ticket THEN mark_pending ELSE UNCHANGED <<work, current>>
  /\ Done(t, old)
  /\ UNCHANGED <<config, shard_count, previous_shard_count, migrating, moved_shards,
                 snapshot_cache, dirty, call, bounds>>

KeyStep(t) ==
  \/ Route(t) \/ FindSlot(t) \/ InitSlot(t)
  \/ ReadActive(t) \/ ReadPrevious(t)
  \/ LockActive(t) \/ WriteKeys(t)
=============================================================================
