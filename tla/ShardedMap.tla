----------------------------- MODULE ShardedMap -----------------------------
(*****************************************************************************)
(* The synchronous map: threads running key calls, transactions, snapshots   *)
(* and sweeps while the shard layout changes under them.                     *)
(*****************************************************************************)
EXTENDS KeyAccess, Transactions, Sweeps, Migration

Next ==
  \/ \E t \in Threads :
       \/ \E c \in Calls : Invoke(t, c)
       \/ KeyStep(t) \/ TxnStep(t) \/ SnapshotStep(t) \/ SweepStep(t)
       \/ Return(t)
  \/ MigrationStep

Spec == Init /\ [][Next]_vars
-----------------------------------------------------------------------------
KeyPCs == {"route", "lookup", "init", "lock", "promote", "apply", "publish", "release",
           "read", "fallback"}
SnapPCs == {"cached", "gate", "recheck", "pin", "pin_directory", "guards", "collect", "cache"}
TxnPCs == {"txn_route", "txn_resolve", "txn_lock", "txn_apply"}
SweepPCs == {"exclusive", "sweep"}
PCs == {"idle", "return"} \cup KeyPCs \cup SnapPCs \cup TxnPCs \cup SweepPCs

Replies ==
  {NoReply, DoneReply, PanickedReply}
    \cup [tag : {"key"}, ok : BOOLEAN, val : OptVal]
    \cup [tag : {"snapshot"}, epoch : Nat, items : SUBSET (Keys \X Vals)]

DirectoryType ==
  /\ shards \in [Idx -> Shard \cup {NoShard}]
  /\ previous_shards \in [Idx -> Shard \cup {NoShard}]
  /\ shard_count \in Counts
  /\ previous_shard_count \in Counts \cup {0}
  /\ \A i \in Idx : i >= shard_count => shards[i] = NoShard
  /\ \A i \in Idx : i >= previous_shard_count => previous_shards[i] = NoShard
  /\ migrating \in BOOLEAN
  /\ moved_shards \in Nat

CallType ==
  /\ total_len \in Int
  /\ write_epoch \in Nat
  /\ snapshot_cache \in SUBSET [epoch : Nat, items : SUBSET (Keys \X Vals)]
  /\ readers \in [Locks -> SUBSET Threads]
  /\ writer \in [Locks -> Threads \cup {NoThread}]
  /\ pc \in [Threads -> PCs]
  /\ call \in [Threads -> Calls \cup {NoCall}]
  /\ reply \in [Threads -> Replies]
  /\ at \in [Threads -> Nat]
  /\ cut \in [Threads -> Nat]
  /\ preimage \in [Keys -> OptVal \cup {Clean}]

\* The shape of the state; a directory of n slots has nothing at n and beyond,
\* where the code would index out of bounds.
TypeOK == DirectoryType /\ CallType

(*****************************************************************************)
(* Every stored entry has one home: the slot its key is routed to, in one    *)
(* generation only.  A lookup by index would miss it elsewhere, and a        *)
(* snapshot, which copies whole shards of both generations, would list it    *)
(* twice.                                                                    *)
(*****************************************************************************)
OneHome ==
  \A k \in Keys, i \in Idx :
    /\ Lookup(shards[i], k) # Nil =>
         i = shard_index(k) /\ Lookup(previous_shard(k), k) = Nil
    /\ Lookup(previous_shards[i], k) # Nil =>
         previous_shard_count # 0 /\ i = previous_index(k)

(*****************************************************************************)
(* total_len counts the stored keys, up to stores whose ShardMutation has    *)
(* not been dropped yet; with no call under way it is exact (lib.rs: "after  *)
(* all operations complete it matches the number of stored logical keys").   *)
(*****************************************************************************)
Unpublished == {call[t].key : t \in {u \in Threads : pc[u] = "publish"}}

LenExact ==
  total_len = Cardinality({k \in Keys :
                 (IF k \in Unpublished THEN preimage[k] ELSE Stored(k)) # Nil})

(*****************************************************************************)
(* A cached snapshot that still carries the current epoch is the current     *)
(* contents: cached_snapshot may serve it without any map lock, even while   *)
(* a migration holds routing exclusively.                                    *)
(*****************************************************************************)
CacheCoherent ==
  \A c \in snapshot_cache : c.epoch = write_epoch => c.items = Pairs(Contents)

(*****************************************************************************)
(* The version of a snapshot identifies its contents: any two snapshots of   *)
(* one epoch that threads or the cache hold have the same items, and none    *)
(* lists a key twice.                                                        *)
(*****************************************************************************)
Captured ==
  snapshot_cache
    \cup {[epoch |-> reply[t].epoch, items |-> reply[t].items] :
            t \in {u \in Threads : reply[u].tag = "snapshot"}}

VersionNamesContents ==
  \A a, b \in Captured :
    /\ a.epoch = b.epoch => a.items = b.items
    /\ \A p, q \in a.items : p[1] = q[1] => p = q

(*****************************************************************************)
(* A migration loses nothing: while one is under way both directories are    *)
(* in place, and the tracker says so exactly as long as lookups consult the  *)
(* previous generation; drained slots are gone for good.                     *)
(*****************************************************************************)
MigrationState ==
  /\ migrating <=> previous_shard_count # 0
  /\ migrating => moved_shards < previous_shard_count
  /\ \A i \in Idx : (~migrating \/ i < moved_shards) => previous_shards[i] = NoShard

(*****************************************************************************)
(* The strengthening that makes TypeOK, OneHome and MigrationState           *)
(* inductive.  A thread runs the steps of its own call; the threads that     *)
(* use indices hold routing, so no layout change comes between their steps;  *)
(* and a writer about to store has emptied the previous generation of its    *)
(* key.                                                                      *)
(*****************************************************************************)
WriterPCs == {"init", "lock", "promote", "apply"}

CallMatches ==
  \A t \in Threads :
    /\ pc[t] \in KeyPCs => call[t] \in KeyCalls
    /\ pc[t] \in WriterPCs => call[t].op # "get"
    /\ pc[t] \in TxnPCs => call[t] \in TxnCalls
    /\ pc[t] = "txn_apply" => at[t] # 0
    /\ pc[t] \in SnapPCs => call[t] \in SnapCalls
    /\ pc[t] = "cache" => reply[t].tag = "snapshot"
    /\ pc[t] \in SweepPCs => call[t] \in SweepCalls

Pinned == (KeyPCs \ {"route"}) \cup {"pin_directory", "guards", "collect"}
            \cup (TxnPCs \ {"txn_route"})

RoutingHeld ==
  /\ \A t \in Threads : pc[t] \in Pinned => t \in readers[Routing]
  /\ \A t \in Threads : pc[t] = "sweep" => writer[Routing] = t
  /\ writer[Routing] # NoThread => readers[Routing] = {}

Emptied ==
  \A t \in Threads :
    pc[t] = "apply" => Lookup(previous_shard(call[t].key), call[t].key) = Nil

Layout  == DirectoryType /\ MigrationState /\ OneHome
Control == CallType /\ CallMatches /\ RoutingHeld
HomeInv == Layout /\ Control /\ Emptied

(*****************************************************************************)
(* The map is linearizable: it implements the atomic map of MapSpec.  A      *)
(* call takes effect when it drops its shard guards (writers), reads the     *)
(* value (get), copies under all guards or hits the cache (snapshots);       *)
(* promotion, migration and lazy slots are invisible.                        *)
(*****************************************************************************)
\* A builder has its answer before it fills the cache.
Decided(t) == pc[t] \in {"return", "cache"}

Status(t) == CASE pc[t] = "idle" -> "idle"
               [] Decided(t)     -> "answered"
               [] OTHER          -> "called"

AnswerOf(t) ==
  IF ~Decided(t) THEN NoReply
  ELSE IF reply[t].tag = "snapshot" THEN [tag |-> "snapshot", items |-> reply[t].items]
  ELSE reply[t]

Atomic == INSTANCE MapSpec WITH
            map    <- Contents,
            status <- [t \in Threads |-> Status(t)],
            answer <- [t \in Threads |-> AnswerOf(t)]

Linearizable == Atomic!Spec
=============================================================================
