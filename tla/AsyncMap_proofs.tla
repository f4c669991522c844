-------------------------- MODULE AsyncMap_proofs --------------------------
(*****************************************************************************)
(* The locks of the asynchronous map, proved for every set of tasks, keys    *)
(* and values, every hash, every mix of calls and any number of dropped      *)
(* futures: what a task at an await has in hand (Calls), which locks it      *)
(* holds there (Locking) and behind whom it waits (Queues).  Each layer is   *)
(* inductive relative to the ones before.                                    *)
(*****************************************************************************)
EXTENDS AsyncMap, FiniteSetTheorems, WellFoundedInduction, TLAPS

-----------------------------------------------------------------------------
(*****************************************************************************)
(* Where a task may be.                                                      *)
(*****************************************************************************)
\* Under shared routing.
Sharing == {"slots", "init", "active", "previous", "pin_slots", "guards",
            "pass_slots", "scan", "pass_lock", "trim"}

\* Under exclusive routing.
Resharding == {"swap", "rebuild", "batch", "move", "drained"}
Alone == {"sweep", "visit", "repair", "evict"} \cup Resharding

Outside == {"idle", "return", "cached", "fill", "maintain", "glance"}

\* Waiting for a lock, outside routing.
Entering == {"route", "pin", "share", "exclusive", "pass", "gate", "rebalance"}

Labels == Sharing \cup Alone \cup Outside \cup Entering

InHand == {"slots", "init", "active", "previous"}
Planned == {"guards", "scan", "pass_lock"}

Fields == {"left", "got", "part", "plan", "picked", "cut", "moved", "completed"}

(*****************************************************************************)
(* What a task has in hand.                                                  *)
(*****************************************************************************)
CallFits(l, c, f) ==
  /\ l \in Labels /\ c \in CallsMade \cup {NoCall} /\ DOMAIN f = Fields
  /\ f.left \subseteq Keys /\ f.picked \subseteq ShardLocks
  /\ l # "move" => f.plan \subseteq ShardLocks
  /\ l \in InHand => f.part # {} /\ f.part \subseteq f.left
  /\ l \in Planned => f.plan # {}
  /\ l \in {"route"} \cup InHand => c.op \in KeyOps \cup BatchOps \cup {"txn"}
  /\ l \in {"active", "previous"} => c.op # "txn"
  /\ l = "route" /\ c.op \in KeyOps => f.left # {}
  /\ l \in {"cached", "fill"} => c.op = "snapshot"
  /\ l \in {"gate", "pin", "pin_slots"} => c.op \in {"snapshot", "view"}
  /\ l = "guards" => c.op \in {"snapshot", "view", "txn"}
  /\ l = "exclusive" => c.op \in {"clear", "drain", "retain"} \cup LayoutOps
  /\ l = "rebalance" => c.op \in LayoutOps
  /\ l = "sweep" => c.op \in {"clear", "drain"}
  /\ l = "visit" => c.op = "retain"
  /\ l = "swap" => c.op = "start_rebalance_online"
  /\ l = "rebuild" => c.op = "rebalance_to"
  /\ l \in {"batch", "move", "drained"} => c.op = "advance_rebalance"

CallsKept ==
  /\ pc \in [Threads -> Labels]
  /\ call = [t \in Threads |-> call[t]] /\ frame = [t \in Threads |-> frame[t]]
  /\ \A t \in Threads : CallFits(pc[t], call[t], frame[t])

CountsKept ==
  /\ shard_count \in 1..MaxCount /\ previous_shard_count \in 0..MaxCount
  /\ \E s \in Scenarios : config = s.config

(*****************************************************************************)
(* Which locks a task holds, by the await it is at.                          *)
(*****************************************************************************)
Below(L) == {l \in ShardLocks : \A m \in L : LockOrder(l) < LockOrder(m)}

MayHold(l, c, f) ==
  CASE l = "exclusive" -> IF c.op \in LayoutOps THEN {Rebalance} ELSE {}
    [] l \in {"pin", "fill"} -> {Gate}
    [] l = "pin_slots" -> {Gate, Routing}
    [] l = "previous" -> {Routing, Slots} \cup {Active(i) : i \in Idx}
    [] l = "guards" -> {Gate, Routing, Slots} \cup Below(f.plan)
    [] l = "pass_lock" -> {Routing} \cup Below(f.plan)
    [] l = "trim" -> {Routing} \cup ShardLocks
    [] l \in Resharding -> {Rebalance, Routing}
    [] l \in {"slots", "init", "active", "pass_slots", "scan", "sweep", "visit", "repair",
              "evict"} -> {Routing}
    [] OTHER -> {}

LockTypes ==
  /\ readers \in [Locks -> SUBSET Threads]
  /\ writer \in [Locks -> Threads \cup {NoTask}]

WritersExclude == \A l \in Locks : writer[l] # NoTask => readers[l] = {}

HeldBy(t) ==
  /\ \A l \in Locks : t \in Holders(l) => l \in MayHold(pc[t], call[t], frame[t])
  /\ pc[t] \in Sharing => t \in readers[Routing]
  /\ pc[t] \in Alone => writer[Routing] = t

\* Nobody looks into a previous generation that is gone.
Falling == \A t \in Threads : pc[t] = "previous" => previous_shard_count # 0

Locking == LockTypes /\ WritersExclude /\ Falling /\ \A t \in Threads : HeldBy(t)

-----------------------------------------------------------------------------
(*****************************************************************************)
(* A step is a step of one task.                                             *)
(*****************************************************************************)
Step(t) ==
  \/ \E c \in Mixes[config.mix] : Invoke(t, c)
  \/ Enqueue(t) \/ Return(t) \/ Drop(t)
  \/ KeyStep(t) \/ BulkStep(t) \/ MigrationStep(t) \/ EvictionStep(t)

\* Nobody but t moves.
Only(t) ==
  /\ pc' = [pc EXCEPT ![t] = pc'[t]]
  /\ call' = [call EXCEPT ![t] = call'[t]]
  /\ frame' = [frame EXCEPT ![t] = frame'[t]]

\* A step moves one task.
LEMMA OneMoves ==
  ASSUME CallsKept, NEW t \in Threads, Step(t)
  PROVE  Only(t)
<1>. USE DEF CallsKept, Only
<1>1. ASSUME NEW c \in Mixes[config.mix], Invoke(t, c) PROVE Only(t)
  BY <1>1 DEF Invoke, Goto, Goes
<1>2. CASE Enqueue(t)
  BY <1>2 DEF Enqueue
<1>3. CASE Return(t)
  BY <1>3 DEF Return, Goes, Goto
<1>4. CASE Drop(t)
  BY <1>4 DEF Drop, Goes, Goto
<1>5. CASE Route(t)
  BY <1>5 DEF Route, Goes, Goto
<1>6. CASE FindSlot(t)
  BY <1>6 DEF FindSlot, Goto, Done, Goes
<1>7. CASE InitSlot(t)
  BY <1>7 DEF InitSlot, Goto
<1>8. CASE ReadActive(t)
  BY <1>8 DEF ReadActive, Goto, Done, Goes
<1>9. CASE ReadPrevious(t)
  BY <1>9 DEF ReadPrevious, Done, Goes, Goto
<1>10. CASE LockActive(t)
  BY <1>10 DEF LockActive, Goto
<1>11. CASE WriteKeys(t)
  BY <1>11 DEF WriteKeys, Done, Goes, Goto
<1>12. CASE CachedSnapshot(t)
  BY <1>12 DEF CachedSnapshot, Goes, Goto
<1>13. CASE BuilderGate(t)
  BY <1>13 DEF BuilderGate, Goes, Goto
<1>14. CASE PinRouting(t)
  BY <1>14 DEF PinRouting, Goto
<1>15. CASE PinSlots(t)
  BY <1>15 DEF PinSlots, Collect, Goes, Goto
<1>16. CASE NextGuard(t)
  BY <1>16 DEF NextGuard
<1>17. CASE CollectShards(t)
  BY <1>17 DEF CollectShards, Collect, Goes, Goto
<1>18. CASE FillCache(t)
  BY <1>18 DEF FillCache, Goto
<1>19. CASE TxnSlot(t)
  BY <1>19 DEF TxnSlot, Resolved, Goto, Goes
<1>20. CASE TxnInit(t)
  BY <1>20 DEF TxnInit, Resolved, Goes, Goto
<1>21. CASE Commit(t)
  BY <1>21 DEF Commit, Goes, Goto
<1>22. CASE Exclusive(t)
  BY <1>22 DEF Exclusive, Goes, Goto
<1>23. CASE Sweep(t)
  BY <1>23 DEF Sweep, Goes, Goto
<1>24. CASE Visit(t)
  BY <1>24 DEF Visit
<1>25. CASE Visited(t)
  BY <1>25 DEF Visited, Goes, Goto
<1>26. CASE RebalanceLock(t)
  BY <1>26 DEF RebalanceLock, Goto
<1>27. CASE ExclusiveRouting(t)
  BY <1>27 DEF ExclusiveRouting, Goto
<1>28. CASE start_rebalance_online(t)
  BY <1>28 DEF start_rebalance_online, Goto
<1>29. CASE rebalance_to(t)
  BY <1>29 DEF rebalance_to, Goto
<1>30. CASE LoadBatch(t)
  BY <1>30 DEF LoadBatch, Goto, Pops, Goes
<1>31. CASE MoveEntry(t)
  BY <1>31 DEF MoveEntry, Goes, Goto
<1>32. CASE SourceLeft(t)
  BY <1>32 DEF SourceLeft, Pops, BatchEnds, Goes, Goto
<1>33. CASE SourceDrained(t)
  BY <1>33 DEF SourceDrained, BatchEnds, Goes, Goto
<1>34. CASE Maintain(t)
  BY <1>34 DEF Maintain, Goto
<1>35. CASE Glance(t)
  BY <1>35 DEF Glance, Goto
<1>36. CASE ExclusivePass(t)
  BY <1>36 DEF ExclusivePass, Goto
<1>37. CASE Repair(t)
  BY <1>37 DEF Repair, Goto
<1>38. CASE EvictGlobally(t)
  BY <1>38 DEF EvictGlobally, Evicted, Goto
<1>39. CASE SharePass(t)
  BY <1>39 DEF SharePass, GivesUp, Goto
<1>40. CASE PassSlots(t)
  BY <1>40 DEF PassSlots, Goes, Goto
<1>41. CASE Scan(t)
  BY <1>41 DEF Scan, Goes, Goto
<1>42. CASE PassLock(t)
  BY <1>42 DEF PassLock, Goes, Goto
<1>43. CASE TrimShards(t)
  BY <1>43 DEF TrimShards, GivesUp, Evicted, Goto
<1>. QED
  BY <1>1, <1>2, <1>3, <1>4, <1>5, <1>6, <1>7, <1>8, <1>9, <1>10, <1>11, <1>12, <1>13,
     <1>14, <1>15, <1>16, <1>17, <1>18, <1>19, <1>20, <1>21, <1>22, <1>23, <1>24, <1>25,
     <1>26, <1>27, <1>28, <1>29, <1>30, <1>31, <1>32, <1>33, <1>34, <1>35, <1>36, <1>37,
     <1>38, <1>39, <1>40, <1>41, <1>42, <1>43
  DEF Step, KeyStep, BulkStep, MigrationStep, EvictionStep


-----------------------------------------------------------------------------
(*****************************************************************************)
(* What a task has in hand.                                                  *)
(*****************************************************************************)
\* A key has a slot in either generation.
LEMMA IndexTyped ==
  ASSUME CountsKept, NEW k \in Keys
  PROVE  /\ shard_index(k) \in Idx
         /\ previous_shard_count # 0 => previous_index(k) \in Idx
<1>1. Hash[k] \in Nat /\ MaxCount \in Nat
  BY StateAssumption
<1>. QED
  BY <1>1 DEF CountsKept, shard_index, previous_index, Idx

\* The shards of both generations are shards.
LEMMA BothTyped ==
  ASSUME NEW A \in SUBSET Idx, NEW P \in SUBSET Idx
  PROVE  Both(A, P) \subseteq ShardLocks
  BY DEF Both, ShardLocks, Active, Previous

\* The keys a task takes in hand are some of those it has left.
LEMMA PartsTyped ==
  ASSUME NEW t \in Threads, NEW K, K # {} \/ call[t].op \in BatchOps \cup {"txn"},
         NEW part \in Parts(t, K)
  PROVE  part # {} /\ part \subseteq K
<1>1. CASE call[t].op \in BatchOps
  BY <1>1 DEF Parts, SameShard
<1>2. CASE call[t].op = "txn"
  BY <1>2 DEF Parts, SameShard, BatchOps
<1>3. CASE call[t].op \notin BatchOps \cup {"txn"}
  BY <1>3 DEF Parts
<1>. QED
  BY <1>1, <1>2, <1>3

\* Every call has a first await, and is about keys of the map.
LEMMA CallsTyped ==
  ASSUME NEW c \in CallsMade
  PROVE  /\ c.op \in KeyOps \cup BatchOps \cup LayoutOps
              \cup {"txn", "snapshot", "view", "clear", "drain", "retain", "enforce", "evict"}
         /\ Concerned(c) \subseteq Keys
         /\ c.op \in KeyOps => Concerned(c) # {}
<1>1. CASE c \in KeyCalls
  <2>1. c.op \in KeyOps /\ c.key \in Keys
    BY <1>1 DEF KeyCalls
  <2>2. Concerned(c) = {c.key}
    BY <2>1 DEF Concerned, KeyOps, BatchOps
  <2>. QED
    BY <2>1, <2>2
<1>2. CASE c \in TxnCalls
  <2>1. c.op = "txn" /\ c.steps \in Seq(TxnSteps)
    BY <1>2 DEF TxnCalls
  <2>2. \A i \in DOMAIN c.steps : c.steps[i].key \in Keys
    <3>. SUFFICES ASSUME NEW i \in DOMAIN c.steps PROVE c.steps[i].key \in Keys
      OBVIOUS
    <3>1. c.steps[i] \in TxnSteps
      BY <2>1
    <3>. QED
      BY <3>1 DEF TxnSteps
  <2>3. Concerned(c) = {c.steps[i].key : i \in DOMAIN c.steps}
    BY <2>1 DEF Concerned, KeyOps, BatchOps
  <2>. QED
    BY <2>1, <2>2, <2>3 DEF KeyOps
<1>3. CASE c \in SnapCalls \cup SweepCalls \cup [op : {"drain"}]
  BY <1>3 DEF SnapCalls, SweepCalls, Concerned, KeyOps, BatchOps
<1>4. CASE c \in BatchCalls
  BY <1>4 DEF BatchCalls, Concerned, KeyOps, BatchOps
<1>5. CASE c \in LayoutCalls \cup EvictCalls
  BY <1>5 DEF LayoutCalls, EvictCalls, LayoutOps, Concerned, KeyOps, BatchOps
<1>6. c \in Calls \/ c \in OtherCalls
  BY DEF CallsMade
<1>. QED
  BY <1>1, <1>2, <1>3, <1>4, <1>5, <1>6, CallsAssumption, OtherCallsAssumption
  DEF AllCalls

\* What t has in hand after its step is all there is to show.
LEMMA CallsStep ==
  ASSUME CallsKept, NEW t \in Threads, Only(t), CallFits(pc'[t], call'[t], frame'[t])
  PROVE  CallsKept'
<1>1. pc'[t] \in Labels
  BY DEF CallFits
<1>2. pc' \in [Threads -> Labels]
  BY <1>1 DEF CallsKept, Only
<1>3. call' = [u \in Threads |-> call'[u]] /\ frame' = [u \in Threads |-> frame'[u]]
  BY DEF CallsKept, Only
<1>4. ASSUME NEW u \in Threads PROVE CallFits(pc'[u], call'[u], frame'[u])
  <2>1. CASE u = t
    BY <2>1
  <2>2. CASE u # t
    <3>1. pc'[u] = pc[u] /\ call'[u] = call[u] /\ frame'[u] = frame[u]
      BY <2>2 DEF CallsKept, Only
    <3>. QED
      BY <3>1 DEF CallsKept
  <2>. QED
    BY <2>1, <2>2
<1>. QED
  BY <1>2, <1>3, <1>4 DEF CallsKept


\* Done leaves no keys in hand, or some of those that are left.
LEMMA DoneMoves ==
  ASSUME CallsKept, NEW t \in Threads, NEW old, pc[t] \in InHand, Done(t, old)
  PROVE  \/ /\ frame[t].left = frame[t].part
            /\ pc' = [pc EXCEPT ![t] = IF ReadOnly(t) THEN "return" ELSE "maintain"]
            /\ frame' = [frame EXCEPT ![t] =
                 [frame[t] EXCEPT !.left = {}, !.part = {},
                                  !.got = Tally(t, frame[t].part, old)]]
         \/ /\ frame[t].left # frame[t].part
            /\ pc' = [pc EXCEPT ![t] = "slots"]
            /\ \E part \in Parts(t, frame[t].left \ frame[t].part) :
                 /\ part # {} /\ part \subseteq frame[t].left \ frame[t].part
                 /\ frame' = [frame EXCEPT ![t] =
                      [frame[t] EXCEPT !.left = @ \ frame[t].part, !.part = part,
                                       !.got = Tally(t, frame[t].part, old)]]
<1>. DEFINE left == frame[t].left \ frame[t].part
            f == [frame[t] EXCEPT !.left = left, !.part = {},
                                  !.got = Tally(t, frame[t].part, old)]
<1>1. CallFits(pc[t], call[t], frame[t])
  BY DEF CallsKept
<1>2. frame[t].part # {} /\ frame[t].part \subseteq frame[t].left /\ DOMAIN frame[t] = Fields
  BY <1>1 DEF CallFits
<1>3. CASE left = {}
  <2>1. Goes(t, IF ReadOnly(t) THEN "return" ELSE "maintain", f)
    BY <1>3 DEF Done
  <2>2. frame[t].left = frame[t].part
    BY <1>2, <1>3
  <2>. QED
    BY <1>3, <2>1, <2>2 DEF Goes, Goto
<1>4. CASE left # {}
  <2>1. PICK part \in Parts(t, left) : Goes(t, "slots", [f EXCEPT !.part = part])
    BY <1>4 DEF Done
  <2>2. part # {} /\ part \subseteq left
    BY <1>4, PartsTyped
  <2>3. [f EXCEPT !.part = part]
          = [frame[t] EXCEPT !.left = left, !.part = part,
                             !.got = Tally(t, frame[t].part, old)]
    BY <1>2 DEF Fields
  <2>. QED
    BY <1>4, <2>1, <2>2, <2>3 DEF Goes, Goto
<1>. QED
  BY <1>3, <1>4

\* What Done leaves in hand fits.
LEMMA DoneFits ==
  ASSUME CallsKept, NEW t \in Threads, NEW old, pc[t] \in InHand, Done(t, old), call' = call
  PROVE  CallFits(pc'[t], call'[t], frame'[t])
<1>1. CallFits(pc[t], call[t], frame[t]) /\ t \in DOMAIN pc /\ t \in DOMAIN frame
  BY DEF CallsKept
<1>2. CASE /\ pc' = [pc EXCEPT ![t] = IF ReadOnly(t) THEN "return" ELSE "maintain"]
           /\ frame' = [frame EXCEPT ![t] =
                [frame[t] EXCEPT !.left = {}, !.part = {},
                                 !.got = Tally(t, frame[t].part, old)]]
  <2>1. pc'[t] \in {"return", "maintain"} /\ frame'[t].left = {} /\ DOMAIN frame'[t] = Fields
          /\ frame'[t].plan = frame[t].plan /\ frame'[t].picked = frame[t].picked
    BY <1>1, <1>2 DEF CallFits, Fields
  <2>. QED
    BY <1>1, <2>1 DEF CallFits, Labels, Outside, InHand, Planned
<1>3. ASSUME NEW part, part # {}, part \subseteq frame[t].left \ frame[t].part,
             pc' = [pc EXCEPT ![t] = "slots"],
             frame' = [frame EXCEPT ![t] =
               [frame[t] EXCEPT !.left = @ \ frame[t].part, !.part = part,
                                !.got = Tally(t, frame[t].part, old)]]
      PROVE  CallFits(pc'[t], call'[t], frame'[t])
  <2>1. /\ pc'[t] = "slots" /\ frame'[t].left = frame[t].left \ frame[t].part
        /\ frame'[t].part = part /\ DOMAIN frame'[t] = Fields
        /\ frame'[t].plan = frame[t].plan /\ frame'[t].picked = frame[t].picked
    BY <1>1, <1>3 DEF CallFits, Fields
  <2>. QED
    BY <1>1, <1>3, <2>1 DEF CallFits, Labels, Sharing, InHand, Planned
<1>. QED
  BY <1>2, <1>3, DoneMoves

\* The popped key is the only plan of a move.
LEMMA PopsFits ==
  ASSUME CallsKept, NEW t \in Threads, NEW K, pc[t] \in {"batch", "drained"}, Pops(t, K),
         call' = call
  PROVE  CallFits(pc'[t], call'[t], frame'[t])
<1>1. CallFits(pc[t], call[t], frame[t]) /\ t \in DOMAIN pc /\ t \in DOMAIN frame
  BY DEF CallsKept
<1>2. PICK k \in K : Goes(t, "move", [frame[t] EXCEPT !.part = K \ {k}, !.plan = {k}])
  BY DEF Pops
<1>3. pc'[t] = "move" /\ frame'[t].left = frame[t].left /\ DOMAIN frame'[t] = Fields
        /\ frame'[t].picked = frame[t].picked
  BY <1>1, <1>2 DEF CallFits, Fields, Goes, Goto
<1>. QED
  BY <1>1, <1>3 DEF CallFits, Labels, Alone, Resharding, InHand, Planned

\* A set of naturals that is not empty has a least element.
LEMMA LeastNatural ==
  ASSUME NEW T \in SUBSET Nat, T # {}
  PROVE  \E n \in T : \A m \in T : n <= m
<1>1. PICK n \in T : \A m \in T : ~(<<m, n>> \in OpToRel(<, Nat))
  BY NatLessThanWellFounded, WFMin
<1>2. \A m \in T : ~(m < n)
  BY <1>1 DEF OpToRel
<1>. QED
  BY <1>2

\* Shards are locked in a total order.
LEMMA LockOrderTotal ==
  /\ \A l \in ShardLocks : LockOrder(l) \in Nat
  /\ \A l, m \in ShardLocks : LockOrder(l) = LockOrder(m) => l = m
<1>1. MaxCount \in Nat
  BY StateAssumption
<1>2. ASSUME NEW l \in ShardLocks
      PROVE  /\ l = <<l[1], l[2]>> /\ l[1] \in {"active", "previous"}
             /\ l[2] \in Nat /\ l[2] < MaxCount
             /\ LockOrder(l) = l[2] + (IF l[1] = "previous" THEN MaxCount ELSE 0)
  BY <1>1, <1>2 DEF ShardLocks, Idx, LockOrder
<1>3. ASSUME NEW l \in ShardLocks PROVE LockOrder(l) \in Nat
  BY <1>1, <1>2
<1>4. ASSUME NEW l \in ShardLocks, NEW m \in ShardLocks, LockOrder(l) = LockOrder(m)
      PROVE  l = m
  <2>1. l[1] = m[1] /\ l[2] = m[2]
    BY <1>1, <1>2, <1>4
  <2>. QED
    BY <1>2, <2>1
<1>. QED
  BY <1>3, <1>4

\* NextShard(t) is the first shard of the plan.
LEMMA NextShardFirst ==
  ASSUME NEW t \in Threads, frame[t].plan \subseteq ShardLocks, frame[t].plan # {}
  PROVE  /\ NextShard(t) \in frame[t].plan
         /\ \A m \in frame[t].plan : LockOrder(NextShard(t)) <= LockOrder(m)
<1>. DEFINE T == {LockOrder(l) : l \in frame[t].plan}
<1>0. T \in SUBSET Nat /\ T # {}
  BY LockOrderTotal
<1>. HIDE DEF T
<1>1. PICK n \in T : \A m \in T : n <= m
  BY <1>0, LeastNatural
<1>2. PICK l \in frame[t].plan : \A m \in frame[t].plan : LockOrder(l) <= LockOrder(m)
  BY <1>1 DEF T
<1>. QED
  BY <1>2 DEF NextShard

\* A transaction goes on to its next slot, or to the shards it names.
LEMMA ResolvedFits ==
  ASSUME CallsKept, CountsKept, NEW t \in Threads, pc[t] \in {"slots", "init"},
         call[t].op = "txn", Resolved(t), call' = call
  PROVE  CallFits(pc'[t], call'[t], frame'[t])
<1>1. CallFits(pc[t], call[t], frame[t]) /\ t \in DOMAIN pc /\ t \in DOMAIN frame
  BY DEF CallsKept
<1>2. frame[t].part # {} /\ frame[t].part \subseteq frame[t].left /\ frame[t].left \subseteq Keys
  BY <1>1 DEF CallFits, InHand
<1>3. CASE Unresolved(t) # {}
  <2>1. PICK part \in Parts(t, Unresolved(t)) :
          Goes(t, "slots", [frame[t] EXCEPT !.part = part])
    BY <1>3 DEF Resolved
  <2>2. part # {} /\ part \subseteq Unresolved(t) /\ Unresolved(t) \subseteq frame[t].left
    BY <1>3, PartsTyped DEF Unresolved
  <2>. QED
    BY <1>1, <2>1, <2>2 DEF Goes, Goto, CallFits, Labels, Sharing, InHand, Planned, Fields
<1>4. CASE Unresolved(t) = {}
  <2>1. Goes(t, "guards", [frame[t] EXCEPT !.plan = TxnPlan(t)])
    BY <1>4 DEF Resolved
  <2>2. TxnPlan(t) # {} /\ TxnPlan(t) \subseteq ShardLocks
    <3>. DEFINE A == {shard_index(k) : k \in frame[t].left}
                P == {previous_index(k) :
                        k \in {j \in frame[t].left : previous_shard(j) # NoShard}}
    <3>1. A # {} /\ A \subseteq Idx
      BY <1>2, IndexTyped
    <3>2. P \subseteq Idx
      BY <1>2, IndexTyped DEF previous_shard
    <3>3. TxnPlan(t) = Both(A, P)
      BY DEF TxnPlan
    <3>. HIDE DEF A, P
    <3>4. Both(A, P) # {}
      BY <3>1 DEF Both
    <3>. QED
      BY <3>1, <3>2, <3>3, <3>4, BothTyped
  <2>. QED
    BY <1>1, <2>1, <2>2 DEF Goes, Goto, CallFits, Labels, Sharing, InHand, Planned, Fields
<1>. QED
  BY <1>3, <1>4

\* What a task has in hand fits where it is, after every step.
LEMMA CallsNext ==
  ASSUME CallsKept, CountsKept, NEW t \in Threads, Step(t)
  PROVE  CallsKept'
<1>. DEFINE Fits == CallFits(pc'[t], call'[t], frame'[t])
<1>a. CallFits(pc[t], call[t], frame[t]) /\ pc \in [Threads -> Labels]
        /\ DOMAIN call = Threads /\ DOMAIN frame = Threads
  BY DEF CallsKept
<1>b. Only(t)
  BY OneMoves
<1>. SUFFICES Fits
  BY <1>b, CallsStep
<1>. USE <1>a DEF CallFits, Labels, Sharing, Alone, Resharding, Outside, Entering, InHand,
                  Planned, Fields
<1>1. ASSUME NEW c \in Mixes[config.mix], Invoke(t, c) PROVE Fits
  <2>1. c \in CallsMade
    BY ScenariosAssumption DEF CountsKept
  <2>2. /\ pc' = [pc EXCEPT ![t] = FirstAwait(c)] /\ call' = [call EXCEPT ![t] = c]
        /\ frame' = [frame EXCEPT ![t] =
             [EmptyFrame EXCEPT !.left = Concerned(c), !.got = NoAnswer(c)]]
    BY <1>1 DEF Invoke, Goes, Goto
  <2>3. frame'[t].left = Concerned(c) /\ frame'[t].part = {} /\ frame'[t].plan = {}
          /\ frame'[t].picked = {} /\ DOMAIN frame'[t] = Fields
    BY <2>2 DEF EmptyFrame
  <2>. QED
    BY <2>1, <2>2, <2>3, CallsTyped DEF FirstAwait, KeyOps, BatchOps, LayoutOps
<1>2. CASE Enqueue(t)
  BY <1>2 DEF Enqueue
<1>3. CASE Return(t)
  BY <1>3 DEF Return, Goes, EmptyFrame, Goto
<1>4. CASE Drop(t)
  BY <1>4 DEF Drop, Goes, EmptyFrame, Goto
<1>5. CASE Route(t)
  <2>1. PICK part \in Parts(t, frame[t].left) :
          /\ pc' = [pc EXCEPT ![t] = "slots"]
          /\ frame' = [frame EXCEPT ![t] = [frame[t] EXCEPT !.part = part]]
    BY <1>5 DEF Route, Goes, Goto
  <2>2. part # {} /\ part \subseteq frame[t].left
    BY <1>5, PartsTyped DEF Route
  <2>. QED
    BY <1>5, <2>1, <2>2 DEF Route
<1>6. CASE FindSlot(t)
  <2>1. CASE UNCHANGED frame /\ pc' = [pc EXCEPT ![t] = pc'[t]]
               /\ pc'[t] \in {"active", "previous", "init"}
    BY <1>6, <2>1 DEF FindSlot
  <2>2. CASE Done(t, EmptyShard)
    BY <1>6, <2>2, DoneFits DEF FindSlot
  <2>. QED
    BY <1>6, <2>1, <2>2 DEF FindSlot, Goto
<1>7. CASE InitSlot(t)
  BY <1>7 DEF InitSlot, Goto
<1>8. CASE ReadActive(t)
  <2>. DEFINE old == [k \in Keys |-> InActive(k)]
  <2>1. CASE UNCHANGED frame /\ Goto(t, "previous")
    BY <1>8, <2>1 DEF ReadActive, Goto
  <2>2. CASE Done(t, old)
    <3>. HIDE DEF old
    <3>. QED
      BY <1>8, <2>2, DoneFits DEF ReadActive
  <2>. QED
    BY <1>8, <2>1, <2>2 DEF ReadActive
<1>9. CASE ReadPrevious(t)
  <2>1. PICK old : Done(t, old)
    BY <1>9 DEF ReadPrevious
  <2>. QED
    BY <1>9, <2>1, DoneFits DEF ReadPrevious
<1>10. CASE LockActive(t)
  <2>1. pc[t] = "active" /\ pc' = [pc EXCEPT ![t] = "previous"] /\ UNCHANGED <<call, frame>>
    BY <1>10 DEF LockActive, Goto
  <2>. QED
    BY <2>1
<1>11. CASE WriteKeys(t)
  <2>1. PICK old : Done(t, old)
    BY <1>11 DEF WriteKeys
  <2>2. pc[t] \in InHand /\ call' = call
    BY <1>11 DEF WriteKeys
  <2>. QED
    BY <2>1, <2>2, DoneFits
<1>12. CASE CachedSnapshot(t)
  <2>1. CASE Goto(t, "gate") /\ UNCHANGED frame
    BY <1>12, <2>1 DEF CachedSnapshot, Goto
  <2>2. ASSUME NEW c, Goes(t, "return", Answers(t, ItemsReply(c.items))) PROVE Fits
    BY <1>12, <2>2 DEF CachedSnapshot, Goes, Goto, Answers
  <2>. QED
    BY <1>12, <2>1, <2>2 DEF CachedSnapshot
<1>13. CASE BuilderGate(t)
  <2>1. CASE Goto(t, "pin") /\ UNCHANGED frame
    BY <1>13, <2>1 DEF BuilderGate, Goto
  <2>2. ASSUME NEW c, Goes(t, "return", Answers(t, ItemsReply(c.items))) PROVE Fits
    BY <1>13, <2>2 DEF BuilderGate, Goes, Goto, Answers
  <2>. QED
    BY <1>13, <2>1, <2>2 DEF BuilderGate
<1>14. CASE PinRouting(t)
  BY <1>14 DEF PinRouting, Goto
<1>15. CASE PinSlots(t)
  <2>1. CASE Collect(t)
    BY <1>15, <2>1 DEF PinSlots, Collect, Caching, Goes, Goto, Answers
  <2>2. CASE Frozen # {} /\ Goes(t, "guards", [frame[t] EXCEPT !.plan = Frozen])
    <3>1. Frozen \subseteq ShardLocks
      BY BothTyped DEF Frozen, Initialized
    <3>. QED
      BY <1>15, <2>2, <3>1 DEF PinSlots, Goes, Goto
  <2>. QED
    BY <1>15, <2>1, <2>2 DEF PinSlots
<1>16. CASE NextGuard(t)
  BY <1>16 DEF NextGuard, LastGuard
<1>17. CASE CollectShards(t)
  BY <1>17 DEF CollectShards, Collect, Caching, Goes, Goto, Answers
<1>18. CASE FillCache(t)
  BY <1>18 DEF FillCache, Goto
<1>19. CASE TxnSlot(t)
  <2>1. CASE Resolved(t)
    BY <1>19, <2>1, ResolvedFits DEF TxnSlot
  <2>2. CASE Goto(t, "init") /\ UNCHANGED frame
    BY <1>19, <2>2 DEF TxnSlot, Goto
  <2>. QED
    BY <1>19, <2>1, <2>2 DEF TxnSlot
<1>20. CASE TxnInit(t)
  <2>1. CASE Resolved(t)
    BY <1>20, <2>1, ResolvedFits DEF TxnInit
  <2>. QED
    BY <1>20, <2>1 DEF TxnInit
<1>21. CASE Commit(t)
  BY <1>21 DEF Commit, LastGuard, Goes, Answers, Goto
<1>22. CASE Exclusive(t)
  <2>. DEFINE plan == Both(Initialized(shards), Initialized(previous_shards))
  <2>1. plan \subseteq ShardLocks
    BY BothTyped DEF Initialized
  <2>. HIDE DEF plan
  <2>2. CASE /\ call[t].op = "retain"
             /\ Goes(t, "visit", [frame[t] EXCEPT !.plan = plan])
    BY <1>22, <2>1, <2>2 DEF Exclusive, Goes, Goto
  <2>3. CASE call[t].op # "retain" /\ Goto(t, "sweep") /\ UNCHANGED frame
    BY <1>22, <2>3 DEF Exclusive, Goto
  <2>. QED
    BY <1>22, <2>2, <2>3 DEF Exclusive, plan
<1>23. CASE Sweep(t)
  BY <1>23 DEF Sweep, Goes, Answers, Goto
<1>24. CASE Visit(t)
  BY <1>24 DEF Visit
<1>25. CASE Visited(t)
  BY <1>25 DEF Visited, Goes, Answers, Goto
<1>26. CASE RebalanceLock(t)
  BY <1>26 DEF RebalanceLock, Goto
<1>27. CASE ExclusiveRouting(t)
  <2>1. CASE Goto(t, "return")
    BY <1>27, <2>1 DEF ExclusiveRouting, Goto
  <2>2. CASE Goto(t, CASE call[t].op = "start_rebalance_online" -> "swap"
                        [] call[t].op = "rebalance_to" -> "rebuild"
                        [] call[t].op = "advance_rebalance" -> "batch")
    BY <1>27, <2>2 DEF ExclusiveRouting, Goto, LayoutOps
  <2>. QED
    BY <1>27, <2>1, <2>2 DEF ExclusiveRouting
<1>28. CASE start_rebalance_online(t)
  BY <1>28 DEF start_rebalance_online, Goto
<1>29. CASE rebalance_to(t)
  BY <1>29 DEF rebalance_to, Goto
<1>30. CASE LoadBatch(t)
  <2>1. CASE Goto(t, "drained") /\ UNCHANGED frame
    BY <1>30, <2>1 DEF LoadBatch, Goto
  <2>2. ASSUME NEW K, Pops(t, K) PROVE Fits
    BY <1>30, <2>2, PopsFits DEF LoadBatch
  <2>. QED
    BY <1>30, <2>1, <2>2 DEF LoadBatch
<1>31. CASE MoveEntry(t)
  BY <1>31 DEF MoveEntry, Goes, Goto
<1>32. CASE SourceLeft(t)
  <2>1. CASE BatchEnds(t) /\ UNCHANGED frame
    BY <1>32, <2>1 DEF SourceLeft, BatchEnds, Goto
  <2>2. ASSUME NEW K, Pops(t, K) PROVE Fits
    BY <1>32, <2>2, PopsFits DEF SourceLeft
  <2>. QED
    BY <1>32, <2>1, <2>2 DEF SourceLeft
<1>33. CASE SourceDrained(t)
  BY <1>33 DEF SourceDrained, BatchEnds, Goes, Goto
<1>34. CASE Maintain(t)
  BY <1>34 DEF Maintain, Goto
<1>35. CASE Glance(t)
  BY <1>35 DEF Glance, Goto
<1>36. CASE ExclusivePass(t)
  BY <1>36 DEF ExclusivePass, Goto
<1>37. CASE Repair(t)
  BY <1>37 DEF Repair, Goto
<1>38. CASE EvictGlobally(t)
  BY <1>38 DEF EvictGlobally, Goto
<1>39. CASE SharePass(t)
  BY <1>39 DEF SharePass, GivesUp, Goto
<1>40. CASE PassSlots(t)
  <2>1. Both(Initialized(shards), {}) \subseteq ShardLocks
    BY BothTyped DEF Initialized
  <2>. QED
    BY <1>40, <2>1 DEF PassSlots, Goes, Goto, AfterScan, Selected
<1>41. CASE Scan(t)
  <2>. DEFINE l == NextShard(t)
              rest == frame[t].plan \ {l}
              picked == frame[t].picked \cup (IF Crowded(l) THEN {l} ELSE {})
  <2>1. l \in ShardLocks /\ pc[t] = "scan"
    BY <1>41, NextShardFirst DEF Scan
  <2>2. rest \subseteq ShardLocks /\ picked \subseteq ShardLocks
    BY <2>1
  <2>3. Goes(t, AfterScan(rest, picked), Selected(t, rest, picked)) /\ call' = call
    BY <1>41 DEF Scan
  <2>. HIDE DEF rest, picked
  <2>. QED
    BY <2>1, <2>2, <2>3 DEF Goes, Goto, AfterScan, Selected
<1>42. CASE PassLock(t)
  BY <1>42 DEF PassLock, Goes, Goto
<1>43. CASE TrimShards(t)
  BY <1>43 DEF TrimShards, GivesUp, Goto
<1>. QED
  BY <1>1, <1>2, <1>3, <1>4, <1>5, <1>6, <1>7, <1>8, <1>9, <1>10, <1>11, <1>12, <1>13,
     <1>14, <1>15, <1>16, <1>17, <1>18, <1>19, <1>20, <1>21, <1>22, <1>23, <1>24, <1>25,
     <1>26, <1>27, <1>28, <1>29, <1>30, <1>31, <1>32, <1>33, <1>34, <1>35, <1>36, <1>37,
     <1>38, <1>39, <1>40, <1>41, <1>42, <1>43
  DEF Step, KeyStep, BulkStep, MigrationStep, EvictionStep


\* Shard counts stay in range, and the configuration is one of the given ones.
LEMMA CountsNext ==
  ASSUME CallsKept, CountsKept, NEW t \in Threads, Step(t)
  PROVE  CountsKept'
<1>a. CallFits(pc[t], call[t], frame[t])
  BY DEF CallsKept
<1>b. MaxCount \in Nat
  BY StateAssumption
<1>c. /\ pc[t] \in {"swap", "rebuild"} => call[t].target \in 1..MaxCount
  <2>. SUFFICES ASSUME pc[t] \in {"swap", "rebuild"} PROVE call[t].target \in 1..MaxCount
    OBVIOUS
  <2>1. call[t].op \in {"start_rebalance_online", "rebalance_to"}
          /\ call[t] \in CallsMade \cup {NoCall}
    BY <1>a DEF CallFits
  <2>2. call[t] \notin AllCalls /\ call[t] # NoCall
    BY <2>1 DEF AllCalls, KeyCalls, KeyOps, TxnCalls, SnapCalls, SweepCalls, NoCall
  <2>3. call[t] \in OtherCalls
    BY <2>1, <2>2, CallsAssumption DEF CallsMade
  <2>. QED
    BY <2>1, <2>3, TargetsAssumption
<1>. USE <1>b DEF CountsKept
<1>1. ASSUME NEW c \in Mixes[config.mix], Invoke(t, c) PROVE CountsKept'
  BY <1>1 DEF Invoke, layout
<1>2. CASE Enqueue(t)
  BY <1>2 DEF Enqueue, layout
<1>3. CASE Return(t)
  BY <1>3 DEF Return, layout
<1>4. CASE Drop(t)
  BY <1>4 DEF Drop, layout
<1>5. CASE Route(t)
  BY <1>5 DEF Route, layout
<1>6. CASE FindSlot(t)
  BY <1>6 DEF FindSlot, layout
<1>7. CASE InitSlot(t)
  BY <1>7 DEF InitSlot
<1>8. CASE ReadActive(t)
  BY <1>8 DEF ReadActive, layout
<1>9. CASE ReadPrevious(t)
  BY <1>9 DEF ReadPrevious, layout
<1>10. CASE LockActive(t)
  BY <1>10 DEF LockActive, layout
<1>11. CASE WriteKeys(t)
  BY <1>11 DEF WriteKeys
<1>12. CASE CachedSnapshot(t)
  BY <1>12 DEF CachedSnapshot, layout
<1>13. CASE BuilderGate(t)
  BY <1>13 DEF BuilderGate, layout
<1>14. CASE PinRouting(t)
  BY <1>14 DEF PinRouting, layout
<1>15. CASE PinSlots(t)
  BY <1>15 DEF PinSlots, layout
<1>16. CASE NextGuard(t)
  BY <1>16 DEF NextGuard, layout
<1>17. CASE CollectShards(t)
  BY <1>17 DEF CollectShards, layout
<1>18. CASE FillCache(t)
  BY <1>18 DEF FillCache, layout
<1>19. CASE TxnSlot(t)
  BY <1>19 DEF TxnSlot, layout
<1>20. CASE TxnInit(t)
  BY <1>20 DEF TxnInit
<1>21. CASE Commit(t)
  BY <1>21 DEF Commit
<1>22. CASE Exclusive(t)
  BY <1>22 DEF Exclusive, layout
<1>23. CASE Sweep(t)
  BY <1>23 DEF Sweep
<1>24. CASE Visit(t)
  BY <1>24 DEF Visit
<1>25. CASE Visited(t)
  BY <1>25 DEF Visited, layout
<1>26. CASE RebalanceLock(t)
  BY <1>26 DEF RebalanceLock, layout
<1>27. CASE ExclusiveRouting(t)
  BY <1>27 DEF ExclusiveRouting, layout
<1>28. CASE start_rebalance_online(t)
  BY <1>28, <1>c DEF start_rebalance_online
<1>29. CASE rebalance_to(t)
  BY <1>29, <1>c DEF rebalance_to
<1>30. CASE LoadBatch(t)
  BY <1>30 DEF LoadBatch
<1>31. CASE MoveEntry(t)
  BY <1>31 DEF MoveEntry
<1>32. CASE SourceLeft(t)
  BY <1>32 DEF SourceLeft
<1>33. CASE SourceDrained(t)
  BY <1>33 DEF SourceDrained
<1>34. CASE Maintain(t)
  BY <1>34 DEF Maintain, layout
<1>35. CASE Glance(t)
  BY <1>35 DEF Glance, layout
<1>36. CASE ExclusivePass(t)
  BY <1>36 DEF ExclusivePass, layout
<1>37. CASE Repair(t)
  BY <1>37 DEF Repair, layout
<1>38. CASE EvictGlobally(t)
  BY <1>38 DEF EvictGlobally
<1>39. CASE SharePass(t)
  BY <1>39 DEF SharePass, layout
<1>40. CASE PassSlots(t)
  BY <1>40 DEF PassSlots, layout
<1>41. CASE Scan(t)
  BY <1>41 DEF Scan, layout
<1>42. CASE PassLock(t)
  BY <1>42 DEF PassLock, layout
<1>43. CASE TrimShards(t)
  BY <1>43 DEF TrimShards
<1>. QED
  BY <1>1, <1>2, <1>3, <1>4, <1>5, <1>6, <1>7, <1>8, <1>9, <1>10, <1>11, <1>12, <1>13,
     <1>14, <1>15, <1>16, <1>17, <1>18, <1>19, <1>20, <1>21, <1>22, <1>23, <1>24, <1>25,
     <1>26, <1>27, <1>28, <1>29, <1>30, <1>31, <1>32, <1>33, <1>34, <1>35, <1>36, <1>37,
     <1>38, <1>39, <1>40, <1>41, <1>42, <1>43
  DEF Step, KeyStep, BulkStep, MigrationStep, EvictionStep


\* The layers hold initially.
LEMMA CallsInit ==
  Init => CallsKept /\ CountsKept /\ Locking
<1>. SUFFICES ASSUME Init PROVE CallsKept /\ CountsKept /\ Locking
  OBVIOUS
<1>1. PICK s \in Scenarios :
        /\ config = s.config /\ shard_count = s.shard_count
        /\ previous_shard_count = s.previous_shard_count
  BY DEF Init
<1>2. CountsKept
  BY <1>1, ScenariosAssumption DEF CountsKept
<1>3. /\ readers = [l \in Locks |-> {}] /\ writer = [l \in Locks |-> NoTask]
      /\ pc = [t \in Threads |-> "idle"] /\ call = [t \in Threads |-> NoCall]
      /\ frame = [t \in Threads |-> EmptyFrame]
  BY DEF Init
<1>4. CallsKept
  <2>1. CallFits("idle", NoCall, EmptyFrame)
    BY DEF CallFits, Labels, Sharing, Alone, Resharding, Outside, InHand, Planned, Fields,
           EmptyFrame
  <2>. QED
    BY <1>3, <2>1 DEF CallsKept, Labels, Outside
<1>5. Locking
  BY <1>3 DEF Locking, LockTypes, WritersExclude, Falling, HeldBy, Holders, Sharing, Alone,
              Resharding
<1>. QED
  BY <1>2, <1>4, <1>5


-----------------------------------------------------------------------------
(*****************************************************************************)
(* Locks.                                                                    *)
(*****************************************************************************)
\* t has taken the locks in S to read and those in X to write, and then dropped those in L.
Took(t, S, X, L) ==
  /\ LockTypes' /\ WritersExclude'
  /\ \A u \in Threads \ {t}, x \in Locks :
       (u \in readers'[x] <=> u \in readers[x]) /\ (writer'[x] = u <=> writer[x] = u)
  /\ \A x \in Locks :
       /\ t \in readers'[x] <=> x \notin L /\ (t \in readers[x] \/ x \in S)
       /\ writer'[x] = t <=> x \notin L /\ (writer[x] = t \/ x \in X)

\* The lock that a task wants where it is.
LEMMA WantedAt ==
  ASSUME CallsKept, CountsKept, Falling, NEW t \in Threads
  PROVE  /\ pc[t] \in {"route", "pin", "share"} => Wanted(t) = <<Routing, "read">>
         /\ pc[t] \in {"exclusive", "pass"} => Wanted(t) = <<Routing, "write">>
         /\ pc[t] \in {"slots", "pin_slots", "pass_slots"} => Wanted(t) = <<Slots, "read">>
         /\ pc[t] = "init" => Wanted(t) = <<Slots, "write">>
         /\ pc[t] = "active" => \E i \in Idx : Wanted(t) = <<Active(i), KeyMode(t)>>
         /\ pc[t] = "previous" => \E i \in Idx : Wanted(t) = <<Previous(i), KeyMode(t)>>
         /\ pc[t] = "guards" => Wanted(t) = <<NextShard(t), KeyMode(t)>>
         /\ pc[t] = "scan" => Wanted(t) = <<NextShard(t), "read">>
         /\ pc[t] = "pass_lock" => Wanted(t) = <<NextShard(t), "write">>
         /\ pc[t] \in Planned => NextShard(t) \in ShardLocks
         /\ pc[t] = "gate" => Wanted(t) = <<Gate, "write">>
         /\ pc[t] = "rebalance" => Wanted(t) = <<Rebalance, "write">>
         /\ KeyMode(t) \in {"read", "write"}
<1>1. CallFits(pc[t], call[t], frame[t])
  BY DEF CallsKept
<1>2. pc[t] \in {"active", "previous"} => KeyInHand(t) \in Keys
  BY <1>1 DEF CallFits, InHand, KeyInHand
<1>3. pc[t] = "active" => \E i \in Idx : Wanted(t) = <<Active(i), KeyMode(t)>>
  BY <1>2, IndexTyped DEF Wanted
<1>4. pc[t] = "previous" => \E i \in Idx : Wanted(t) = <<Previous(i), KeyMode(t)>>
  BY <1>2, IndexTyped DEF Wanted, Falling
<1>5. pc[t] \in Planned => NextShard(t) \in ShardLocks
  BY <1>1, NextShardFirst DEF CallFits, Planned
<1>6. KeyMode(t) \in {"read", "write"}
  BY DEF KeyMode
<1>. QED
  BY <1>3, <1>4, <1>5, <1>6 DEF Wanted

\* An acquired lock was free, and nobody else's guards change.
LEMMA Acquired ==
  ASSUME LockTypes, WritersExclude, NEW t \in Threads, NEW L, NEW l \in Locks,
         NEW m \in {"read", "write"}, Wanted(t) = <<l, m>>, Acquire(t, L)
  PROVE  Took(t, IF m = "read" THEN {l} ELSE {}, IF m = "write" THEN {l} ELSE {}, L)
<1>1. Wanted(t)[1] = l /\ Wanted(t)[2] = m
  OBVIOUS
<1>2. writer[l] = NoTask /\ (m = "write" => readers[l] = {})
  BY <1>1 DEF Acquire, Obstacles
<1>3. readers' = [x \in Locks |->
       (IF x = l /\ m = "read" THEN readers[x] \cup {t} ELSE readers[x])
         \ (IF x \in L THEN {t} ELSE {})]
  BY <1>1 DEF Acquire
<1>4. writer' = [x \in Locks |->
       IF x \in L THEN (IF writer[x] = t THEN NoTask ELSE writer[x])
       ELSE IF x = l /\ m = "write" THEN t ELSE writer[x]]
  BY <1>1 DEF Acquire
<1>5. NoTask # t
  BY StateAssumption
<1>6. LockTypes'
  BY <1>3, <1>4 DEF LockTypes
<1>7. WritersExclude'
  <2>. SUFFICES ASSUME NEW x \in Locks, writer'[x] # NoTask PROVE readers'[x] = {}
    BY DEF WritersExclude
  <2>1. CASE x = l
    BY <1>2, <1>3, <1>4, <2>1
  <2>2. CASE x # l
    <3>1. writer[x] # NoTask
      BY <1>4, <2>2
    <3>2. readers[x] = {}
      BY <3>1 DEF WritersExclude
    <3>. QED
      BY <1>3, <2>2, <3>2
  <2>. QED
    BY <2>1, <2>2
<1>8. ASSUME NEW u \in Threads \ {t}, NEW x \in Locks
      PROVE  (u \in readers'[x] <=> u \in readers[x]) /\ (writer'[x] = u <=> writer[x] = u)
  <2>1. u # NoTask
    BY StateAssumption
  <2>. QED
    BY <1>2, <1>3, <1>4, <2>1
<1>9. ASSUME NEW x \in Locks
      PROVE  /\ t \in readers'[x]
                  <=> x \notin L /\ (t \in readers[x] \/ x \in IF m = "read" THEN {l} ELSE {})
             /\ writer'[x] = t
                  <=> x \notin L /\ (writer[x] = t \/ x \in IF m = "write" THEN {l} ELSE {})
  BY <1>2, <1>3, <1>4, <1>5
<1>. QED
  BY <1>6, <1>7, <1>8, <1>9 DEF Took

\* Released guards are gone, and nobody else's guards change.
LEMMA Released ==
  ASSUME LockTypes, WritersExclude, NEW t \in Threads, NEW L,
         readers' = [l \in Locks |-> IF l \in L THEN readers[l] \ {t} ELSE readers[l]],
         writer' = [l \in Locks |-> IF l \in L /\ writer[l] = t THEN NoTask ELSE writer[l]]
  PROVE  Took(t, {}, {}, L)
<1>1. NoTask # t /\ \A u \in Threads : u # NoTask
  BY StateAssumption
<1>2. LockTypes'
  BY DEF LockTypes
<1>3. WritersExclude'
  BY DEF WritersExclude
<1>. QED
  BY <1>1, <1>2, <1>3 DEF Took

\* Nothing happens to the locks.
LEMMA LocksIdle ==
  ASSUME LockTypes, WritersExclude, NEW t \in Threads, UNCHANGED <<readers, writer>>
  PROVE  Took(t, {}, {}, {})
  BY DEF Took, LockTypes, WritersExclude

\* Who is at an await under exclusive routing is alone.
LEMMA AloneIsAlone ==
  ASSUME Locking, NEW t \in Threads, pc[t] \in Alone, NEW u \in Threads, u # t
  PROVE  pc[u] \notin Sharing \cup Alone
<1>1. writer[Routing] = t /\ HeldBy(u) /\ Routing \in Locks /\ t # NoTask
  BY StateAssumption DEF Locking, HeldBy, Locks
<1>2. readers[Routing] = {}
  BY <1>1 DEF Locking, WritersExclude
<1>. QED
  BY <1>1, <1>2 DEF HeldBy

\* A step keeps the locks in order if t holds what it may hold afterwards.
LEMMA HeldStep ==
  ASSUME CallsKept, Locking, NEW t \in Threads, Only(t), NEW S, NEW X, NEW L,
         Took(t, S, X, L),
         previous_shard_count' = previous_shard_count \/ pc[t] \in Alone,
         pc'[t] = "previous" => previous_shard_count' # 0,
         \A x \in Locks : x \notin L /\ (x \in MayHold(pc[t], call[t], frame[t]) \cup S \cup X)
                            => x \in MayHold(pc'[t], call'[t], frame'[t]),
         pc'[t] \in Sharing => Routing \notin L /\ (pc[t] \in Sharing \/ Routing \in S),
         pc'[t] \in Alone => Routing \notin L /\ (pc[t] \in Alone \/ Routing \in X)
  PROVE  Locking'
<1>1. ASSUME NEW u \in Threads \ {t} PROVE HeldBy(u)'
  <2>1. pc'[u] = pc[u] /\ call'[u] = call[u] /\ frame'[u] = frame[u]
    BY DEF CallsKept, Only
  <2>2. HeldBy(u) /\ Routing \in Locks
    BY DEF Locking, Locks
  <2>3. \A x \in Locks :
          (u \in readers'[x] <=> u \in readers[x]) /\ (writer'[x] = u <=> writer[x] = u)
    BY DEF Took
  <2>. QED
    BY <2>1, <2>2, <2>3 DEF HeldBy, Holders
<1>2. HeldBy(t)'
  <2>1. HeldBy(t) /\ Routing \in Locks
    BY DEF Locking, Locks
  <2>2. \A x \in Locks :
          /\ t \in readers'[x] <=> x \notin L /\ (t \in readers[x] \/ x \in S)
          /\ writer'[x] = t <=> x \notin L /\ (writer[x] = t \/ x \in X)
    BY DEF Took
  <2>3. t # NoTask
    BY StateAssumption
  <2>4. ASSUME NEW x \in Locks, t \in Holders(x)'
        PROVE  x \in MayHold(pc'[t], call'[t], frame'[t])
    <3>1. x \notin L /\ (t \in Holders(x) \/ x \in S \cup X)
      BY <2>2, <2>3, <2>4 DEF Holders
    <3>. QED
      BY <2>1, <3>1 DEF HeldBy
  <2>5. pc'[t] \in Sharing => t \in readers'[Routing]
    BY <2>1, <2>2 DEF HeldBy
  <2>6. pc'[t] \in Alone => writer'[Routing] = t
    BY <2>1, <2>2 DEF HeldBy
  <2>. QED
    BY <2>4, <2>5, <2>6 DEF HeldBy
<1>3. Falling'
  <2>. SUFFICES ASSUME NEW u \in Threads, pc'[u] = "previous" PROVE previous_shard_count' # 0
    BY DEF Falling
  <2>1. CASE u # t
    <3>1. pc[u] = "previous"
      BY <2>1 DEF CallsKept, Only
    <3>2. pc[t] \notin Alone /\ previous_shard_count # 0
      BY <2>1, <3>1, AloneIsAlone DEF Locking, Falling, Sharing
    <3>. QED
      BY <3>2
  <2>. QED
    BY <2>1
<1>. QED
  BY <1>1, <1>2, <1>3 DEF Locking, Took

\* What may be held at each await, one by one.
LEMMA HoldAt ==
  ASSUME NEW l, NEW c, NEW f
  PROVE  /\ l = "exclusive" =>
              MayHold(l, c, f) = IF c.op \in LayoutOps THEN {Rebalance} ELSE {}
         /\ l \in {"pin", "fill"} => MayHold(l, c, f) = {Gate}
         /\ l = "pin_slots" => MayHold(l, c, f) = {Gate, Routing}
         /\ l = "previous" => MayHold(l, c, f) = {Routing, Slots} \cup {Active(i) : i \in Idx}
         /\ l = "guards" => MayHold(l, c, f) = {Gate, Routing, Slots} \cup Below(f.plan)
         /\ l = "pass_lock" => MayHold(l, c, f) = {Routing} \cup Below(f.plan)
         /\ l = "trim" => MayHold(l, c, f) = {Routing} \cup ShardLocks
         /\ l \in Resharding => MayHold(l, c, f) = {Rebalance, Routing}
         /\ l \in {"slots", "init", "active", "pass_slots", "scan", "sweep", "visit", "repair",
                   "evict"} => MayHold(l, c, f) = {Routing}
         /\ l \in {"idle", "return", "cached", "maintain", "glance", "route", "share", "pass",
                   "gate", "rebalance"} => MayHold(l, c, f) = {}
  BY DEF MayHold, Resharding

\* A lock to read.
LEMMA AcquiredRead ==
  ASSUME LockTypes, WritersExclude, NEW t \in Threads, NEW L, NEW l \in Locks,
         Wanted(t) = <<l, "read">>, Acquire(t, L)
  PROVE  Took(t, {l}, {}, L)
<1>1. Took(t, IF "read" = "read" THEN {l} ELSE {}, IF "read" = "write" THEN {l} ELSE {}, L)
  BY Acquired
<1>. QED
  BY <1>1

\* A lock to write.
LEMMA AcquiredWrite ==
  ASSUME LockTypes, WritersExclude, NEW t \in Threads, NEW L, NEW l \in Locks,
         Wanted(t) = <<l, "write">>, Acquire(t, L)
  PROVE  Took(t, {}, {l}, L)
<1>1. Took(t, IF "write" = "read" THEN {l} ELSE {}, IF "write" = "write" THEN {l} ELSE {}, L)
  BY Acquired
<1>. QED
  BY <1>1

\* The lock of a shard, read or written as the call requires.
LEMMA AcquiredShard ==
  ASSUME LockTypes, WritersExclude, NEW t \in Threads, NEW L, NEW l \in Locks,
         Wanted(t) = <<l, KeyMode(t)>>, Acquire(t, L)
  PROVE  \E S, X : S \cup X = {l} /\ Took(t, S, X, L)
<1>1. CASE KeyMode(t) = "read"
  <2>1. Wanted(t) = <<l, "read">>
    BY <1>1
  <2>2. Took(t, {l}, {}, L)
    BY <2>1, AcquiredRead
  <2>. QED
    BY <2>2
<1>2. CASE KeyMode(t) = "write"
  <2>1. Wanted(t) = <<l, "write">>
    BY <1>2
  <2>2. Took(t, {}, {l}, L)
    BY <2>1, AcquiredWrite
  <2>. QED
    BY <2>2
<1>. QED
  BY <1>1, <1>2 DEF KeyMode

\* A task that has taken the first shard of its plan holds only shards before the rest.
LEMMA PlanShrinks ==
  ASSUME CallsKept, NEW t \in Threads, pc[t] \in Planned,
         frame'[t].plan = frame[t].plan \ {NextShard(t)}
  PROVE  Below(frame[t].plan) \cup {NextShard(t)} \subseteq Below(frame'[t].plan)
<1>1. frame[t].plan \subseteq ShardLocks /\ frame[t].plan # {}
  BY DEF CallsKept, CallFits, Planned
<1>2. NextShard(t) \in frame[t].plan
        /\ \A l \in frame[t].plan : LockOrder(NextShard(t)) <= LockOrder(l)
  BY <1>1, NextShardFirst
<1>3. \A l \in frame'[t].plan : LockOrder(NextShard(t)) < LockOrder(l)
  BY <1>1, <1>2, LockOrderTotal
<1>. QED
  BY <1>1, <1>2, <1>3 DEF Below

\* A task that is done with the keys in hand holds routing, or nothing any more.
LEMMA DoneHolds ==
  ASSUME CallsKept, Locking, NEW t \in Threads, pc[t] \in InHand, Only(t), NEW old,
         Done(t, old), NEW S, NEW X, S \cup X \subseteq {Slots} \cup ShardLocks,
         Took(t, S, X, Dropped(t)), previous_shard_count' = previous_shard_count
  PROVE  Locking'
<1>. DEFINE HeldNow == MayHold(pc[t], call[t], frame[t])
            HeldThen == MayHold(pc'[t], call'[t], frame'[t])
<1>1. HeldNow \subseteq {Routing, Slots} \cup ShardLocks
  BY HoldAt DEF InHand, ShardLocks, Active
<1>2. CASE frame[t].left = frame[t].part
  <2>1. pc'[t] \in {"return", "maintain"}
    BY <1>2, DoneMoves DEF CallsKept
  <2>2. Dropped(t) = {Slots, Routing} \cup ShardLocks
    BY <1>2 DEF Dropped
  <2>3. \A x \in Locks : x \notin Dropped(t) /\ (x \in HeldNow \cup S \cup X) => x \in HeldThen
    BY <1>1, <2>2
  <2>. QED
    BY <2>1, <2>3, HeldStep DEF Sharing, Alone, Resharding
<1>3. CASE frame[t].left # frame[t].part
  <2>1. pc'[t] = "slots"
    BY <1>3, DoneMoves DEF CallsKept
  <2>2. Dropped(t) = {Slots} \cup ShardLocks
    BY <1>3 DEF Dropped
  <2>3. \A x \in Locks : x \notin Dropped(t) /\ (x \in HeldNow \cup S \cup X) => x \in HeldThen
    BY <1>1, <2>1, <2>2, HoldAt
  <2>4. Routing \notin Dropped(t) /\ pc[t] \in Sharing
    BY <2>2 DEF Routing, Slots, ShardLocks, Sharing, InHand
  <2>. QED
    BY <2>1, <2>3, <2>4, HeldStep DEF Sharing, Alone, Resharding
<1>. QED
  BY <1>2, <1>3

\* Every step keeps the locks in order.
LEMMA LockingNext ==
  ASSUME CallsKept, CountsKept, Locking, NEW t \in Threads, Step(t)
  PROVE  Locking'
<1>. DEFINE HeldNow == MayHold(pc[t], call[t], frame[t])
            HeldThen == MayHold(pc'[t], call'[t], frame'[t])
<1>a. CallFits(pc[t], call[t], frame[t]) /\ pc \in [Threads -> Labels]
        /\ DOMAIN call = Threads /\ DOMAIN frame = Threads
  BY DEF CallsKept
<1>l. LockTypes /\ WritersExclude /\ Only(t)
        /\ Gate \in Locks /\ Rebalance \in Locks /\ Routing \in Locks /\ Slots \in Locks
        /\ Gate # Rebalance /\ Routing \notin {Gate, Rebalance, Slots}
  BY OneMoves DEF Locking, Locks, Gate, Rebalance, Routing, Slots
<1>w. Falling
  BY DEF Locking
<1>. USE <1>a, <1>l
<1>1. ASSUME NEW c \in Mixes[config.mix], Invoke(t, c) PROVE Locking'
  <2>1. Took(t, {}, {}, {})
    BY <1>1, LocksIdle DEF locks, Invoke
  <2>2. c \in CallsMade
    BY ScenariosAssumption DEF CountsKept
  <2>3. pc[t] = "idle" /\ pc'[t] = FirstAwait(c)
          /\ previous_shard_count' = previous_shard_count
    BY <1>1 DEF Invoke, Goes, Goto, layout
  <2>4. pc'[t] \in {"route", "gate", "cached", "exclusive", "rebalance", "maintain"}
    BY <2>2, <2>3, CallsTyped DEF FirstAwait, KeyOps, BatchOps, LayoutOps
  <2>5. \A x \in Locks : x \notin {} /\ (x \in HeldNow \cup {} \cup {}) => x \in HeldThen
    BY <2>3, HoldAt
  <2>. QED
    BY <2>1, <2>3, <2>4, <2>5, HeldStep DEF Sharing, Alone, Resharding
<1>2. CASE Enqueue(t)
  <2>1. Took(t, {}, {}, {})
    BY <1>2, LocksIdle DEF Enqueue
  <2>2. /\ pc' = pc /\ call' = call /\ frame' = frame
        /\ previous_shard_count' = previous_shard_count
    BY <1>2 DEF Enqueue, layout
  <2>3. pc[t] = "previous" => previous_shard_count # 0
    BY DEF Locking, Falling
  <2>. QED
    BY <2>1, <2>2, <2>3, HeldStep
<1>3. CASE Return(t)
  <2>1. Took(t, {}, {}, {})
    BY <1>3, LocksIdle DEF locks, Return
  <2>2. pc[t] = "return" /\ pc'[t] = "idle" /\ previous_shard_count' = previous_shard_count
    BY <1>3 DEF Return, Goes, Goto, layout
  <2>3. \A x \in Locks : x \notin {} /\ (x \in HeldNow \cup {} \cup {}) => x \in HeldThen
    BY <2>2, HoldAt
  <2>. QED
    BY <2>1, <2>2, <2>3, HeldStep DEF Sharing, Alone, Resharding
<1>4. CASE Drop(t)
  <2>1. /\ readers' = [l \in Locks |-> IF l \in Locks THEN readers[l] \ {t} ELSE readers[l]]
        /\ writer' = [l \in Locks |-> IF l \in Locks /\ writer[l] = t THEN NoTask
                                      ELSE writer[l]]
    BY <1>4 DEF Drop
  <2>2. Took(t, {}, {}, Locks)
    BY <2>1, Released
  <2>3. pc'[t] = "idle" /\ previous_shard_count' = previous_shard_count
    BY <1>4 DEF Drop, Goes, Goto, layout
  <2>4. \A x \in Locks : x \notin Locks /\ (x \in HeldNow \cup {} \cup {}) => x \in HeldThen
    OBVIOUS
  <2>. QED
    BY <2>2, <2>3, <2>4, HeldStep DEF Sharing, Alone, Resharding
<1>5. CASE Route(t)
  <2>1. Took(t, {Routing}, {}, {})
    BY <1>5, <1>w, WantedAt, AcquiredRead DEF Route
  <2>2. pc[t] = "route" /\ pc'[t] = "slots" /\ previous_shard_count' = previous_shard_count
    BY <1>5 DEF Route, Goes, Goto, layout
  <2>3. \A x \in Locks : x \notin {} /\ (x \in HeldNow \cup {Routing} \cup {}) => x \in HeldThen
    BY <2>2, HoldAt
  <2>. QED
    BY <2>1, <2>2, <2>3, HeldStep DEF Sharing, Alone, Resharding
<1>6. CASE FindSlot(t)
  <2>. DEFINE L == IF KeepsSlots(t) THEN {} ELSE {Slots}
  <2>1. CASE Acquire(t, {Slots}) /\ pc' = [pc EXCEPT ![t] = pc'[t]]
               /\ pc'[t] \in {"active", "init"}
    <3>1. Took(t, {Slots}, {}, {Slots})
      BY <1>6, <2>1, <1>w, WantedAt, AcquiredRead DEF FindSlot
    <3>2. pc[t] = "slots" /\ previous_shard_count' = previous_shard_count
      BY <1>6 DEF FindSlot, layout
    <3>3. \A x \in Locks : x \notin {Slots} /\ (x \in HeldNow \cup {Slots} \cup {}) => x \in HeldThen
      BY <2>1, <3>2, HoldAt
    <3>. QED
      BY <2>1, <3>1, <3>2, <3>3, HeldStep DEF Sharing, Alone, Resharding
  <2>2. CASE FallsBack(t) /\ Acquire(t, L) /\ Goto(t, "previous")
    <3>1. Took(t, {Slots}, {}, L)
      BY <1>6, <2>2, <1>w, WantedAt, AcquiredRead DEF FindSlot
    <3>2. pc[t] = "slots" /\ pc'[t] = "previous" /\ previous_shard_count' = previous_shard_count
            /\ previous_shard_count # 0
      BY <1>6, <2>2 DEF FindSlot, layout, Goto, FallsBack, previous_shard
    <3>3. \A x \in Locks : x \notin L /\ (x \in HeldNow \cup {Slots} \cup {}) => x \in HeldThen
      BY <3>2, HoldAt
    <3>. QED
      BY <3>1, <3>2, <3>3, HeldStep DEF Sharing, Alone, Resharding
  <2>3. CASE Acquire(t, Dropped(t)) /\ Done(t, EmptyShard)
    <3>1. Took(t, {Slots}, {}, Dropped(t))
      BY <1>6, <2>3, <1>w, WantedAt, AcquiredRead DEF FindSlot
    <3>2. pc[t] = "slots" /\ previous_shard_count' = previous_shard_count
      BY <1>6 DEF FindSlot, layout
    <3>. QED
      BY <2>3, <3>1, <3>2, DoneHolds, OneMoves DEF InHand
  <2>. QED
    BY <1>6, <2>1, <2>2, <2>3 DEF FindSlot, Goto
<1>7. CASE InitSlot(t)
  <2>1. Took(t, {}, {Slots}, {Slots})
    BY <1>7, <1>w, WantedAt, AcquiredWrite DEF InitSlot
  <2>2. pc[t] = "init" /\ pc'[t] = "active" /\ previous_shard_count' = previous_shard_count
    BY <1>7 DEF InitSlot, Goto
  <2>3. \A x \in Locks : x \notin {Slots} /\ (x \in HeldNow \cup {} \cup {Slots}) => x \in HeldThen
    BY <2>2, HoldAt
  <2>. QED
    BY <2>1, <2>2, <2>3, HeldStep DEF Sharing, Alone, Resharding
<1>8. CASE ReadActive(t)
  <2>a. PICK i \in Idx : Wanted(t) = <<Active(i), KeyMode(t)>>
    BY <1>8, <1>w, WantedAt DEF ReadActive
  <2>b. Active(i) \in ShardLocks /\ Active(i) \in Locks
    BY DEF ShardLocks, Active, Locks
  <2>c. pc[t] = "active" /\ previous_shard_count' = previous_shard_count
    BY <1>8 DEF ReadActive, layout
  <2>1. CASE FallsBack(t) /\ Acquire(t, {}) /\ Goto(t, "previous")
    <3>1. PICK S, X : S \cup X = {Active(i)} /\ Took(t, S, X, {})
      BY <2>a, <2>b, <2>1, AcquiredShard
    <3>2. pc'[t] = "previous" /\ previous_shard_count # 0
      BY <2>1 DEF Goto, FallsBack, previous_shard
    <3>3. \A x \in Locks : x \notin {} /\ (x \in HeldNow \cup S \cup X) => x \in HeldThen
      BY <2>c, <3>1, <3>2, HoldAt
    <3>. QED
      BY <2>c, <3>1, <3>2, <3>3, HeldStep DEF Sharing, Alone, Resharding
  <2>2. ASSUME NEW old, Acquire(t, Dropped(t)), Done(t, old) PROVE Locking'
    <3>1. PICK S, X : S \cup X = {Active(i)} /\ Took(t, S, X, Dropped(t))
      BY <2>a, <2>b, <2>2, AcquiredShard
    <3>. QED
      BY <2>b, <2>c, <2>2, <3>1, DoneHolds, OneMoves DEF InHand
  <2>. QED
    BY <1>8, <2>1, <2>2 DEF ReadActive
<1>9. CASE ReadPrevious(t)
  <2>a. PICK i \in Idx : Wanted(t) = <<Previous(i), KeyMode(t)>>
    BY <1>9, <1>w, WantedAt DEF ReadPrevious
  <2>b. Previous(i) \in ShardLocks /\ Previous(i) \in Locks
    BY DEF ShardLocks, Previous, Locks
  <2>c. pc[t] = "previous" /\ previous_shard_count' = previous_shard_count
    BY <1>9 DEF ReadPrevious, layout
  <2>d. PICK old : Acquire(t, Dropped(t)) /\ Done(t, old)
    BY <1>9 DEF ReadPrevious
  <2>1. PICK S, X : S \cup X = {Previous(i)} /\ Took(t, S, X, Dropped(t))
    BY <2>a, <2>b, <2>d, AcquiredShard
  <2>. QED
    BY <2>b, <2>c, <2>d, <2>1, DoneHolds, OneMoves DEF InHand
<1>10. CASE LockActive(t)
  <2>a. PICK i \in Idx : Wanted(t) = <<Active(i), KeyMode(t)>>
    BY <1>10, <1>w, WantedAt DEF LockActive
  <2>b. Active(i) \in ShardLocks /\ Active(i) \in Locks
    BY DEF ShardLocks, Active, Locks
  <2>1. PICK S, X : S \cup X = {Active(i)} /\ Took(t, S, X, {})
    BY <1>10, <2>a, <2>b, AcquiredShard DEF LockActive
  <2>2. pc[t] = "active" /\ pc'[t] = "previous" /\ previous_shard_count # 0
          /\ previous_shard_count' = previous_shard_count
    BY <1>10 DEF LockActive, Goto, FallsBack, previous_shard, layout
  <2>3. \A x \in Locks : x \notin {} /\ (x \in HeldNow \cup S \cup X) => x \in HeldThen
    BY <2>1, <2>2, HoldAt
  <2>. QED
    BY <2>1, <2>2, <2>3, HeldStep DEF Sharing, Alone, Resharding
<1>11. CASE WriteKeys(t)
  <2>a. PICK l \in ShardLocks : Wanted(t) = <<l, KeyMode(t)>>
    BY <1>11, <1>w, WantedAt DEF WriteKeys, ShardLocks, Active, Previous
  <2>b. l \in Locks
    BY DEF Locks
  <2>c. pc[t] \in {"active", "previous"} /\ previous_shard_count' = previous_shard_count
    BY <1>11 DEF WriteKeys
  <2>d. PICK old : Acquire(t, Dropped(t)) /\ Done(t, old)
    BY <1>11 DEF WriteKeys
  <2>1. PICK S, X : S \cup X = {l} /\ Took(t, S, X, Dropped(t))
    BY <2>a, <2>b, <2>d, AcquiredShard
  <2>. QED
    BY <2>a, <2>c, <2>d, <2>1, DoneHolds, OneMoves DEF InHand
<1>12. CASE CachedSnapshot(t)
  <2>1. Took(t, {}, {}, {})
    BY <1>12, LocksIdle DEF locks, CachedSnapshot
  <2>2. pc[t] = "cached" /\ pc'[t] \in {"return", "gate"} /\ previous_shard_count' = previous_shard_count
    BY <1>12 DEF CachedSnapshot, Goes, Goto, layout
  <2>3. \A x \in Locks : x \notin {} /\ (x \in HeldNow \cup {} \cup {}) => x \in HeldThen
    BY <2>2, HoldAt
  <2>. QED
    BY <2>1, <2>2, <2>3, HeldStep DEF Sharing, Alone, Resharding
<1>13. CASE BuilderGate(t)
  <2>1. pc[t] = "gate" /\ previous_shard_count' = previous_shard_count
    BY <1>13 DEF BuilderGate, layout
  <2>2. ASSUME NEW f, Acquire(t, {Gate}), Goes(t, "return", f) PROVE Locking'
    <3>1. Took(t, {}, {Gate}, {Gate})
      BY <1>w, WantedAt, <2>1, <2>2, AcquiredWrite
    <3>2. pc'[t] = "return"
      BY <2>2 DEF Goes, Goto
    <3>3. \A x \in Locks : x \notin {Gate} /\ (x \in HeldNow \cup {} \cup {Gate}) => x \in HeldThen
      BY <2>1, <3>2, HoldAt
    <3>. QED
      BY <2>1, <3>1, <3>2, <3>3, HeldStep DEF Sharing, Alone, Resharding
  <2>3. CASE Acquire(t, {}) /\ Goto(t, "pin")
    <3>1. Took(t, {}, {Gate}, {})
      BY <1>w, WantedAt, <2>1, <2>3, AcquiredWrite
    <3>2. pc'[t] = "pin"
      BY <2>3 DEF Goto
    <3>3. \A x \in Locks : x \notin {} /\ (x \in HeldNow \cup {} \cup {Gate}) => x \in HeldThen
      BY <2>1, <3>2, HoldAt
    <3>. QED
      BY <2>1, <3>1, <3>2, <3>3, HeldStep DEF Sharing, Alone, Resharding
  <2>. QED
    BY <1>13, <2>2, <2>3 DEF BuilderGate
<1>14. CASE PinRouting(t)
  <2>1. Took(t, {Routing}, {}, {})
    BY <1>14, <1>w, WantedAt, AcquiredRead DEF PinRouting
  <2>2. pc[t] = "pin" /\ pc'[t] = "pin_slots" /\ previous_shard_count' = previous_shard_count
    BY <1>14 DEF PinRouting, Goto, layout
  <2>3. \A x \in Locks : x \notin {} /\ (x \in HeldNow \cup {Routing} \cup {}) => x \in HeldThen
    BY <2>2, HoldAt
  <2>. QED
    BY <2>1, <2>2, <2>3, HeldStep DEF Sharing, Alone, Resharding
<1>15. CASE PinSlots(t)
  <2>1. pc[t] = "pin_slots" /\ previous_shard_count' = previous_shard_count
    BY <1>15 DEF PinSlots, layout
  <2>2. CASE Collect(t)
    <3>1. PICK L : Acquire(t, L) /\ Locks \ {Gate} \subseteq L
                     /\ ((L = Locks /\ pc'[t] = "return") \/ pc'[t] = "fill")
      BY <2>2 DEF Collect, Goes, Goto
    <3>2. Took(t, {Slots}, {}, L)
      BY <1>w, WantedAt, <2>1, <3>1, AcquiredRead
    <3>3. \A x \in Locks : x \notin L /\ (x \in HeldNow \cup {Slots} \cup {}) => x \in HeldThen
      BY <2>1, <3>1, HoldAt
    <3>. QED
      BY <2>1, <3>1, <3>2, <3>3, HeldStep DEF Sharing, Alone, Resharding
  <2>3. CASE Acquire(t, {}) /\ Goes(t, "guards", [frame[t] EXCEPT !.plan = Frozen])
    <3>1. Took(t, {Slots}, {}, {})
      BY <1>w, WantedAt, <2>1, <2>3, AcquiredRead
    <3>2. pc'[t] = "guards"
      BY <2>3 DEF Goes, Goto
    <3>3. \A x \in Locks : x \notin {} /\ (x \in HeldNow \cup {Slots} \cup {}) => x \in HeldThen
      BY <2>1, <3>2, HoldAt
    <3>. QED
      BY <2>1, <3>1, <3>2, <3>3, HeldStep DEF Sharing, Alone, Resharding
  <2>. QED
    BY <1>15, <2>2, <2>3 DEF PinSlots
<1>16. CASE NextGuard(t)
  <2>1. PICK S, X : S \cup X = {NextShard(t)} /\ Took(t, S, X, {})
    BY <1>16, <1>w, WantedAt, AcquiredShard DEF NextGuard, Planned, Locks
  <2>2. pc[t] = "guards" /\ pc'[t] = "guards" /\ previous_shard_count' = previous_shard_count
          /\ frame'[t].plan = frame[t].plan \ {NextShard(t)}
    BY <1>16 DEF NextGuard, layout, CallFits, Fields
  <2>3. Below(frame[t].plan) \cup {NextShard(t)} \subseteq Below(frame'[t].plan)
    BY <2>2, PlanShrinks DEF Planned
  <2>4. \A x \in Locks : x \notin {} /\ (x \in HeldNow \cup S \cup X) => x \in HeldThen
    <3>1. HeldNow = {Gate, Routing, Slots} \cup Below(frame[t].plan)
      BY <2>2, HoldAt
    <3>2. HeldThen = {Gate, Routing, Slots} \cup Below(frame'[t].plan)
      BY <2>2 DEF MayHold, Resharding
    <3>3. S \cup X = {NextShard(t)}
      BY <2>1
    <3>. HIDE DEF HeldNow, HeldThen
    <3>. QED
      BY <2>3, <3>1, <3>2, <3>3
  <2>. QED
    BY <2>1, <2>2, <2>4, HeldStep DEF Sharing, Alone, Resharding
<1>17. CASE CollectShards(t)
  <2>1. pc[t] = "guards" /\ previous_shard_count' = previous_shard_count
    BY <1>17 DEF CollectShards, layout
  <2>2. PICK L : Acquire(t, L) /\ Locks \ {Gate} \subseteq L
                   /\ ((L = Locks /\ pc'[t] = "return") \/ pc'[t] = "fill")
    BY <1>17 DEF CollectShards, Collect, Goes, Goto
  <2>3. PICK S, X : S \cup X = {NextShard(t)} /\ Took(t, S, X, L)
    BY <1>w, WantedAt, <2>1, <2>2, AcquiredShard DEF Planned, Locks
  <2>4. \A x \in Locks : x \notin L /\ (x \in HeldNow \cup S \cup X) => x \in HeldThen
    BY <2>2, <2>3, <1>w, WantedAt, <2>1, HoldAt DEF Planned, ShardLocks, Gate
  <2>. QED
    BY <2>1, <2>2, <2>3, <2>4, HeldStep DEF Sharing, Alone, Resharding
<1>18. CASE FillCache(t)
  <2>1. Took(t, {}, {}, {Gate})
    BY <1>18, Released DEF Release, FillCache
  <2>2. pc[t] = "fill" /\ pc'[t] = "return" /\ previous_shard_count' = previous_shard_count
    BY <1>18 DEF FillCache, Goto, layout
  <2>3. \A x \in Locks : x \notin {Gate} /\ (x \in HeldNow \cup {} \cup {}) => x \in HeldThen
    BY <2>2, HoldAt
  <2>. QED
    BY <2>1, <2>2, <2>3, HeldStep DEF Sharing, Alone, Resharding
<1>19. CASE TxnSlot(t)
  <2>1. pc[t] = "slots" /\ previous_shard_count' = previous_shard_count /\ Acquire(t, {Slots})
          /\ pc'[t] \in {"slots", "guards", "init"}
    BY <1>19 DEF TxnSlot, Resolved, Goes, Goto, layout
  <2>2. Took(t, {Slots}, {}, {Slots})
    BY <1>w, WantedAt, <2>1, AcquiredRead
  <2>3. \A x \in Locks : x \notin {Slots} /\ (x \in HeldNow \cup {Slots} \cup {}) => x \in HeldThen
    BY <2>1, HoldAt
  <2>. QED
    BY <2>1, <2>2, <2>3, HeldStep DEF Sharing, Alone, Resharding
<1>20. CASE TxnInit(t)
  <2>1. pc[t] = "init" /\ previous_shard_count' = previous_shard_count /\ Acquire(t, {Slots})
          /\ pc'[t] \in {"slots", "guards", "init"}
    BY <1>20 DEF TxnInit, Resolved, Goes, Goto, layout
  <2>2. Took(t, {}, {Slots}, {Slots})
    BY <1>w, WantedAt, <2>1, AcquiredWrite
  <2>3. \A x \in Locks : x \notin {Slots} /\ (x \in HeldNow \cup {} \cup {Slots}) => x \in HeldThen
    BY <2>1, HoldAt
  <2>. QED
    BY <2>1, <2>2, <2>3, HeldStep DEF Sharing, Alone, Resharding
<1>21. CASE Commit(t)
  <2>1. PICK S, X : S \cup X = {NextShard(t)} /\ Took(t, S, X, Locks)
    BY <1>21, <1>w, WantedAt, AcquiredShard DEF Commit, Planned, Locks
  <2>2. pc[t] = "guards" /\ pc'[t] = "maintain" /\ previous_shard_count' = previous_shard_count
    BY <1>21 DEF Commit, Goes, Goto
  <2>3. \A x \in Locks : x \notin Locks /\ (x \in HeldNow \cup S \cup X) => x \in HeldThen
    OBVIOUS
  <2>. QED
    BY <2>1, <2>2, <2>3, HeldStep DEF Sharing, Alone, Resharding
<1>22. CASE Exclusive(t)
  <2>1. Took(t, {}, {Routing}, {})
    BY <1>22, <1>w, WantedAt, AcquiredWrite DEF Exclusive
  <2>2. pc[t] = "exclusive" /\ pc'[t] \in {"visit", "sweep"} /\ previous_shard_count' = previous_shard_count
          /\ call[t].op \notin LayoutOps
    BY <1>22 DEF Exclusive, Goes, Goto, layout, LayoutOps
  <2>3. \A x \in Locks : x \notin {} /\ (x \in HeldNow \cup {} \cup {Routing}) => x \in HeldThen
    BY <2>2, HoldAt
  <2>. QED
    BY <2>1, <2>2, <2>3, HeldStep DEF Sharing, Alone, Resharding
<1>23. CASE Sweep(t)
  <2>1. Took(t, {}, {}, {Routing})
    BY <1>23, Released DEF Release, Sweep
  <2>2. pc[t] = "sweep" /\ pc'[t] = "maintain" /\ TRUE
    BY <1>23 DEF Sweep, Goes, Goto
  <2>3. \A x \in Locks : x \notin {Routing} /\ (x \in HeldNow \cup {} \cup {}) => x \in HeldThen
    BY <2>2, HoldAt
  <2>. QED
    BY <2>1, <2>2, <2>3, HeldStep DEF Sharing, Alone, Resharding
<1>24. CASE Visit(t)
  <2>1. Took(t, {}, {}, {})
    BY <1>24, LocksIdle DEF locks, Visit
  <2>2. pc[t] = "visit" /\ pc'[t] = "visit" /\ previous_shard_count' = previous_shard_count
    BY <1>24 DEF Visit
  <2>3. \A x \in Locks : x \notin {} /\ (x \in HeldNow \cup {} \cup {}) => x \in HeldThen
    BY <2>2, HoldAt
  <2>. QED
    BY <2>1, <2>2, <2>3, HeldStep DEF Sharing, Alone, Resharding
<1>25. CASE Visited(t)
  <2>1. Took(t, {}, {}, {Routing})
    BY <1>25, Released DEF Release, Visited
  <2>2. pc[t] = "visit" /\ pc'[t] = "maintain" /\ previous_shard_count' = previous_shard_count
    BY <1>25 DEF Visited, Goes, Goto, layout
  <2>3. \A x \in Locks : x \notin {Routing} /\ (x \in HeldNow \cup {} \cup {}) => x \in HeldThen
    BY <2>2, HoldAt
  <2>. QED
    BY <2>1, <2>2, <2>3, HeldStep DEF Sharing, Alone, Resharding
<1>26. CASE RebalanceLock(t)
  <2>1. Took(t, {}, {Rebalance}, {})
    BY <1>26, <1>w, WantedAt, AcquiredWrite DEF RebalanceLock
  <2>2. pc[t] = "rebalance" /\ pc'[t] = "exclusive" /\ previous_shard_count' = previous_shard_count
          /\ call' = call /\ call[t].op \in LayoutOps
    BY <1>26 DEF RebalanceLock, Goto, layout, CallFits
  <2>3. \A x \in Locks : x \notin {} /\ (x \in HeldNow \cup {} \cup {Rebalance}) => x \in HeldThen
    BY <2>2, HoldAt
  <2>. QED
    BY <2>1, <2>2, <2>3, HeldStep DEF Sharing, Alone, Resharding
<1>27. CASE ExclusiveRouting(t)
  <2>1. pc[t] = "exclusive" /\ call[t].op \in LayoutOps
          /\ previous_shard_count' = previous_shard_count
    BY <1>27 DEF ExclusiveRouting, layout
  <2>2. CASE Acquire(t, Locks) /\ Goto(t, "return")
    <3>1. Took(t, {}, {Routing}, Locks)
      BY <1>w, WantedAt, <2>1, <2>2, AcquiredWrite
    <3>2. pc'[t] = "return"
      BY <2>2 DEF Goto
    <3>3. \A x \in Locks : x \notin Locks /\ (x \in HeldNow \cup {} \cup {Routing}) => x \in HeldThen
      OBVIOUS
    <3>. QED
      BY <2>1, <3>1, <3>2, <3>3, HeldStep DEF Sharing, Alone, Resharding
  <2>3. CASE Acquire(t, {}) /\ pc'[t] \in Resharding
    <3>1. Took(t, {}, {Routing}, {})
      BY <1>w, WantedAt, <2>1, <2>3, AcquiredWrite
    <3>2. \A x \in Locks : x \notin {} /\ (x \in HeldNow \cup {} \cup {Routing}) => x \in HeldThen
      BY <2>1, <2>3, HoldAt
    <3>. QED
      BY <2>1, <2>3, <3>1, <3>2, HeldStep DEF Sharing, Alone, Resharding
  <2>. QED
    BY <1>27, <2>1, <2>2, <2>3 DEF ExclusiveRouting, Goto, LayoutOps, Resharding
<1>28. CASE start_rebalance_online(t)
  <2>1. Took(t, {}, {}, Locks)
    BY <1>28, Released DEF Release, start_rebalance_online
  <2>2. pc[t] = "swap" /\ pc'[t] = "return" /\ TRUE
    BY <1>28 DEF start_rebalance_online, Goto
  <2>3. \A x \in Locks : x \notin Locks /\ (x \in HeldNow \cup {} \cup {}) => x \in HeldThen
    BY <2>2, HoldAt
  <2>. QED
    BY <2>1, <2>2, <2>3, HeldStep DEF Sharing, Alone, Resharding
<1>29. CASE rebalance_to(t)
  <2>1. Took(t, {}, {}, Locks)
    BY <1>29, Released DEF Release, rebalance_to
  <2>2. pc[t] = "rebuild" /\ pc'[t] = "return" /\ TRUE
    BY <1>29 DEF rebalance_to, Goto
  <2>3. \A x \in Locks : x \notin Locks /\ (x \in HeldNow \cup {} \cup {}) => x \in HeldThen
    BY <2>2, HoldAt
  <2>. QED
    BY <2>1, <2>2, <2>3, HeldStep DEF Sharing, Alone, Resharding
<1>30. CASE LoadBatch(t)
  <2>1. Took(t, {}, {}, {})
    BY <1>30, LocksIdle DEF locks, LoadBatch
  <2>2. pc[t] = "batch" /\ pc'[t] \in {"drained", "move"} /\ previous_shard_count' = previous_shard_count
    BY <1>30 DEF LoadBatch, Goto, Pops, Goes
  <2>3. \A x \in Locks : x \notin {} /\ (x \in HeldNow \cup {} \cup {}) => x \in HeldThen
    BY <2>2, HoldAt DEF Resharding
  <2>. QED
    BY <2>1, <2>2, <2>3, HeldStep DEF Sharing, Alone, Resharding
<1>31. CASE MoveEntry(t)
  <2>1. Took(t, {}, {}, {})
    BY <1>31, LocksIdle DEF locks, MoveEntry
  <2>2. pc[t] = "move" /\ pc'[t] = "drained" /\ previous_shard_count' = previous_shard_count
    BY <1>31 DEF MoveEntry, Goes, Goto
  <2>3. \A x \in Locks : x \notin {} /\ (x \in HeldNow \cup {} \cup {}) => x \in HeldThen
    BY <2>2, HoldAt DEF Resharding
  <2>. QED
    BY <2>1, <2>2, <2>3, HeldStep DEF Sharing, Alone, Resharding
<1>32. CASE SourceLeft(t)
  <2>1. pc[t] = "drained"
    BY <1>32 DEF SourceLeft
  <2>2. CASE Release(t, Locks) /\ pc'[t] = "return"
    <3>1. Took(t, {}, {}, Locks)
      BY <2>2, Released DEF Release
    <3>2. \A x \in Locks : x \notin Locks /\ (x \in HeldNow \cup {} \cup {}) => x \in HeldThen
      OBVIOUS
    <3>. QED
      BY <2>1, <2>2, <3>1, <3>2, HeldStep DEF Sharing, Alone, Resharding
  <2>3. CASE UNCHANGED locks /\ pc'[t] \in {"move", "batch"}
    <3>1. Took(t, {}, {}, {})
      BY <2>3, LocksIdle DEF locks
    <3>2. \A x \in Locks : x \notin {} /\ (x \in HeldNow \cup {} \cup {}) => x \in HeldThen
      BY <2>1, <2>3, HoldAt DEF Resharding
    <3>. QED
      BY <2>1, <2>3, <3>1, <3>2, HeldStep DEF Sharing, Alone, Resharding
  <2>. QED
    BY <1>32, <2>2, <2>3 DEF SourceLeft, BatchEnds, Pops, Goes, Goto
<1>33. CASE SourceDrained(t)
  <2>1. pc[t] = "drained"
    BY <1>33 DEF SourceDrained
  <2>2. CASE Release(t, Locks) /\ pc'[t] = "return"
    <3>1. Took(t, {}, {}, Locks)
      BY <2>2, Released DEF Release
    <3>2. \A x \in Locks : x \notin Locks /\ (x \in HeldNow \cup {} \cup {}) => x \in HeldThen
      OBVIOUS
    <3>. QED
      BY <2>1, <2>2, <3>1, <3>2, HeldStep DEF Sharing, Alone, Resharding
  <2>3. CASE UNCHANGED locks /\ pc'[t] \in {"move", "batch"}
    <3>1. Took(t, {}, {}, {})
      BY <2>3, LocksIdle DEF locks
    <3>2. \A x \in Locks : x \notin {} /\ (x \in HeldNow \cup {} \cup {}) => x \in HeldThen
      BY <2>1, <2>3, HoldAt DEF Resharding
    <3>. QED
      BY <2>1, <2>3, <3>1, <3>2, HeldStep DEF Sharing, Alone, Resharding
  <2>. QED
    BY <1>33, <2>2, <2>3 DEF SourceDrained, BatchEnds, Pops, Goes, Goto
<1>34. CASE Maintain(t)
  <2>1. Took(t, {}, {}, {})
    BY <1>34, LocksIdle DEF locks, Maintain
  <2>2. pc[t] = "maintain" /\ pc'[t] \in {"return", "share", "glance"} /\ previous_shard_count' = previous_shard_count
    BY <1>34 DEF Maintain, Goto, layout
  <2>3. \A x \in Locks : x \notin {} /\ (x \in HeldNow \cup {} \cup {}) => x \in HeldThen
    BY <2>2, HoldAt
  <2>. QED
    BY <2>1, <2>2, <2>3, HeldStep DEF Sharing, Alone, Resharding
<1>35. CASE Glance(t)
  <2>1. Took(t, {}, {}, {})
    BY <1>35, LocksIdle DEF locks, Glance
  <2>2. pc[t] = "glance" /\ pc'[t] \in {"return", "pass"} /\ previous_shard_count' = previous_shard_count
    BY <1>35 DEF Glance, Goto, layout
  <2>3. \A x \in Locks : x \notin {} /\ (x \in HeldNow \cup {} \cup {}) => x \in HeldThen
    BY <2>2, HoldAt
  <2>. QED
    BY <2>1, <2>2, <2>3, HeldStep DEF Sharing, Alone, Resharding
<1>36. CASE ExclusivePass(t)
  <2>1. Took(t, {}, {Routing}, {})
    BY <1>36, <1>w, WantedAt, AcquiredWrite DEF ExclusivePass
  <2>2. pc[t] = "pass" /\ pc'[t] \in {"repair", "evict"} /\ previous_shard_count' = previous_shard_count
    BY <1>36 DEF ExclusivePass, Goto, layout
  <2>3. \A x \in Locks : x \notin {} /\ (x \in HeldNow \cup {} \cup {Routing}) => x \in HeldThen
    BY <2>2, HoldAt
  <2>. QED
    BY <2>1, <2>2, <2>3, HeldStep DEF Sharing, Alone, Resharding
<1>37. CASE Repair(t)
  <2>1. Took(t, {}, {}, {})
    BY <1>37, LocksIdle DEF locks, Repair
  <2>2. pc[t] = "repair" /\ pc'[t] = "evict" /\ previous_shard_count' = previous_shard_count
    BY <1>37 DEF Repair, Goto, layout
  <2>3. \A x \in Locks : x \notin {} /\ (x \in HeldNow \cup {} \cup {}) => x \in HeldThen
    BY <2>2, HoldAt
  <2>. QED
    BY <2>1, <2>2, <2>3, HeldStep DEF Sharing, Alone, Resharding
<1>38. CASE EvictGlobally(t)
  <2>1. Took(t, {}, {}, {Routing})
    BY <1>38, Released DEF Release, EvictGlobally
  <2>2. pc[t] = "evict" /\ pc'[t] = "return" /\ previous_shard_count' = previous_shard_count
    BY <1>38 DEF EvictGlobally, Goto
  <2>3. \A x \in Locks : x \notin {Routing} /\ (x \in HeldNow \cup {} \cup {}) => x \in HeldThen
    BY <2>2, HoldAt
  <2>. QED
    BY <2>1, <2>2, <2>3, HeldStep DEF Sharing, Alone, Resharding
<1>39. CASE SharePass(t)
  <2>1. pc[t] = "share" /\ previous_shard_count' = previous_shard_count
    BY <1>39 DEF SharePass, layout
  <2>2. CASE Acquire(t, {Routing}) /\ GivesUp(t)
    <3>1. Took(t, {Routing}, {}, {Routing})
      BY <1>w, WantedAt, <2>1, <2>2, AcquiredRead
    <3>2. pc'[t] = "glance"
      BY <2>2 DEF GivesUp, Goto
    <3>3. \A x \in Locks :
            x \notin {Routing} /\ (x \in HeldNow \cup {Routing} \cup {}) => x \in HeldThen
      BY <2>1, <3>2, HoldAt
    <3>. QED
      BY <2>1, <3>1, <3>2, <3>3, HeldStep DEF Sharing, Alone, Resharding
  <2>3. CASE Acquire(t, {}) /\ Goto(t, "pass_slots")
    <3>1. Took(t, {Routing}, {}, {})
      BY <1>w, WantedAt, <2>1, <2>3, AcquiredRead
    <3>2. pc'[t] = "pass_slots"
      BY <2>3 DEF Goto
    <3>3. \A x \in Locks : x \notin {} /\ (x \in HeldNow \cup {Routing} \cup {}) => x \in HeldThen
      BY <2>1, <3>2, HoldAt
    <3>. QED
      BY <2>1, <3>1, <3>2, <3>3, HeldStep DEF Sharing, Alone, Resharding
  <2>. QED
    BY <1>39, <2>2, <2>3 DEF SharePass
<1>40. CASE PassSlots(t)
  <2>1. Took(t, {Slots}, {}, {Slots})
    BY <1>40, <1>w, WantedAt, AcquiredRead DEF PassSlots
  <2>2. pc[t] = "pass_slots" /\ pc'[t] \in {"scan", "pass_lock", "trim"} /\ previous_shard_count' = previous_shard_count
    BY <1>40 DEF PassSlots, Goes, AfterScan, Goto, layout
  <2>3. \A x \in Locks : x \notin {Slots} /\ (x \in HeldNow \cup {Slots} \cup {}) => x \in HeldThen
    BY <2>2, HoldAt
  <2>. QED
    BY <2>1, <2>2, <2>3, HeldStep DEF Sharing, Alone, Resharding
<1>41. CASE Scan(t)
  <2>1. Took(t, {NextShard(t)}, {}, {NextShard(t)})
    BY <1>41, <1>w, WantedAt, AcquiredRead DEF Scan, Planned, Locks
  <2>2. pc[t] = "scan" /\ pc'[t] \in {"scan", "pass_lock", "trim"} /\ previous_shard_count' = previous_shard_count
    BY <1>41 DEF Scan, Goes, AfterScan, Goto, layout
  <2>3. \A x \in Locks : x \notin {NextShard(t)} /\ (x \in HeldNow \cup {NextShard(t)} \cup {}) => x \in HeldThen
    <3>1. HeldNow = {Routing} /\ Routing \in HeldThen
      BY <2>2, HoldAt
    <3>. HIDE DEF HeldNow, HeldThen
    <3>. QED
      BY <3>1
  <2>4. Routing \notin {NextShard(t)}
    BY <1>41, <1>w, WantedAt DEF Scan, Planned, ShardLocks, Routing
  <2>. QED
    BY <2>1, <2>2, <2>3, <2>4, HeldStep DEF Sharing, Alone, Resharding
<1>42. CASE PassLock(t)
  <2>1. Took(t, {}, {NextShard(t)}, {})
    BY <1>42, <1>w, WantedAt, AcquiredWrite DEF PassLock, Planned, Locks
  <2>2. pc[t] = "pass_lock" /\ pc'[t] \in {"trim", "pass_lock"}
          /\ previous_shard_count' = previous_shard_count
          /\ frame'[t].plan = frame[t].plan \ {NextShard(t)}
    BY <1>42 DEF PassLock, Goes, Goto, layout, CallFits, Fields
  <2>3. Below(frame[t].plan) \cup {NextShard(t)} \subseteq Below(frame'[t].plan)
    BY <2>2, PlanShrinks DEF Planned
  <2>4. \A x \in Locks : x \notin {} /\ (x \in HeldNow \cup {} \cup {NextShard(t)}) => x \in HeldThen
    BY <2>2, <2>3, HoldAt DEF Below
  <2>. QED
    BY <2>1, <2>2, <2>4, HeldStep DEF Sharing, Alone, Resharding
<1>43. CASE TrimShards(t)
  <2>1. Took(t, {}, {}, Locks)
    BY <1>43, Released DEF Release, TrimShards
  <2>2. pc[t] = "trim" /\ pc'[t] \in {"glance", "return"} /\ previous_shard_count' = previous_shard_count
    BY <1>43 DEF TrimShards, GivesUp, Goto
  <2>3. \A x \in Locks : x \notin Locks /\ (x \in HeldNow \cup {} \cup {}) => x \in HeldThen
    BY <2>2, HoldAt
  <2>. QED
    BY <2>1, <2>2, <2>3, HeldStep DEF Sharing, Alone, Resharding
<1>. QED
  BY <1>1, <1>2, <1>3, <1>4, <1>5, <1>6, <1>7, <1>8, <1>9, <1>10, <1>11, <1>12, <1>13,
     <1>14, <1>15, <1>16, <1>17, <1>18, <1>19, <1>20, <1>21, <1>22, <1>23, <1>24, <1>25,
     <1>26, <1>27, <1>28, <1>29, <1>30, <1>31, <1>32, <1>33, <1>34, <1>35, <1>36, <1>37,
     <1>38, <1>39, <1>40, <1>41, <1>42, <1>43
  DEF Step, KeyStep, BulkStep, MigrationStep, EvictionStep


-----------------------------------------------------------------------------
Base == CallsKept /\ CountsKept /\ Locking

\* Stuttering changes nothing of that.
LEMMA BaseStutters ==
  ASSUME Base, UNCHANGED vars
  PROVE  Base'
<1>. USE DEF vars, layout, locks
<1>1. CallsKept' /\ CountsKept'
  BY DEF Base, CallsKept, CountsKept
<1>2. Locking'
  BY DEF Base, Locking, LockTypes, WritersExclude, Falling, HeldBy, Holders
<1>. QED
  BY <1>1, <1>2 DEF Base

\* The base of the invariant is inductive.
LEMMA BaseNext == Base /\ [Next]_vars => Base'
<1>. SUFFICES ASSUME Base, [Next]_vars PROVE Base'
  OBVIOUS
<1>1. ASSUME NEW t \in Threads, Step(t) PROVE Base'
  BY <1>1, CallsNext, CountsNext, LockingNext DEF Base
<1>2. CASE Next
  BY <1>1, <1>2 DEF Next, Step
<1>. QED
  BY <1>2, BaseStutters

\* Who holds a shard or the directory holds routing.
LEMMA LockingExcludes == Base => RoutingExcludes
<1>. SUFFICES ASSUME Base PROVE RoutingExcludes
  OBVIOUS
<1>1. Routing \in Locks /\ ShardLocks \cup {Slots} \subseteq Locks
  BY DEF Locks
<1>2. ASSUME NEW l \in ShardLocks \cup {Slots}, NEW t \in Holders(l)
      PROVE  t \in Holders(Routing)
  <2>1. t \in Threads
    BY <1>1, <1>2 DEF Base, Locking, LockTypes, Holders
  <2>2. HeldBy(t) /\ CallFits(pc[t], call[t], frame[t])
    BY <2>1 DEF Base, Locking, CallsKept
  <2>3. l \in MayHold(pc[t], call[t], frame[t])
    BY <1>1, <2>2 DEF HeldBy
  <2>4. l \notin {Gate, Rebalance, Routing}
    BY DEF ShardLocks, Gate, Rebalance, Routing, Slots
  <2>5. pc[t] \in {"previous", "guards", "pass_lock", "trim"}
    BY <2>2, <2>3, <2>4, HoldAt
    DEF CallFits, Labels, Sharing, Alone, Resharding, Outside, Entering
  <2>. QED
    BY <2>2, <2>5 DEF HeldBy, Sharing, Holders
<1>3. writer[Routing] # NoTask => Holders(Routing) = {writer[Routing]}
  BY <1>1 DEF Base, Locking, WritersExclude, Holders
<1>. QED
  BY <1>2, <1>3 DEF RoutingExcludes

\* What a task has in hand and which locks it holds fit the await it is at, always: this is
\* the table of locks of core/async_impl.rs that the other proofs about the map rest on.
THEOREM LockTableKept == Spec => []Base
<1>1. Init => Base
  BY CallsInit DEF Base
<1>. QED
  BY <1>1, BaseNext, PTL DEF Spec

\* Exclusive routing excludes everybody: whoever holds a shard or the directory also holds
\* routing, and under exclusive routing nobody else does (routing_lock of AsyncShardedHashMap).
THEOREM RoutingAlwaysExcludes == Spec => []RoutingExcludes
  BY LockTableKept, LockingExcludes, PTL

-----------------------------------------------------------------------------
(*****************************************************************************)
(* Queues.                                                                   *)
(*****************************************************************************)
Wants == {"slots", "init", "active", "previous", "pin_slots", "guards", "pass_slots", "scan",
          "pass_lock"} \cup Entering

Queues ==
  /\ waiting \subseteq Threads /\ ahead \in [Threads -> SUBSET Threads]
  /\ \A t \in waiting : pc[t] \in Wants
  /\ \A t \in waiting : \A u \in ahead[t] :
       u \in waiting /\ u # t /\ Wanted(u)[1] = Wanted(t)[1] /\ ahead[u] \subseteq ahead[t]

\* Only under exclusive routing does the layout change.
LEMMA LayoutStays ==
  ASSUME CallsKept, NEW t \in Threads, Step(t)
  PROVE  \/ UNCHANGED <<config, shard_count, previous_shard_count, migrating, moved_shards>>
         \/ pc[t] \in Alone /\ UNCHANGED config
<1>. USE DEF layout
<1>1. ASSUME NEW c \in Mixes[config.mix], Invoke(t, c)
      PROVE  UNCHANGED <<config, shard_count, previous_shard_count, migrating, moved_shards>>
  BY <1>1 DEF Invoke
<1>2. Enqueue(t) => UNCHANGED <<config, shard_count, previous_shard_count, migrating, moved_shards>>
  BY DEF Enqueue
<1>3. Return(t) => UNCHANGED <<config, shard_count, previous_shard_count, migrating, moved_shards>>
  BY DEF Return
<1>4. Drop(t) => UNCHANGED <<config, shard_count, previous_shard_count, migrating, moved_shards>>
  BY DEF Drop
<1>5. Route(t) => UNCHANGED <<config, shard_count, previous_shard_count, migrating, moved_shards>>
  BY DEF Route
<1>6. FindSlot(t) => UNCHANGED <<config, shard_count, previous_shard_count, migrating, moved_shards>>
  BY DEF FindSlot
<1>7. InitSlot(t) => UNCHANGED <<config, shard_count, previous_shard_count, migrating, moved_shards>>
  BY DEF InitSlot
<1>8. ReadActive(t) => UNCHANGED <<config, shard_count, previous_shard_count, migrating, moved_shards>>
  BY DEF ReadActive
<1>9. ReadPrevious(t) => UNCHANGED <<config, shard_count, previous_shard_count, migrating, moved_shards>>
  BY DEF ReadPrevious
<1>10. LockActive(t) => UNCHANGED <<config, shard_count, previous_shard_count, migrating, moved_shards>>
  BY DEF LockActive
<1>11. WriteKeys(t) => UNCHANGED <<config, shard_count, previous_shard_count, migrating, moved_shards>>
  BY DEF WriteKeys
<1>12. CachedSnapshot(t) => UNCHANGED <<config, shard_count, previous_shard_count, migrating, moved_shards>>
  BY DEF CachedSnapshot
<1>13. BuilderGate(t) => UNCHANGED <<config, shard_count, previous_shard_count, migrating, moved_shards>>
  BY DEF BuilderGate
<1>14. PinRouting(t) => UNCHANGED <<config, shard_count, previous_shard_count, migrating, moved_shards>>
  BY DEF PinRouting
<1>15. PinSlots(t) => UNCHANGED <<config, shard_count, previous_shard_count, migrating, moved_shards>>
  BY DEF PinSlots
<1>16. NextGuard(t) => UNCHANGED <<config, shard_count, previous_shard_count, migrating, moved_shards>>
  BY DEF NextGuard
<1>17. CollectShards(t) => UNCHANGED <<config, shard_count, previous_shard_count, migrating, moved_shards>>
  BY DEF CollectShards
<1>18. FillCache(t) => UNCHANGED <<config, shard_count, previous_shard_count, migrating, moved_shards>>
  BY DEF FillCache
<1>19. TxnSlot(t) => UNCHANGED <<config, shard_count, previous_shard_count, migrating, moved_shards>>
  BY DEF TxnSlot
<1>20. TxnInit(t) => UNCHANGED <<config, shard_count, previous_shard_count, migrating, moved_shards>>
  BY DEF TxnInit
<1>21. Commit(t) => UNCHANGED <<config, shard_count, previous_shard_count, migrating, moved_shards>>
  BY DEF Commit
<1>22. Exclusive(t) => UNCHANGED <<config, shard_count, previous_shard_count, migrating, moved_shards>>
  BY DEF Exclusive
<1>23. Sweep(t) => pc[t] \in Alone /\ UNCHANGED config
  BY DEF Sweep, Alone, Resharding
<1>24. Visit(t) => UNCHANGED <<config, shard_count, previous_shard_count, migrating, moved_shards>>
  BY DEF Visit
<1>25. Visited(t) => UNCHANGED <<config, shard_count, previous_shard_count, migrating, moved_shards>>
  BY DEF Visited
<1>26. RebalanceLock(t) => UNCHANGED <<config, shard_count, previous_shard_count, migrating, moved_shards>>
  BY DEF RebalanceLock
<1>27. ExclusiveRouting(t) => UNCHANGED <<config, shard_count, previous_shard_count, migrating, moved_shards>>
  BY DEF ExclusiveRouting
<1>28. start_rebalance_online(t) => pc[t] \in Alone /\ UNCHANGED config
  BY DEF start_rebalance_online, Alone, Resharding
<1>29. rebalance_to(t) => pc[t] \in Alone /\ UNCHANGED config
  BY DEF rebalance_to, Alone, Resharding
<1>30. LoadBatch(t) => UNCHANGED <<config, shard_count, previous_shard_count, migrating, moved_shards>>
  BY DEF LoadBatch
<1>31. MoveEntry(t) => UNCHANGED <<config, shard_count, previous_shard_count, migrating, moved_shards>>
  BY DEF MoveEntry
<1>32. SourceLeft(t) => UNCHANGED <<config, shard_count, previous_shard_count, migrating, moved_shards>>
  BY DEF SourceLeft
<1>33. SourceDrained(t) => pc[t] \in Alone /\ UNCHANGED config
  BY DEF SourceDrained, Alone, Resharding
<1>34. Maintain(t) => UNCHANGED <<config, shard_count, previous_shard_count, migrating, moved_shards>>
  BY DEF Maintain
<1>35. Glance(t) => UNCHANGED <<config, shard_count, previous_shard_count, migrating, moved_shards>>
  BY DEF Glance
<1>36. ExclusivePass(t) => UNCHANGED <<config, shard_count, previous_shard_count, migrating, moved_shards>>
  BY DEF ExclusivePass
<1>37. Repair(t) => UNCHANGED <<config, shard_count, previous_shard_count, migrating, moved_shards>>
  BY DEF Repair
<1>38. EvictGlobally(t) => UNCHANGED <<config, shard_count, previous_shard_count, migrating, moved_shards>>
  BY DEF EvictGlobally
<1>39. SharePass(t) => UNCHANGED <<config, shard_count, previous_shard_count, migrating, moved_shards>>
  BY DEF SharePass
<1>40. PassSlots(t) => UNCHANGED <<config, shard_count, previous_shard_count, migrating, moved_shards>>
  BY DEF PassSlots
<1>41. Scan(t) => UNCHANGED <<config, shard_count, previous_shard_count, migrating, moved_shards>>
  BY DEF Scan
<1>42. PassLock(t) => UNCHANGED <<config, shard_count, previous_shard_count, migrating, moved_shards>>
  BY DEF PassLock
<1>43. TrimShards(t) => UNCHANGED <<config, shard_count, previous_shard_count, migrating, moved_shards>>
  BY DEF TrimShards
<1>. QED
  BY <1>1, <1>2, <1>3, <1>4, <1>5, <1>6, <1>7, <1>8, <1>9, <1>10, <1>11, <1>12, <1>13,
     <1>14, <1>15, <1>16, <1>17, <1>18, <1>19, <1>20, <1>21, <1>22, <1>23, <1>24, <1>25,
     <1>26, <1>27, <1>28, <1>29, <1>30, <1>31, <1>32, <1>33, <1>34, <1>35, <1>36, <1>37,
     <1>38, <1>39, <1>40, <1>41, <1>42, <1>43
  DEF Step, KeyStep, BulkStep, MigrationStep, EvictionStep


\* A step takes t out of its queue, or t was in none, or joins one.
LEMMA QueueMoves ==
  ASSUME CallsKept, NEW t \in Threads, Step(t)
  PROVE  \/ LeaveQueue(t)
         \/ UNCHANGED <<waiting, ahead>> /\ pc[t] \notin Wants
         \/ Enqueue(t)
<1>. DEFINE Idle == UNCHANGED <<waiting, ahead>> /\ pc[t] \notin Wants
<1>1. ASSUME NEW c \in Mixes[config.mix], Invoke(t, c) PROVE Idle
  BY <1>1 DEF Invoke, locks, Wants, Entering
<1>2. Return(t) => Idle
  BY DEF Return, Release, locks, Wants, Entering
<1>3. Drop(t) => LeaveQueue(t)
  BY DEF Drop
<1>4. Route(t) => LeaveQueue(t)
  BY DEF Route, Acquire
<1>5. FindSlot(t) => LeaveQueue(t)
  BY DEF FindSlot, Acquire
<1>6. InitSlot(t) => LeaveQueue(t)
  BY DEF InitSlot, Acquire
<1>7. ReadActive(t) => LeaveQueue(t)
  BY DEF ReadActive, Acquire
<1>8. ReadPrevious(t) => LeaveQueue(t)
  BY DEF ReadPrevious, Acquire
<1>9. LockActive(t) => LeaveQueue(t)
  BY DEF LockActive, Acquire
<1>10. WriteKeys(t) => LeaveQueue(t)
  BY DEF WriteKeys, Acquire
<1>11. CachedSnapshot(t) => Idle
  BY DEF CachedSnapshot, Release, locks, Wants, Entering
<1>12. BuilderGate(t) => LeaveQueue(t)
  BY DEF BuilderGate, Acquire
<1>13. PinRouting(t) => LeaveQueue(t)
  BY DEF PinRouting, Acquire
<1>14. PinSlots(t) => LeaveQueue(t)
  BY DEF PinSlots, Collect, Acquire
<1>15. NextGuard(t) => LeaveQueue(t)
  BY DEF NextGuard, Acquire
<1>16. CollectShards(t) => LeaveQueue(t)
  BY DEF CollectShards, Collect, Acquire
<1>17. FillCache(t) => Idle
  BY DEF FillCache, Release, locks, Wants, Entering
<1>18. TxnSlot(t) => LeaveQueue(t)
  BY DEF TxnSlot, Resolved, Acquire
<1>19. TxnInit(t) => LeaveQueue(t)
  BY DEF TxnInit, Resolved, Acquire
<1>20. Commit(t) => LeaveQueue(t)
  BY DEF Commit, Acquire
<1>21. Exclusive(t) => LeaveQueue(t)
  BY DEF Exclusive, Acquire
<1>22. Sweep(t) => Idle
  BY DEF Sweep, Release, locks, Wants, Entering
<1>23. Visit(t) => Idle
  BY DEF Visit, Release, locks, Wants, Entering
<1>24. Visited(t) => Idle
  BY DEF Visited, Release, locks, Wants, Entering
<1>25. RebalanceLock(t) => LeaveQueue(t)
  BY DEF RebalanceLock, Acquire
<1>26. ExclusiveRouting(t) => LeaveQueue(t)
  BY DEF ExclusiveRouting, Acquire
<1>27. start_rebalance_online(t) => Idle
  BY DEF start_rebalance_online, Release, locks, Wants, Entering
<1>28. rebalance_to(t) => Idle
  BY DEF rebalance_to, Release, locks, Wants, Entering
<1>29. LoadBatch(t) => Idle
  BY DEF LoadBatch, Release, locks, Wants, Entering
<1>30. MoveEntry(t) => Idle
  BY DEF MoveEntry, Release, locks, Wants, Entering
<1>31. SourceLeft(t) => Idle
  BY DEF SourceLeft, BatchEnds, Release, locks, Wants, Entering
<1>32. SourceDrained(t) => Idle
  BY DEF SourceDrained, BatchEnds, Release, locks, Wants, Entering
<1>33. Maintain(t) => Idle
  BY DEF Maintain, Release, locks, Wants, Entering
<1>34. Glance(t) => Idle
  BY DEF Glance, Release, locks, Wants, Entering
<1>35. ExclusivePass(t) => LeaveQueue(t)
  BY DEF ExclusivePass, Acquire
<1>36. Repair(t) => Idle
  BY DEF Repair, Release, locks, Wants, Entering
<1>37. EvictGlobally(t) => Idle
  BY DEF EvictGlobally, Release, locks, Wants, Entering
<1>38. SharePass(t) => LeaveQueue(t)
  BY DEF SharePass, Acquire
<1>39. PassSlots(t) => LeaveQueue(t)
  BY DEF PassSlots, Acquire
<1>40. Scan(t) => LeaveQueue(t)
  BY DEF Scan, Acquire
<1>41. PassLock(t) => LeaveQueue(t)
  BY DEF PassLock, Acquire
<1>42. TrimShards(t) => Idle
  BY DEF TrimShards, Release, locks, Wants, Entering
<1>. QED
  BY <1>1, <1>2, <1>3, <1>4, <1>5, <1>6, <1>7, <1>8, <1>9, <1>10, <1>11, <1>12, <1>13,
     <1>14, <1>15, <1>16, <1>17, <1>18, <1>19, <1>20, <1>21, <1>22, <1>23, <1>24, <1>25,
     <1>26, <1>27, <1>28, <1>29, <1>30, <1>31, <1>32, <1>33, <1>34, <1>35, <1>36, <1>37,
     <1>38, <1>39, <1>40, <1>41, <1>42
  DEF Step, KeyStep, BulkStep, MigrationStep, EvictionStep


\* Nobody else's wish changes.
LEMMA WantedStays ==
  ASSUME Base, NEW t \in Threads, Step(t), NEW u \in Threads, u # t
  PROVE  Wanted(u)' = Wanted(u)
<1>1. pc'[u] = pc[u] /\ call'[u] = call[u] /\ frame'[u] = frame[u]
  BY OneMoves DEF Base, CallsKept, Only
<1>2. KeyMode(u)' = KeyMode(u) /\ KeyInHand(u)' = KeyInHand(u) /\ NextShard(u)' = NextShard(u)
  BY <1>1 DEF KeyMode, ReadOnly, KeyInHand, NextShard
<1>3. CASE pc[u] \in {"active", "previous"}
  <2>1. pc[t] \notin Alone
    BY <1>3, AloneIsAlone DEF Base, Sharing
  <2>2. shard_count' = shard_count /\ previous_shard_count' = previous_shard_count
    BY <2>1, LayoutStays DEF Base
  <2>. QED
    BY <1>1, <1>2, <1>3, <2>2 DEF Wanted, shard_index, previous_index
<1>4. CASE pc[u] \notin {"active", "previous"}
  BY <1>1, <1>2, <1>4 DEF Wanted
<1>. QED
  BY <1>3, <1>4

\* Queues stay queues.
LEMMA QueuesNext ==
  ASSUME Base, Queues, NEW t \in Threads, Step(t)
  PROVE  Queues'
<1>1. CASE LeaveQueue(t)
  <2>1. waiting' = waiting \ {t} /\ waiting' \subseteq Threads
          /\ ahead' = [u \in Threads |-> IF u = t THEN {} ELSE ahead[u] \ {t}]
    BY <1>1 DEF LeaveQueue, Queues
  <2>2. ahead' \in [Threads -> SUBSET Threads]
    BY <2>1 DEF Queues
  <2>3. ASSUME NEW u \in waiting' PROVE pc'[u] \in Wants /\ Wanted(u)' = Wanted(u)
    BY <2>1, <2>3, OneMoves, WantedStays DEF Queues, Base, CallsKept, Only
  <2>4. ASSUME NEW u \in waiting', NEW v \in ahead'[u]
        PROVE  v \in waiting' /\ v # u /\ ahead'[v] \subseteq ahead'[u]
                 /\ Wanted(v)[1] = Wanted(u)[1]
    <3>1. u \in waiting /\ u # t /\ u \in Threads /\ ahead'[u] = ahead[u] \ {t}
      BY <2>1 DEF Queues
    <3>2. v \in ahead[u] /\ v # t
      BY <2>4, <3>1
    <3>3. v \in waiting /\ v # u /\ Wanted(v)[1] = Wanted(u)[1] /\ ahead[v] \subseteq ahead[u]
      BY <3>1, <3>2 DEF Queues
    <3>. QED
      BY <2>1, <3>1, <3>2, <3>3
  <2>. QED
    BY <2>1, <2>2, <2>3, <2>4 DEF Queues
<1>2. CASE UNCHANGED <<waiting, ahead>> /\ pc[t] \notin Wants
  <2>1. t \notin waiting
    BY <1>2 DEF Queues
  <2>2. ASSUME NEW u \in waiting' PROVE pc'[u] \in Wants /\ Wanted(u)' = Wanted(u)
    BY <1>2, <2>1, <2>2, OneMoves, WantedStays DEF Queues, Base, CallsKept, Only
  <2>. QED
    BY <1>2, <2>2 DEF Queues
<1>3. CASE Enqueue(t)
  <2>1. /\ t \notin waiting /\ waiting' = waiting \cup {t} /\ Wanted(t) # <<>>
        /\ ahead' = [ahead EXCEPT ![t] = {u \in waiting : Wanted(u)[1] = Wanted(t)[1]}]
        /\ pc' = pc /\ call' = call /\ frame' = frame
        /\ shard_count' = shard_count /\ previous_shard_count' = previous_shard_count
    BY <1>3 DEF Enqueue, Ahead, layout
  <2>2. \A u : Wanted(u)' = Wanted(u)
    BY <2>1 DEF Wanted, KeyMode, ReadOnly, KeyInHand, NextShard, shard_index, previous_index
  <2>3. pc[t] \in Wants
    BY <2>1 DEF Wanted, Wants, Entering
  <2>4. waiting' \subseteq Threads /\ ahead' \in [Threads -> SUBSET Threads]
    BY <2>1 DEF Queues
  <2>5. ASSUME NEW u \in waiting', NEW v \in ahead'[u]
        PROVE  v \in waiting' /\ v # u /\ ahead'[v] \subseteq ahead'[u]
                 /\ Wanted(v)[1] = Wanted(u)[1]
    <3>1. CASE u = t
      <4>1. ahead'[u] = {w \in waiting : Wanted(w)[1] = Wanted(t)[1]}
        BY <2>1, <3>1 DEF Queues
      <4>2. v \in waiting /\ v # t /\ Wanted(v)[1] = Wanted(t)[1]
        BY <2>1, <2>5, <4>1
      <4>3. ahead'[v] = ahead[v]
        BY <2>1, <4>2 DEF Queues
      <4>4. \A w \in ahead[v] : w \in waiting /\ Wanted(w)[1] = Wanted(t)[1]
        BY <4>2 DEF Queues
      <4>. QED
        BY <2>1, <3>1, <4>1, <4>2, <4>3, <4>4
    <3>2. CASE u # t
      <4>1. u \in waiting /\ ahead'[u] = ahead[u]
        BY <2>1, <3>2 DEF Queues
      <4>2. v \in waiting /\ v # u /\ Wanted(v)[1] = Wanted(u)[1] /\ ahead[v] \subseteq ahead[u]
        BY <2>5, <4>1 DEF Queues
      <4>3. ahead'[v] = ahead[v]
        BY <2>1, <4>2 DEF Queues
      <4>. QED
        BY <2>1, <4>1, <4>2, <4>3
    <3>. QED
      BY <3>1, <3>2
  <2>6. \A u \in waiting' : pc'[u] \in Wants
    BY <2>1, <2>3 DEF Queues
  <2>. QED
    BY <2>2, <2>4, <2>5, <2>6 DEF Queues
<1>. QED
  BY <1>1, <1>2, <1>3, QueueMoves DEF Base

(*****************************************************************************)
(* Locks are taken in one order, from the gate to the last shard, so that    *)
(* whoever waits holds only what comes before the lock it waits for.         *)
(*****************************************************************************)
Rank(l) ==
  CASE l = Gate -> 0 [] l = Rebalance -> 1 [] l = Routing -> 2 [] l = Slots -> 3
    [] OTHER -> 4 + LockOrder(l)

\* The ranks of the locks, one by one.
LEMMA RankAt ==
  /\ Rank(Gate) = 0 /\ Rank(Rebalance) = 1 /\ Rank(Routing) = 2 /\ Rank(Slots) = 3
  /\ \A l \in ShardLocks : Rank(l) = 4 + LockOrder(l) /\ LockOrder(l) \in 0..(2 * MaxCount)
<1>1. Gate # Rebalance /\ Gate # Routing /\ Gate # Slots /\ Rebalance # Routing
        /\ Rebalance # Slots /\ Routing # Slots
  BY DEF Gate, Rebalance, Routing, Slots
<1>2. \A l \in ShardLocks : l \notin {Gate, Rebalance, Routing, Slots}
  BY DEF ShardLocks, Gate, Rebalance, Routing, Slots
<1>3. ASSUME NEW l \in ShardLocks PROVE LockOrder(l) \in 0..(2 * MaxCount)
  <2>1. MaxCount \in Nat /\ l[2] \in 0..(MaxCount - 1)
    BY StateAssumption DEF ShardLocks, Idx
  <2>. QED
    BY <2>1 DEF LockOrder
<1>. QED
  BY <1>1, <1>2, <1>3 DEF Rank

\* Every rank is a bounded natural.
LEMMA RankTyped ==
  \A l \in Locks : Rank(l) \in Nat /\ Rank(l) <= 4 + 2 * MaxCount
<1>1. MaxCount \in Nat
  BY StateAssumption
<1>. QED
  BY <1>1, RankAt DEF Locks

\* A task that waits for a lock holds only locks of a lower rank.
LEMMA HoldsBelow ==
  ASSUME Base, NEW t \in Threads, pc[t] \in Wants
  PROVE  /\ Wanted(t)[1] \in Locks
         /\ \A l \in Locks : t \in Holders(l) => Rank(l) < Rank(Wanted(t)[1])
<1>1. CallFits(pc[t], call[t], frame[t]) /\ HeldBy(t) /\ CallsKept /\ CountsKept /\ Falling
  BY DEF Base, CallsKept, Locking
<1>. DEFINE want == Wanted(t)[1]
            held == MayHold(pc[t], call[t], frame[t])
<1>. SUFFICES want \in Locks /\ \A l \in Locks \cap held : Rank(l) < Rank(want)
  BY <1>1 DEF HeldBy
<1>2. Gate \in Locks /\ Rebalance \in Locks /\ Routing \in Locks /\ Slots \in Locks
        /\ ShardLocks \subseteq Locks
  BY DEF Locks
<1>3. MaxCount \in Nat
  BY StateAssumption
<1>4. \A i \in Idx : Active(i) \in ShardLocks /\ Previous(i) \in ShardLocks
                       /\ LockOrder(Active(i)) = i /\ LockOrder(Previous(i)) = i + MaxCount
                       /\ i \in Nat /\ i < MaxCount
  BY <1>3 DEF Active, Previous, ShardLocks, LockOrder, Idx
<1>5. CASE pc[t] \in {"route", "share", "pass", "gate", "rebalance"}
  <2>1. held = {}
    BY <1>5, HoldAt
  <2>2. want \in Locks
    BY <1>1, <1>2, <1>5, WantedAt
  <2>. QED
    BY <2>1, <2>2
<1>6. CASE pc[t] \in {"pin", "exclusive"}
  <2>1. held \subseteq {Gate, Rebalance}
    BY <1>6, HoldAt
  <2>2. want = Routing
    BY <1>1, <1>6, WantedAt
  <2>. QED
    BY <1>2, <2>1, <2>2, RankAt
<1>7. CASE pc[t] \in {"slots", "pin_slots", "pass_slots", "init"}
  <2>1. held \subseteq {Gate, Routing}
    BY <1>7, HoldAt
  <2>2. want = Slots
    BY <1>1, <1>7, WantedAt
  <2>. QED
    BY <1>2, <2>1, <2>2, RankAt
<1>8. CASE pc[t] = "active"
  <2>1. held = {Routing}
    BY <1>8, HoldAt
  <2>2. want \in ShardLocks
    BY <1>1, <1>4, <1>8, WantedAt
  <2>. QED
    BY <1>2, <2>1, <2>2, RankAt
<1>9. CASE pc[t] = "previous"
  <2>1. held = {Routing, Slots} \cup {Active(i) : i \in Idx}
    BY <1>9, HoldAt
  <2>2. PICK j \in Idx : want = Previous(j)
    BY <1>1, <1>9, WantedAt
  <2>3. Rank(want) = 4 + j + MaxCount /\ j \in Nat
    BY <1>3, <1>4, <2>2, RankAt
  <2>4. ASSUME NEW i \in Idx PROVE Rank(Active(i)) = 4 + i /\ i \in Nat /\ i < MaxCount
    BY <1>4, RankAt
  <2>5. \A l \in held : Rank(l) < Rank(want)
    BY <1>3, <2>1, <2>3, <2>4, RankAt
  <2>. QED
    BY <1>2, <1>4, <2>2, <2>5
<1>10. CASE pc[t] \in {"guards", "scan", "pass_lock"}
  <2>1. held \subseteq {Gate, Routing, Slots} \cup Below(frame[t].plan)
    BY <1>10, HoldAt
  <2>2. want = NextShard(t) /\ want \in ShardLocks
    BY <1>1, <1>10, WantedAt DEF Planned
  <2>3. NextShard(t) \in frame[t].plan
    BY <1>1, <1>10, NextShardFirst DEF CallFits, Planned
  <2>4. ASSUME NEW l \in Below(frame[t].plan) PROVE Rank(l) < Rank(want)
    <3>1. l \in ShardLocks /\ LockOrder(l) < LockOrder(want)
      BY <2>2, <2>3 DEF Below
    <3>. QED
      BY <2>2, <3>1, RankAt
  <2>5. \A l \in {Gate, Routing, Slots} : Rank(l) < Rank(want)
    BY <2>2, RankAt
  <2>. QED
    BY <1>2, <2>1, <2>2, <2>4, <2>5
<1>. QED
  BY <1>5, <1>6, <1>7, <1>8, <1>9, <1>10 DEF Wants, Entering

\* Among tasks that wait, one that wants a lock of the highest rank, and of those the first in
\* its queue, waits for none of them.
LEMMA SomebodyMoves ==
  ASSUME Base, Queues, NEW W \in SUBSET waiting, W # {}
  PROVE  \E t \in W : Obstacles(t) \cap W = {}
<1>1. \A t \in W : /\ t \in Threads /\ pc[t] \in Wants /\ Wanted(t)[1] \in Locks
                   /\ Rank(Wanted(t)[1]) \in Nat /\ Rank(Wanted(t)[1]) <= 4 + 2 * MaxCount
  BY HoldsBelow, RankTyped DEF Queues
<1>2. PICK r \in W : \A t \in W : Rank(Wanted(t)[1]) <= Rank(Wanted(r)[1])
  <2>. DEFINE T == {4 + 2 * MaxCount - Rank(Wanted(t)[1]) : t \in W}
  <2>1. MaxCount \in Nat
    BY StateAssumption
  <2>2. T \in SUBSET Nat /\ T # {}
    BY <1>1, <2>1
  <2>3. PICK n \in T : \A m \in T : n <= m
    <3>. HIDE DEF T
    <3>. QED
      BY <2>2, LeastNatural
  <2>4. PICK r \in W : n = 4 + 2 * MaxCount - Rank(Wanted(r)[1])
    OBVIOUS
  <2>5. ASSUME NEW t \in W PROVE Rank(Wanted(t)[1]) <= Rank(Wanted(r)[1])
    <3>1. n <= 4 + 2 * MaxCount - Rank(Wanted(t)[1])
      BY <2>3
    <3>. QED
      BY <1>1, <2>1, <2>4, <3>1
  <2>. QED
    BY <2>5
<1>. DEFINE Top == {t \in W : Rank(Wanted(t)[1]) = Rank(Wanted(r)[1])}
<1>3. \A t \in W : IsFiniteSet(ahead[t]) /\ Cardinality(ahead[t]) \in Nat
  BY <1>1, StateAssumption, FS_Subset, FS_CardinalityType DEF Queues
<1>4. PICK t \in Top : \A u \in Top : Cardinality(ahead[t]) <= Cardinality(ahead[u])
  <2>. DEFINE T == {Cardinality(ahead[u]) : u \in Top}
  <2>1. T \in SUBSET Nat /\ T # {}
    BY <1>3
  <2>2. PICK n \in T : \A m \in T : n <= m
    <3>. HIDE DEF T
    <3>. QED
      BY <2>1, LeastNatural
  <2>. QED
    BY <2>2
<1>5. t \in W /\ t \in waiting /\ Ahead(t) = ahead[t] /\ t \in Threads
        /\ Wanted(t)[1] \in Locks /\ Rank(Wanted(t)[1]) = Rank(Wanted(r)[1])
  BY <1>1 DEF Ahead
<1>6. ASSUME NEW u \in W, u \in Holders(Wanted(t)[1]) PROVE FALSE
  <2>1. Rank(Wanted(t)[1]) < Rank(Wanted(u)[1])
    BY <1>1, <1>5, <1>6, HoldsBelow
  <2>. QED
    BY <1>1, <1>2, <1>5, <2>1
<1>7. ASSUME NEW u \in W, u \in ahead[t] PROVE FALSE
  <2>1. u \in waiting /\ Wanted(u)[1] = Wanted(t)[1] /\ ahead[u] \subseteq ahead[t]
    BY <1>5, <1>7 DEF Queues
  <2>2. u \notin ahead[u]
    BY <2>1 DEF Queues
  <2>3. Cardinality(ahead[u]) < Cardinality(ahead[t])
    BY <1>3, <1>5, <1>7, <2>1, <2>2, FS_Subset
  <2>4. u \in Top
    BY <1>5, <2>1
  <2>. QED
    BY <1>3, <1>4, <1>5, <2>3, <2>4
<1>8. Obstacles(t) \subseteq Holders(Wanted(t)[1]) \cup ahead[t]
  BY <1>5 DEF Obstacles, Holders
<1>. QED
  BY <1>5, <1>6, <1>7, <1>8

\* The queues and the table of locks leave nobody wedged.
LEMMA QueuesMove == Base /\ Queues => NoWedge
<1>. SUFFICES ASSUME Base, Queues PROVE NoWedge
  OBVIOUS
<1>1. \A W \in (SUBSET waiting) \ {{}} : \E t \in W : Obstacles(t) \cap W = {}
  BY SomebodyMoves
<1>2. ASSUME NEW t \in Threads, pc[t] = "idle", NEW u \in waiting
      PROVE  t # u /\ t \notin ahead[u]
  <2>1. t \notin waiting
    BY <1>2 DEF Queues, Wants, Entering
  <2>. QED
    BY <2>1 DEF Queues
<1>3. ASSUME NEW t \in Threads, NEW l \in Locks, pc[t] \in {"idle", "return"}
      PROVE  t \notin readers[l] \cup {writer[l]}
  <2>1. MayHold(pc[t], call[t], frame[t]) = {} /\ HeldBy(t) /\ t # NoTask
    BY <1>3, HoldAt, StateAssumption DEF Base, Locking
  <2>. QED
    BY <2>1 DEF HeldBy, Holders
<1>. QED
  BY <1>1, <1>2, <1>3 DEF NoWedge

\* Nobody waits for ever on the locks of AsyncShardedHashMap: among any tasks that wait, one
\* waits for nobody of them, and whoever returned or was dropped holds no lock and stands in
\* no queue.
THEOREM NobodyWedged == Spec => []NoWedge
<1>1. Init => Queues
  <2>. SUFFICES ASSUME Init PROVE Queues
    OBVIOUS
  <2>1. waiting = {} /\ ahead = [t \in Threads |-> {}]
    BY DEF Init
  <2>. QED
    BY <2>1 DEF Queues
<1>2. Base /\ Queues /\ [Next]_vars => Queues'
  <2>. SUFFICES ASSUME Base, Queues, [Next]_vars PROVE Queues'
    OBVIOUS
  <2>1. ASSUME NEW t \in Threads, Step(t) PROVE Queues'
    BY <2>1, QueuesNext
  <2>2. CASE Next
    BY <2>1, <2>2 DEF Next, Step
  <2>3. CASE UNCHANGED vars
    <3>1. waiting' = waiting /\ ahead' = ahead /\ pc' = pc /\ call' = call /\ frame' = frame
            /\ shard_count' = shard_count /\ previous_shard_count' = previous_shard_count
      BY <2>3 DEF vars, layout, locks
    <3>2. \A u : Wanted(u)' = Wanted(u)
      BY <3>1 DEF Wanted, KeyMode, ReadOnly, KeyInHand, NextShard, shard_index, previous_index
    <3>. QED
      BY <3>1, <3>2 DEF Queues
  <2>. QED
    BY <2>2, <2>3
<1>. QED
  BY <1>1, <1>2, LockTableKept, QueuesMove, PTL DEF Spec
=============================================================================
