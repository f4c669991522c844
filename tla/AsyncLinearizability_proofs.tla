-------------------- MODULE AsyncLinearizability_proofs ---------------------
(*****************************************************************************)
(* The asynchronous map implements AsyncMapSpec, proved for every set of     *)
(* tasks, keys and values, every hash, every mix of calls and any number of  *)
(* dropped futures: each step is a step of AsyncMapSpec or leaves what the   *)
(* callers can see unchanged.                                                *)
(*****************************************************************************)
EXTENDS AsyncData_proofs

(*****************************************************************************)
(* What a call has still to do, and what it has answered so far.             *)
(*****************************************************************************)
\* The whole map is still to be dealt with, or nothing any more.
Everything(t) ==
  \/ pc[t] \in {"cached", "gate", "pin", "pin_slots", "sweep"}
  \/ pc[t] = "guards" /\ ReadOnly(t)
  \/ pc[t] = "exclusive" /\ call[t].op \notin LayoutOps

Nothing(t) ==
  \/ pc[t] \in {"maintain", "return", "fill", "rebalance"} \cup Resharding \cup Maintaining
  \/ pc[t] = "exclusive" /\ call[t].op \in LayoutOps

Due(t) ==
  /\ pc[t] = "idle" <=> call[t] = NoCall
  /\ Everything(t) => frame[t].left = Keys
  /\ Nothing(t) => frame[t].left = {}
  /\ pc[t] = "guards" => frame[t].left # {}
  /\ pc[t] \in {"exclusive", "visit"} /\ call[t].op = "retain" => frame[t].got = DoneReply

\* A lookup that goes on to the previous generation has missed, and what it missed stays away.
Missed(t) ==
  pc[t] = "previous" /\ ReadOnly(t) =>
    /\ \A k \in frame[t].part : InActive(k) = Nil
    /\ LET i == shard_index(KeyInHand(t)) IN
       t \in readers[Active(i)] \/ (shards[i] = NoShard /\ t \in readers[Slots])

\* retain has removed what it has dealt with, and what is in the shards it has visited stays.
Sifting(t) ==
  pc[t] = "visit" =>
    \A k \in Stored :
      /\ k \in frame[t].left
      /\ k \in call[t].keep \/ \E l \in frame[t].plan : k \in Keyset(Home(l))

\* Nobody has a snapshot of a retain half done.
Hidden(t) ==
  pc[t] = "visit" /\ frame[t].left # Keys =>
    /\ \A c \in snapshot_cache : c.epoch # write_epoch
    /\ \A u \in Threads : pc[u] = "fill" => frame[u].cut # write_epoch

\* Who goes on to write has the active shards of its keys, or has planned to.
Guarding(t) ==
  ~ReadOnly(t) =>
    /\ pc[t] = "previous" => writer[Active(shard_index(KeyInHand(t)))] = t
    /\ pc[t] = "guards" =>
         \A k \in frame[t].left :
           Active(shard_index(k)) \in frame[t].plan \/ writer[Active(shard_index(k))] = t

Dues == \A t \in Threads : Due(t)
Guards == \A t \in Threads : Guarding(t)
Views == \A t \in Threads : Missed(t) /\ Sifting(t) /\ Hidden(t)

Owing == Dues /\ Guards /\ Views

-----------------------------------------------------------------------------
(*****************************************************************************)
(* Steps of AsyncMapSpec.                                                    *)
(*****************************************************************************)
\* The contracts of AsyncMapSpec are those of the calls.
LEMMA SpecContracts ==
  /\ \A c, m, k : Spec_map!Leaves(c, m, k) = Leaves(c, m, k)
  /\ \A c, a, m, part : Spec_map!Answered(c, a, m, part) = Answered(c, a, m, part)
  /\ \A c : /\ Spec_map!Whole(c) = Whole(c) /\ Spec_map!Concerned(c) = Concerned(c)
            /\ Spec_map!NoAnswer(c) = NoAnswer(c)
  /\ Spec_map!NoCall = NoCall /\ Spec_map!NoReply = NoReply /\ Spec_map!CallsMade = CallsMade
  /\ Spec_map!OptVal = OptVal
<1>1. /\ Spec_map!KeyOps = KeyOps /\ Spec_map!BatchOps = BatchOps
      /\ Spec_map!NoCall = NoCall /\ Spec_map!NoReply = NoReply /\ Spec_map!DoneReply = DoneReply
      /\ Spec_map!CallsMade = CallsMade /\ Spec_map!OptVal = OptVal
  BY DEF Spec_map!KeyOps, KeyOps, Spec_map!BatchOps, BatchOps, Spec_map!NoCall, NoCall,
         Spec_map!NoReply, NoReply, Spec_map!DoneReply, DoneReply, Spec_map!CallsMade, CallsMade,
         Spec_map!OptVal, OptVal
<1>d. \A f : Spec_map!Pairs(f) = Pairs(f)
  BY DEF Spec_map!Pairs, Pairs
<1>a. \A n : Spec_map!CountReply(n) = CountReply(n)
  BY DEF Spec_map!CountReply, CountReply
<1>b. \A S : Spec_map!ItemsReply(S) = ItemsReply(S)
  BY DEF Spec_map!ItemsReply, ItemsReply
<1>c. \A hit, v : Spec_map!KeyReply(hit, v) = KeyReply(hit, v)
  BY DEF Spec_map!KeyReply, KeyReply
<1>e. \A S : Spec_map!Cardinality(S) = Cardinality(S)
  BY DEF Spec_map!Cardinality, Cardinality
<1>2. \A c, v : Spec_map!After(c, v) = After(c, v)
  BY DEF Spec_map!After, After
<1>3. \A c, v : Spec_map!Answer(c, v) = Answer(c, v)
  BY <1>1, <1>2, <1>c DEF Spec_map!Answer, Answer
<1>4. \A s, n, f : Spec_map!AfterSteps(s, n, f) = AfterSteps(s, n, f)
  BY DEF Spec_map!AfterSteps, AfterSteps, Spec_map!Writes, Writes
<1>5. \A c, m, k : Spec_map!Leaves(c, m, k) = Leaves(c, m, k)
  BY <1>1, <1>2, <1>4 DEF Spec_map!Leaves, Leaves
<1>6. ASSUME NEW c, NEW a, NEW m, NEW part
      PROVE  Spec_map!Answered(c, a, m, part) = Answered(c, a, m, part)
  <2>1. PICK inserted, removed, items :
          /\ inserted = a.count + Cardinality(part \ {k \in part : m[k] # Nil})
          /\ removed = a.count + Cardinality({k \in part : m[k] # Nil})
          /\ items = a.items \cup {<<k, m[k]>> : k \in {k \in part : m[k] # Nil}}
          /\ inserted = a.count + Spec_map!Cardinality(part \ {k \in part : m[k] # Nil})
          /\ removed = a.count + Spec_map!Cardinality({k \in part : m[k] # Nil})
    BY <1>e
  <2>2. Answered(c, a, m, part) =
          CASE c.op \in KeyOps       -> Answer(c, m[c.key])
            [] c.op = "batch_insert" -> CountReply(inserted)
            [] c.op = "batch_remove" -> CountReply(removed)
            [] c.op = "batch_get"    -> ItemsReply(items)
            [] c.op \in {"snapshot", "view", "drain"} -> ItemsReply(Pairs(m))
            [] OTHER                 -> DoneReply
    BY <2>1, Zenon DEF Answered
  <2>3. Spec_map!Answered(c, a, m, part) =
          CASE c.op \in Spec_map!KeyOps -> Spec_map!Answer(c, m[c.key])
            [] c.op = "batch_insert" -> Spec_map!CountReply(inserted)
            [] c.op = "batch_remove" -> Spec_map!CountReply(removed)
            [] c.op = "batch_get"    -> Spec_map!ItemsReply(items)
            [] c.op \in {"snapshot", "view", "drain"} -> Spec_map!ItemsReply(Spec_map!Pairs(m))
            [] OTHER                 -> Spec_map!DoneReply
    BY <2>1, Zenon DEF Spec_map!Answered
  <2>4. /\ Spec_map!KeyOps = KeyOps /\ Spec_map!Answer(c, m[c.key]) = Answer(c, m[c.key])
        /\ Spec_map!CountReply(inserted) = CountReply(inserted)
        /\ Spec_map!CountReply(removed) = CountReply(removed)
        /\ Spec_map!ItemsReply(items) = ItemsReply(items)
        /\ Spec_map!ItemsReply(Spec_map!Pairs(m)) = ItemsReply(Pairs(m))
        /\ Spec_map!DoneReply = DoneReply
    BY <1>1, <1>3, <1>a, <1>b, <1>d
  <2>. QED
    BY <2>2, <2>3, <2>4
<1>7. \A c : Spec_map!Whole(c) = Whole(c)
  BY <1>1 DEF Spec_map!Whole, Whole
<1>8. \A c : Spec_map!Concerned(c) = Concerned(c)
  BY <1>1 DEF Spec_map!Concerned, Concerned
<1>9. \A c : Spec_map!NoAnswer(c) = NoAnswer(c)
  BY <1>1, <1>a, <1>b DEF Spec_map!NoAnswer, NoAnswer
<1>. QED
  BY <1>1, <1>5, <1>6, <1>7, <1>8, <1>9

\* What the callers see.
Sees == <<Contents, enabled, call, [u \in Threads |-> frame[u].left],
          [u \in Threads |-> frame[u].got], drops>>

Simulated == Spec_map!Next \/ UNCHANGED Sees

\* Nobody is in the middle of a retain.
Unswept(t) == \A u \in Threads \ {t} : pc[u] = "visit" => frame[u].left = Keys

\* The call of t deals with the keys in part.
Deals(t, part) ==
  /\ part \in SUBSET frame[t].left /\ part # {}
  /\ Whole(call[t]) => part = frame[t].left
  /\ frame'[t].left = frame[t].left \ part
  /\ frame'[t].got = Answered(call[t], frame[t].got, Contents, part)
  /\ Contents' = [k \in Keys |-> IF k \in part THEN Leaves(call[t], Contents, k)
                                 ELSE Contents[k]]
  /\ UNCHANGED <<config, call, drops>>

\* The other calls stand where they stood.
LEMMA OthersStand ==
  ASSUME CallsKept, NEW t \in Threads, Only(t)
  PROVE  /\ [u \in Threads |-> frame[u].left]'
              = [[u \in Threads |-> frame[u].left] EXCEPT ![t] = frame'[t].left]
         /\ [u \in Threads |-> frame[u].got]'
              = [[u \in Threads |-> frame[u].got] EXCEPT ![t] = frame'[t].got]
<1>1. \A u \in Threads \ {t} : frame'[u] = frame[u]
  BY DEF Only, CallsKept
<1>. QED
  BY <1>1

\* A call in the middle of a retain is in its shards.
LEMMA SweepingVisits ==
  ASSUME CallsKept, NEW u \in Threads, Due(u), Spec_map!Sweeping(u)
  PROVE  pc[u] = "visit" /\ frame[u].left # Keys
<1>1. call[u].op = "retain" /\ frame[u].left \notin {{}, Keys}
  BY DEF Spec_map!Sweeping
<1>2. pc[u] \in Labels /\ CallFits(pc[u], call[u], frame[u])
  BY DEF CallsKept
<1>3. pc[u] # "idle"
  BY <1>1 DEF Due, NoCall
<1>4. pc[u] \notin {"route", "cached", "gate", "pin", "pin_slots", "guards", "rebalance", "sweep"}
        \cup InHand \cup Resharding
  BY <1>1, <1>2 DEF CallFits, KeyOps, BatchOps, LayoutOps, Resharding, InHand
<1>5. pc[u] # "exclusive"
  BY <1>1 DEF Due, Everything, LayoutOps
<1>6. pc[u] \notin {"maintain", "return", "fill"} \cup Maintaining
  BY <1>1 DEF Due, Nothing
<1>. QED
  BY <1>1, <1>2, <1>3, <1>4, <1>5, <1>6
  DEF Labels, Sharing, Alone, Outside, Entering, InHand, Maintaining, Resharding

\* Such a step is one of AsyncMapSpec.
LEMMA Effect ==
  ASSUME Base, Owing, NEW t \in Threads, Only(t), NEW part, Deals(t, part), Unswept(t)
  PROVE  Simulated
<1>. DEFINE lefts == [u \in Threads |-> frame[u].left]
            gots == [u \in Threads |-> frame[u].got]
<1>0. CallsKept
  BY DEF Base
<1>1. \A u \in Threads \ {t} : ~Spec_map!Sweeping(u)
  BY <1>0, SweepingVisits DEF Unswept, Owing, Dues
<1>2. lefts' = [lefts EXCEPT ![t] = lefts[t] \ part]
  BY <1>0, OthersStand DEF Deals
<1>3. gots' = [gots EXCEPT ![t] = Spec_map!Answered(call[t], gots[t], Contents, part)]
  BY <1>0, OthersStand, SpecContracts DEF Deals
<1>4. Contents' = [k \in Keys |-> IF k \in part THEN Spec_map!Leaves(call[t], Contents, k)
                                  ELSE Contents[k]]
  BY SpecContracts DEF Deals
<1>5. part # {} /\ (Spec_map!Whole(call[t]) => part = lefts[t]) /\ part \in SUBSET lefts[t]
  BY SpecContracts DEF Deals
<1>6. UNCHANGED <<enabled, call, drops>>
  BY DEF Deals, enabled
<1>7. Spec_map!TakeEffect(t, part)
  BY <1>1, <1>2, <1>3, <1>4, <1>5, <1>6 DEF Spec_map!TakeEffect
<1>. QED
  BY <1>5, <1>7 DEF Simulated, Spec_map!Next

\* A step that its call does not notice.
LEMMA Invisible ==
  ASSUME Base, NEW t \in Threads, Only(t), Contents' = Contents, UNCHANGED <<config, call, drops>>,
         frame'[t].left = frame[t].left, frame'[t].got = frame[t].got
  PROVE  Simulated
<1>1. CallsKept
  BY DEF Base
<1>2. UNCHANGED [u \in Threads |-> frame[u].left]
  BY <1>1, OthersStand
<1>3. UNCHANGED [u \in Threads |-> frame[u].got]
  BY <1>1, OthersStand
<1>4. enabled' = enabled
  BY DEF enabled
<1>. QED
  BY <1>2, <1>3, <1>4 DEF Simulated, Sees

-----------------------------------------------------------------------------
(*****************************************************************************)
(* What a call has still to do, in its own hands.                            *)
(*****************************************************************************)
\* What every call owes stays true of it.
LEMMA DuesNext ==
  ASSUME Base, Dues, NEW t \in Threads, Step(t)
  PROVE  Dues'
<1>0. /\ CallsKept /\ CountsKept /\ Due(t) /\ Only(t)
      /\ CallFits(pc[t], call[t], frame[t]) /\ t \in DOMAIN pc /\ t \in DOMAIN frame
  BY OneMoves DEF Base, CallsKept, Dues
<1>b. DOMAIN frame[t] = Fields /\ frame[t].left \subseteq Keys
  BY <1>0 DEF CallFits
<1>. SUFFICES Due(t)'
  <2>1. ASSUME NEW u \in Threads, u # t PROVE Due(u)'
    <3>1. pc'[u] = pc[u] /\ frame'[u] = frame[u] /\ call'[u] = call[u]
      BY <1>0, <2>1 DEF Only, CallsKept
    <3>. QED
      BY <3>1 DEF Dues, Due, Everything, Nothing, ReadOnly
  <2>. QED
    BY <2>1 DEF Dues
<1>. DEFINE Under == pc[t] # "idle" /\ pc'[t] # "idle" /\ call'[t] = call[t]
            Still == frame'[t].left = frame[t].left
            Clear == frame'[t].left = {}
            Finishing == {"maintain", "return", "fill", "rebalance"} \cup Resharding
                           \cup Maintaining
            Beginning == {"cached", "gate", "pin", "pin_slots", "sweep"}
<1>l. Under => (pc'[t] = "idle" <=> call'[t] = NoCall)
  BY <1>0 DEF Due
<1>m. Under /\ pc'[t] \in InHand \cup {"route"} => Due(t)'
  BY <1>l DEF Due, Everything, Nothing, InHand, Resharding, Maintaining
<1>n. Under /\ pc'[t] \in Finishing /\ Clear => Due(t)'
  BY <1>l DEF Due, Everything, Nothing, Resharding, Maintaining
<1>o. Under /\ pc'[t] \in Beginning /\ frame'[t].left = Keys => Due(t)'
  BY <1>l DEF Due, Everything, Nothing, Resharding, Maintaining
<1>p. Under /\ pc[t] \in Finishing /\ pc'[t] \in Finishing /\ Still => Due(t)'
  BY <1>0, <1>n DEF Due, Nothing
<1>q. Under /\ pc[t] \in Beginning /\ pc'[t] \in Beginning /\ Still => Due(t)'
  BY <1>0, <1>o DEF Due, Everything
<1>r. ASSUME pc'[t] = "guards", Under, frame'[t].left # {}, ReadOnly(t) => frame'[t].left = Keys
      PROVE  Due(t)'
  <2>1. ReadOnly(t)' => ReadOnly(t)
    BY <1>r DEF ReadOnly
  <2>. QED
    BY <1>l, <1>r, <2>1 DEF Due, Everything, Nothing, Resharding, Maintaining
<1>s. UNCHANGED <<pc, call, frame>> => Due(t)'
  BY <1>0 DEF Due, Everything, Nothing, ReadOnly
<1>a. ASSUME NEW old, pc[t] \in InHand, Done(t, old), call' = call PROVE Due(t)'
  <2>1. CASE /\ pc' = [pc EXCEPT ![t] = IF ReadOnly(t) THEN "return" ELSE "maintain"]
             /\ frame' = [frame EXCEPT ![t] =
                  [frame[t] EXCEPT !.left = {}, !.part = {},
                                   !.got = Tally(t, frame[t].part, old)]]
    <3>1. pc'[t] \in {"return", "maintain"} /\ frame'[t].left = {}
      BY <1>0, <1>b, <2>1 DEF Fields
    <3>. QED
      BY <1>a, <1>n, <3>1 DEF InHand
  <2>2. CASE pc' = [pc EXCEPT ![t] = "slots"]
    <3>1. pc'[t] = "slots"
      BY <1>0, <2>2
    <3>. QED
      BY <1>a, <1>m, <3>1 DEF InHand
  <2>. QED
    BY <1>0, <1>a, <2>1, <2>2, DoneMoves
<1>d. ASSUME NEW K, Pops(t, K), pc[t] \in Resharding, call' = call PROVE Due(t)'
  <2>1. PICK k \in K : Goes(t, "move", [frame[t] EXCEPT !.part = K \ {k}, !.plan = {k}])
    BY <1>d DEF Pops
  <2>2. pc'[t] = "move" /\ Still
    BY <1>0, <1>b, <2>1 DEF Goes, Goto, Fields
  <2>. QED
    BY <1>d, <1>p, <2>2 DEF Resharding
<1>f. ASSUME Resolved(t), pc[t] \in InHand, call[t].op = "txn", call' = call PROVE Due(t)'
  <2>1. CASE Goes(t, "guards", [frame[t] EXCEPT !.plan = TxnPlan(t)])
    <3>1. pc'[t] = "guards" /\ Still
      BY <1>0, <1>b, <2>1 DEF Goes, Goto, Fields
    <3>2. frame[t].left # {} /\ ~ReadOnly(t)
      BY <1>0, <1>f DEF CallFits, ReadOnly
    <3>. QED
      BY <1>f, <1>r, <3>1, <3>2 DEF InHand
  <2>2. CASE Unresolved(t) # {}
    <3>1. pc'[t] = "slots"
      BY <1>0, <1>f, <2>2 DEF Resolved, Goes, Goto
    <3>. QED
      BY <1>f, <1>m, <3>1 DEF InHand
  <2>. QED
    BY <1>f, <2>1, <2>2 DEF Resolved
<1>g. ASSUME Collect(t), pc[t] # "idle", call' = call PROVE Due(t)'
  <2>1. frame'[t] = [Answers(t, ItemsReply(Copied(t))) EXCEPT !.plan = {}, !.cut = write_epoch]
          /\ pc'[t] = IF Caching(t) THEN "fill" ELSE "return"
    BY <1>0, <1>g DEF Collect, Goes, Goto
  <2>2. Clear /\ pc'[t] \in {"fill", "return"}
    BY <1>b, <2>1 DEF Answers, Fields
  <2>. QED
    BY <1>g, <1>n, <2>2
<1>1. ASSUME NEW c \in Mixes[config.mix], Invoke(t, c) PROVE Due(t)'
  <2>1. c \in CallsMade
    BY <1>0, ScenariosAssumption DEF CountsKept
  <2>2. pc'[t] = FirstAwait(c) /\ call'[t] = c
          /\ frame'[t] = [EmptyFrame EXCEPT !.left = Concerned(c), !.got = NoAnswer(c)]
    BY <1>0, <1>1 DEF Invoke, Goes, Goto, CallsKept
  <2>3. frame'[t].left = Concerned(c) /\ frame'[t].got = NoAnswer(c)
    BY <2>2 DEF EmptyFrame
  <2>4. c # NoCall
    BY <2>1, CallsTyped DEF NoCall, KeyOps, BatchOps, LayoutOps
  <2>5. CASE c.op \in KeyOps \cup BatchOps \cup {"txn"}
    <3>1. FirstAwait(c) = "route"
      BY <2>5 DEF FirstAwait, KeyOps, BatchOps
    <3>. QED
      BY <2>2, <2>4, <3>1 DEF Due, Everything, Nothing, Resharding, Maintaining
  <2>6. CASE c.op \in {"snapshot", "view", "clear", "drain", "retain"}
    <3>1. pc'[t] \in {"gate", "cached", "exclusive"} /\ Concerned(c) = Keys
            /\ c.op \notin LayoutOps
            /\ (c.op = "retain" => NoAnswer(c) = DoneReply)
      BY <2>2, <2>6 DEF FirstAwait, Concerned, NoAnswer, KeyOps, BatchOps, LayoutOps
    <3>. QED
      BY <2>2, <2>3, <2>4, <3>1 DEF Due, Everything, Nothing, Resharding, Maintaining
  <2>7. CASE c.op \in LayoutOps \cup {"enforce", "evict"}
    <3>1. pc'[t] \in {"rebalance", "maintain"} /\ Concerned(c) = {}
      BY <2>2, <2>7 DEF FirstAwait, Concerned, KeyOps, BatchOps, LayoutOps
    <3>. QED
      BY <2>2, <2>3, <2>4, <3>1 DEF Due, Everything, Nothing, Resharding, Maintaining
  <2>. QED
    BY <2>1, <2>5, <2>6, <2>7, CallsTyped
<1>2. Route(t) => Due(t)'
  BY <1>0, <1>m DEF Route, Goes, Goto, InHand
<1>3. FindSlot(t) => Due(t)'
  BY <1>0, <1>a, <1>m DEF FindSlot, Goto, InHand
<1>4. ReadActive(t) => Due(t)'
  BY <1>0, <1>a, <1>m DEF ReadActive, Goto, InHand
<1>5. ReadPrevious(t) => Due(t)'
  BY <1>a DEF ReadPrevious, InHand
<1>6. WriteKeys(t) => Due(t)'
  BY <1>a DEF WriteKeys, InHand
<1>7. TxnSlot(t) => Due(t)'
  BY <1>0, <1>f, <1>m DEF TxnSlot, Goto, InHand
<1>8. TxnInit(t) => Due(t)'
  BY <1>f DEF TxnInit, InHand
<1>9. LoadBatch(t) => Due(t)'
  BY <1>0, <1>d, <1>p DEF LoadBatch, Goto, Resharding
<1>10. SourceLeft(t) => Due(t)'
  BY <1>0, <1>d, <1>p DEF SourceLeft, BatchEnds, Goto, Resharding
<1>11. PinSlots(t) => Due(t)'
  <2>. SUFFICES ASSUME PinSlots(t) PROVE Due(t)'
    OBVIOUS
  <2>1. CASE Frozen = {}
    BY <1>g, <2>1 DEF PinSlots
  <2>2. CASE Frozen # {}
    <3>1. pc[t] = "pin_slots" /\ pc'[t] = "guards" /\ Still /\ call' = call
      BY <1>0, <1>b, <2>2 DEF PinSlots, Goes, Goto, Fields
    <3>. QED
      BY <1>0, <1>r, <3>1, StateAssumption DEF Due, Everything
  <2>. QED
    BY <2>1, <2>2
<1>12. CollectShards(t) => Due(t)'
  BY <1>g DEF CollectShards
<1>13. Enqueue(t) => Due(t)'
  BY <1>s DEF Enqueue
<1>14. Return(t) \/ Drop(t) => Due(t)'
  <2>. SUFFICES ASSUME Return(t) \/ Drop(t) PROVE Due(t)'
    OBVIOUS
  <2>1. pc'[t] = "idle" /\ call'[t] = NoCall
    BY <1>0 DEF Return, Drop, Goes, Goto, CallsKept
  <2>. QED
    BY <2>1 DEF Due, Everything, Nothing, Resharding, Maintaining
<1>15. InitSlot(t) => Due(t)'
  BY <1>0, <1>m DEF InitSlot, Goto, InHand
<1>16. LockActive(t) => Due(t)'
  BY <1>0, <1>m DEF LockActive, Goto, InHand
<1>17. CachedSnapshot(t) => Due(t)'
  BY <1>0, <1>b, <1>n, <1>q DEF CachedSnapshot, Goes, Answers, Goto, Fields
<1>18. BuilderGate(t) => Due(t)'
  BY <1>0, <1>b, <1>n, <1>q DEF BuilderGate, Goes, Answers, Goto, Fields
<1>19. PinRouting(t) => Due(t)'
  BY <1>0, <1>b, <1>q DEF PinRouting, Goto
<1>20. NextGuard(t) => Due(t)'
  <2>. SUFFICES ASSUME NextGuard(t) PROVE Due(t)'
    OBVIOUS
  <2>1. pc[t] = "guards" /\ pc'[t] = "guards" /\ Still /\ call' = call
    BY <1>0, <1>b DEF NextGuard, Fields
  <2>. QED
    BY <1>0, <1>r, <2>1 DEF Due, Everything
<1>21. FillCache(t) => Due(t)'
  BY <1>0, <1>p DEF FillCache, Goto
<1>22. Commit(t) => Due(t)'
  BY <1>0, <1>b, <1>n DEF Commit, Goes, Answers, Goto, Fields
<1>23. Exclusive(t) => Due(t)'
  <2>. SUFFICES ASSUME Exclusive(t) PROVE Due(t)'
    OBVIOUS
  <2>1. pc[t] = "exclusive" /\ call' = call /\ frame[t].left = Keys
    BY <1>0 DEF Exclusive, Due, Everything, LayoutOps
  <2>2. CASE call[t].op = "retain"
    <3>1. pc'[t] = "visit" /\ frame'[t].got = frame[t].got
      BY <1>0, <1>b, <2>2 DEF Exclusive, Goes, Goto, Fields
    <3>. QED
      BY <1>0, <1>l, <2>1, <2>2, <3>1 DEF Due, Everything, Nothing, Resharding, Maintaining
  <2>3. CASE call[t].op # "retain"
    BY <1>0, <1>o, <2>1, <2>3 DEF Exclusive, Goto
  <2>. QED
    BY <2>2, <2>3
<1>24. Sweep(t) => Due(t)'
  BY <1>0, <1>b, <1>n DEF Sweep, Goes, Answers, Goto, Fields
<1>25. Visit(t) => Due(t)'
  <2>. SUFFICES ASSUME Visit(t) PROVE Due(t)'
    OBVIOUS
  <2>1. pc[t] = "visit" /\ pc' = pc /\ call' = call /\ frame'[t].got = frame[t].got
    BY <1>0, <1>b DEF Visit, Fields
  <2>. QED
    BY <1>0, <2>1 DEF Due, Everything, Nothing, Resharding, Maintaining
<1>26. Visited(t) => Due(t)'
  BY <1>0, <1>b, <1>n DEF Visited, Goes, Answers, Goto, Fields
<1>27. RebalanceLock(t) => Due(t)'
  <2>. SUFFICES ASSUME RebalanceLock(t) PROVE Due(t)'
    OBVIOUS
  <2>1. pc[t] = "rebalance" /\ pc'[t] = "exclusive" /\ call' = call /\ Still
          /\ call[t].op \in LayoutOps
    BY <1>0 DEF RebalanceLock, Goto, CallFits
  <2>. QED
    BY <1>0, <1>l, <2>1 DEF Due, Everything, Nothing, Resharding, Maintaining, LayoutOps
<1>28. ExclusiveRouting(t) => Due(t)'
  <2>. SUFFICES ASSUME ExclusiveRouting(t) PROVE Due(t)'
    OBVIOUS
  <2>1. pc[t] = "exclusive" /\ call' = call /\ frame'[t].left = {}
    BY <1>0 DEF ExclusiveRouting, Due, Nothing
  <2>2. pc'[t] \in {"return"} \cup Resharding
    BY <1>0 DEF ExclusiveRouting, LayoutOps, Goto, Resharding
  <2>. QED
    BY <1>n, <2>1, <2>2 DEF Resharding
<1>29. start_rebalance_online(t) => Due(t)'
  BY <1>0, <1>p DEF start_rebalance_online, Goto, Resharding
<1>30. rebalance_to(t) => Due(t)'
  BY <1>0, <1>p DEF rebalance_to, Goto, Resharding
<1>31. MoveEntry(t) => Due(t)'
  BY <1>0, <1>b, <1>p DEF MoveEntry, Goes, Goto, Fields, Resharding
<1>32. SourceDrained(t) => Due(t)'
  BY <1>0, <1>b, <1>p DEF SourceDrained, BatchEnds, Goes, Goto, Fields, Resharding
<1>33. Maintain(t) => Due(t)'
  BY <1>0, <1>p DEF Maintain, Goto, Maintaining
<1>34. Glance(t) => Due(t)'
  BY <1>0, <1>p DEF Glance, Goto, Maintaining
<1>35. ExclusivePass(t) => Due(t)'
  BY <1>0, <1>p DEF ExclusivePass, Goto, Maintaining
<1>36. Repair(t) => Due(t)'
  BY <1>0, <1>p DEF Repair, Goto, Maintaining
<1>37. EvictGlobally(t) => Due(t)'
  BY <1>0, <1>p DEF EvictGlobally, Goto, Maintaining
<1>38. SharePass(t) => Due(t)'
  BY <1>0, <1>p DEF SharePass, GivesUp, Goto, Maintaining
<1>39. PassSlots(t) => Due(t)'
  BY <1>0, <1>b, <1>p DEF PassSlots, Goes, AfterScan, Selected, Goto, Fields, Maintaining
<1>40. Scan(t) => Due(t)'
  BY <1>0, <1>b, <1>p DEF Scan, Goes, AfterScan, Selected, Goto, Fields, Maintaining
<1>41. PassLock(t) => Due(t)'
  BY <1>0, <1>b, <1>p DEF PassLock, Goes, Goto, Fields, Maintaining
<1>42. TrimShards(t) => Due(t)'
  BY <1>0, <1>p DEF TrimShards, GivesUp, Goto, Maintaining
<1>. QED
  BY <1>1, <1>2, <1>3, <1>4, <1>5, <1>6, <1>7, <1>8, <1>9, <1>10, <1>11, <1>12, <1>13,
     <1>14, <1>15, <1>16, <1>17, <1>18, <1>19, <1>20, <1>21, <1>22, <1>23, <1>24, <1>25,
     <1>26, <1>27, <1>28, <1>29, <1>30, <1>31, <1>32, <1>33, <1>34, <1>35, <1>36, <1>37,
     <1>38, <1>39, <1>40, <1>41, <1>42
  DEF Step, KeyStep, BulkStep, MigrationStep, EvictionStep

\* Where a lookup falls back, a plan is made, a snapshot taken or a retain begins.
Arrives(t) ==
  \/ Enqueue(t) \/ FindSlot(t) \/ ReadActive(t) \/ LockActive(t) \/ PinSlots(t) \/ NextGuard(t)
  \/ CollectShards(t) \/ TxnSlot(t) \/ TxnInit(t) \/ Exclusive(t) \/ Visit(t)

\* No other step leads there.
LEMMA Arrivals ==
  ASSUME CallsKept, CountsKept, NEW t \in Threads, Step(t)
  PROVE  Arrives(t) \/ pc'[t] \notin {"previous", "guards", "visit", "fill"}
<1>. DEFINE Elsewhere == pc'[t] \notin {"previous", "guards", "visit", "fill"}
<1>0. CallsKept /\ CountsKept /\ t \in DOMAIN pc
  BY DEF CallsKept
<1>a. ASSUME NEW old, pc[t] \in InHand, Done(t, old) PROVE Elsewhere
  <2>1. \/ pc' = [pc EXCEPT ![t] = IF ReadOnly(t) THEN "return" ELSE "maintain"]
        \/ pc' = [pc EXCEPT ![t] = "slots"]
    BY <1>a, DoneMoves
  <2>. QED
    BY <1>0, <2>1
<1>1. ASSUME NEW c \in Mixes[config.mix], Invoke(t, c) PROVE Elsewhere
  <2>1. c \in CallsMade
    BY <1>0, ScenariosAssumption DEF CountsKept
  <2>2. FirstAwait(c) \in {"route", "gate", "cached", "exclusive", "rebalance", "maintain"}
    BY <2>1, CallsTyped DEF FirstAwait, KeyOps, BatchOps, LayoutOps
  <2>. QED
    BY <1>0, <1>1, <2>2 DEF Invoke, Goes, Goto
<1>2. Return(t) => Elsewhere
  BY <1>0 DEF Return, Goes, Goto
<1>3. Drop(t) => Elsewhere
  BY <1>0 DEF Drop, Goes, Goto
<1>4. Route(t) => Elsewhere
  BY <1>0 DEF Route, Goes, Goto
<1>5. InitSlot(t) => Elsewhere
  BY <1>0 DEF InitSlot, Goto
<1>6. ReadPrevious(t) => Elsewhere
  BY <1>a DEF ReadPrevious, InHand
<1>7. WriteKeys(t) => Elsewhere
  BY <1>a DEF WriteKeys, InHand
<1>8. CachedSnapshot(t) => Elsewhere
  BY <1>0 DEF CachedSnapshot, Goes, Goto
<1>9. BuilderGate(t) => Elsewhere
  BY <1>0 DEF BuilderGate, Goes, Goto
<1>10. PinRouting(t) => Elsewhere
  BY <1>0 DEF PinRouting, Goto
<1>11. FillCache(t) => Elsewhere
  BY <1>0 DEF FillCache, Goto
<1>12. Commit(t) => Elsewhere
  BY <1>0 DEF Commit, Goes, Goto
<1>13. Sweep(t) => Elsewhere
  BY <1>0 DEF Sweep, Goes, Goto
<1>14. Visited(t) => Elsewhere
  BY <1>0 DEF Visited, Goes, Goto
<1>15. RebalanceLock(t) => Elsewhere
  BY <1>0 DEF RebalanceLock, Goto
<1>16. ExclusiveRouting(t) => Elsewhere
  BY <1>0 DEF ExclusiveRouting, LayoutOps, Goto
<1>17. start_rebalance_online(t) => Elsewhere
  BY <1>0 DEF start_rebalance_online, Goto
<1>18. rebalance_to(t) => Elsewhere
  BY <1>0 DEF rebalance_to, Goto
<1>19. LoadBatch(t) => Elsewhere
  BY <1>0 DEF LoadBatch, Pops, Goes, Goto
<1>20. MoveEntry(t) => Elsewhere
  BY <1>0 DEF MoveEntry, Goes, Goto
<1>21. SourceLeft(t) => Elsewhere
  BY <1>0 DEF SourceLeft, Pops, BatchEnds, Goes, Goto
<1>22. SourceDrained(t) => Elsewhere
  BY <1>0 DEF SourceDrained, BatchEnds, Goes, Goto
<1>23. Maintain(t) => Elsewhere
  BY <1>0 DEF Maintain, Goto
<1>24. Glance(t) => Elsewhere
  BY <1>0 DEF Glance, Goto
<1>25. ExclusivePass(t) => Elsewhere
  BY <1>0 DEF ExclusivePass, Goto
<1>26. Repair(t) => Elsewhere
  BY <1>0 DEF Repair, Goto
<1>27. EvictGlobally(t) => Elsewhere
  BY <1>0 DEF EvictGlobally, Goto
<1>28. SharePass(t) => Elsewhere
  BY <1>0 DEF SharePass, GivesUp, Goto
<1>29. PassSlots(t) => Elsewhere
  BY <1>0 DEF PassSlots, AfterScan, Goes, Goto
<1>30. Scan(t) => Elsewhere
  BY <1>0 DEF Scan, AfterScan, Goes, Goto
<1>31. PassLock(t) => Elsewhere
  BY <1>0 DEF PassLock, Goes, Goto
<1>32. TrimShards(t) => Elsewhere
  BY <1>0 DEF TrimShards, GivesUp, Goto
<1>. QED
  BY <1>1, <1>2, <1>3, <1>4, <1>5, <1>6, <1>7, <1>8, <1>9, <1>10, <1>11, <1>12, <1>13, <1>14,
     <1>15, <1>16, <1>17, <1>18, <1>19, <1>20, <1>21, <1>22, <1>23, <1>24, <1>25, <1>26, <1>27,
     <1>28, <1>29, <1>30, <1>31, <1>32
  DEF Step, KeyStep, BulkStep, MigrationStep, EvictionStep, Arrives

\* The others stand where they stood.
LEMMA OthersKept ==
  ASSUME CallsKept, NEW t \in Threads, Only(t), NEW u \in Threads, u # t
  PROVE  /\ pc'[u] = pc[u] /\ call'[u] = call[u] /\ frame'[u] = frame[u]
         /\ ReadOnly(u)' = ReadOnly(u) /\ KeyInHand(u)' = KeyInHand(u)
BY DEF CallsKept, Only, ReadOnly, KeyInHand

\* Shared routing fixes the layout.
LEMMA RoutingFixes ==
  ASSUME Base, NEW t \in Threads, Step(t), pc[t] \notin Alone
  PROVE  /\ UNCHANGED <<config, shard_count, previous_shard_count, migrating, moved_shards>>
         /\ \A k : shard_index(k)' = shard_index(k) /\ previous_index(k)' = previous_index(k)
BY LayoutStays DEF Base, shard_index, previous_index

\* Whoever is to write keeps its guards, or plans for them.
LEMMA GuardsNext ==
  ASSUME Base, Guards, NEW t \in Threads, Step(t)
  PROVE  Guards'
<1>0. /\ CallsKept /\ CountsKept /\ LockTypes /\ WritersExclude /\ Falling /\ Guarding(t)
      /\ Only(t) /\ CallFits(pc[t], call[t], frame[t]) /\ t \in DOMAIN pc /\ t \in DOMAIN frame
  BY OneMoves DEF Base, Locking, CallsKept, Guards
<1>a. \A k \in Keys : Active(shard_index(k)) \in Locks /\ Active(shard_index(k)) \in ShardLocks
  BY <1>0, IndexTyped DEF Active, Locks, ShardLocks
<1>1. ASSUME NEW u \in Threads, u # t PROVE Guarding(u)'
  <2>1. pc'[u] = pc[u] /\ frame'[u] = frame[u] /\ ReadOnly(u)' = ReadOnly(u)
          /\ KeyInHand(u)' = KeyInHand(u)
    BY <1>0, <1>1, OthersKept
  <2>. SUFFICES ASSUME ~ReadOnly(u), pc[u] \in {"previous", "guards"} PROVE Guarding(u)'
    BY <2>1 DEF Guarding
  <2>2. pc[t] \notin Alone
    BY <1>1, AloneIsAlone DEF Base, Sharing
  <2>3. \A k : shard_index(k)' = shard_index(k)
    BY <2>2, RoutingFixes
  <2>4. \A x \in Locks : writer[x] = u => writer'[x] = u
    BY <1>1, OthersHold
  <2>5. CallFits(pc[u], call[u], frame[u]) /\ Guarding(u)
    BY <1>0 DEF CallsKept, Guards
  <2>6. CASE pc[u] = "previous"
    <3>1. KeyInHand(u) \in Keys
      BY <1>0, <2>6, HandHasKey DEF InHand
    <3>2. writer[Active(shard_index(KeyInHand(u)))] = u
      BY <2>5, <2>6 DEF Guarding
    <3>3. writer'[Active(shard_index(KeyInHand(u)))] = u
      BY <1>a, <2>4, <3>1, <3>2
    <3>. QED
      BY <2>1, <2>3, <2>6, <3>3 DEF Guarding
  <2>7. CASE pc[u] = "guards"
    <3>1. frame[u].left \subseteq Keys
      BY <2>5 DEF CallFits
    <3>2. \A k \in frame[u].left :
            Active(shard_index(k)) \in frame[u].plan \/ writer[Active(shard_index(k))] = u
      BY <2>5, <2>7 DEF Guarding
    <3>3. \A k \in frame[u].left :
            Active(shard_index(k)) \in frame[u].plan \/ writer'[Active(shard_index(k))] = u
      BY <1>a, <2>4, <3>1, <3>2
    <3>. QED
      BY <2>1, <2>3, <2>7, <3>3 DEF Guarding
  <2>. QED
    BY <2>6, <2>7
<1>2. Guarding(t)'
  <2>. SUFFICES ASSUME pc'[t] \in {"previous", "guards"}, ~ReadOnly(t)' PROVE Guarding(t)'
    BY DEF Guarding
  <2>1. Arrives(t)
    BY <1>0, Arrivals
  <2>2. call' = call /\ ~ReadOnly(t)
    BY <2>1 DEF Arrives, Enqueue, FindSlot, ReadActive, LockActive, PinSlots, NextGuard,
                CollectShards, TxnSlot, TxnInit, Exclusive, Visit, ReadOnly
  <2>3. ~PinSlots(t) /\ ~CollectShards(t) /\ ~Exclusive(t) /\ ~Visit(t)
    <3>1. ~PinSlots(t)
      BY <1>0, <2>2 DEF PinSlots, CallFits, ReadOnly
    <3>4. ~CollectShards(t)
      BY <2>2 DEF CollectShards
    <3>2. ~Exclusive(t)
      BY <1>0 DEF Exclusive, Goes, Goto
    <3>3. ~Visit(t)
      BY <1>0 DEF Visit
    <3>. QED
      BY <3>1, <3>2, <3>3, <3>4
  <2>4. pc[t] \in InHand \cup {"guards"}
    BY <1>0, <2>1, <2>3 DEF Arrives, Enqueue, FindSlot, ReadActive, LockActive, NextGuard,
                       TxnSlot, TxnInit, InHand
  <2>5. \A k : shard_index(k)' = shard_index(k)
    BY <2>4, RoutingFixes DEF InHand, Alone, Resharding
  <2>6. CASE Enqueue(t)
    BY <1>0, <2>2, <2>5, <2>6 DEF Enqueue, Guarding, KeyInHand
  <2>7. CASE FindSlot(t) \/ ReadActive(t)
    <3>1. ASSUME NEW old, Done(t, old) PROVE FALSE
      <4>1. pc[t] \in InHand
        BY <2>7 DEF FindSlot, ReadActive, InHand
      <4>2. \/ pc' = [pc EXCEPT ![t] = IF ReadOnly(t) THEN "return" ELSE "maintain"]
            \/ pc' = [pc EXCEPT ![t] = "slots"]
        BY <1>0, <3>1, <4>1, DoneMoves
      <4>. QED
        BY <1>0, <4>2
    <3>. QED
      BY <1>0, <2>2, <2>7, <3>1 DEF FindSlot, ReadActive, Goto
  <2>8. CASE LockActive(t)
    <3>1. KeyInHand(t) \in Keys
      BY <1>0, <2>8, HandHasKey DEF LockActive, InHand
    <3>2. Wanted(t) = <<Active(shard_index(KeyInHand(t))), "write">>
      BY <2>8 DEF LockActive, Wanted, KeyMode
    <3>3. writer'[Active(shard_index(KeyInHand(t)))] = t
      BY <1>0, <1>a, <2>8, <3>1, <3>2, AcquiredWrite DEF LockActive, Took
    <3>4. pc'[t] = "previous" /\ KeyInHand(t)' = KeyInHand(t)
      BY <1>0, <2>8 DEF LockActive, Goto, KeyInHand
    <3>. QED
      BY <2>5, <3>3, <3>4 DEF Guarding
  <2>9. CASE NextGuard(t)
    <3>1. NextShard(t) \in Locks /\ Wanted(t) = <<NextShard(t), "write">>
      BY <1>0, <2>2, <2>9, WantedAt DEF NextGuard, KeyMode, Locks, Planned
    <3>2. Took(t, {}, {NextShard(t)}, {})
      BY <1>0, <2>9, <3>1, AcquiredWrite DEF NextGuard
    <3>3. pc[t] = "guards" /\ pc'[t] = "guards" /\ frame'[t].left = frame[t].left
            /\ frame'[t].plan = frame[t].plan \ {NextShard(t)}
      BY <1>0, <2>9 DEF NextGuard, CallFits, Fields
    <3>4. ASSUME NEW k \in frame[t].left
          PROVE  Active(shard_index(k)) \in frame'[t].plan \/ writer'[Active(shard_index(k))] = t
      <4>1. k \in Keys
        BY <1>0 DEF CallFits
      <4>2. Active(shard_index(k)) \in frame[t].plan \/ writer[Active(shard_index(k))] = t
        BY <1>0, <2>2, <3>3 DEF Guarding
      <4>. QED
        BY <1>a, <3>2, <3>3, <4>1, <4>2 DEF Took
    <3>. QED
      BY <2>5, <3>3, <3>4 DEF Guarding
  <2>10. CASE TxnSlot(t) \/ TxnInit(t)
    <3>1. CASE Goes(t, "guards", [frame[t] EXCEPT !.plan = TxnPlan(t)])
      <4>1. pc'[t] = "guards" /\ frame'[t].left = frame[t].left /\ frame'[t].plan = TxnPlan(t)
        BY <1>0, <3>1 DEF Goes, Goto, CallFits, Fields
      <4>2. \A k \in frame[t].left : Active(shard_index(k)) \in TxnPlan(t)
        BY DEF TxnPlan, Both
      <4>. QED
        BY <2>5, <4>1, <4>2 DEF Guarding
    <3>2. CASE pc'[t] \notin {"previous", "guards"}
      BY <3>2
    <3>. QED
      BY <1>0, <2>10, <3>1, <3>2 DEF TxnSlot, TxnInit, Resolved, Goes, Goto
  <2>. QED
    BY <2>1, <2>3, <2>6, <2>7, <2>8, <2>9, <2>10 DEF Arrives
<1>. QED
  BY <1>1, <1>2 DEF Guards

-----------------------------------------------------------------------------
(*****************************************************************************)
(* What a lookup has missed, and what a retain has done.                     *)
(*****************************************************************************)
\* Under shared routing a shard only changes when nobody reads it, or loses entries, and a slot
\* is only filled when nobody has the directory.
LEMMA ActiveChanges ==
  ASSUME Base, Data, Guards, NEW t \in Threads, Step(t), pc[t] \notin Alone, NEW i \in Idx
  PROVE  \/ shards'[i] = shards[i]
         \/ readers[Slots] = {} /\ shards'[i] = EmptyShard
         \/ readers[Active(i)] = {} /\ shards[i] # NoShard
         \/ /\ shards[i] = NoShard => shards'[i] = NoShard
            /\ \A k \in Keys : Lookup(shards'[i], k) \in {Lookup(shards[i], k), Nil}
<1>0. /\ CallsKept /\ CountsKept /\ LockTypes /\ WritersExclude /\ Falling /\ DataTypes
      /\ Fits(t) /\ Guarding(t) /\ CallFits(pc[t], call[t], frame[t])
  BY DEF Base, Locking, CallsKept, Guards, Data
<1>a. t # NoTask
  BY StateAssumption
<1>b. Active(i) \in Locks
  BY DEF Active, Locks, ShardLocks
<1>1. CASE ~Changing(t)
  BY <1>1, QuietSteps DEF Quiet, layout
<1>2. CASE InitSlot(t) \/ TxnInit(t)
  <2>1. shards' = [shards EXCEPT ![shard_index(KeyInHand(t))] = IF @ = NoShard THEN EmptyShard
                                                                ELSE @]
    BY <1>2 DEF InitSlot, TxnInit, get_or_init_shard
  <2>2. Wanted(t) = <<Slots, "write">> /\ Obstacles(t) = {}
    BY <1>0, <1>2, WantedAt DEF InitSlot, TxnInit, Resolved, Acquire
  <2>3. readers[Slots] = {}
    BY <2>2 DEF Obstacles
  <2>. QED
    BY <1>0, <2>1, <2>3 DEF DataTypes
<1>3. CASE WriteKeys(t)
  <2>1. shards'[i] # shards[i] => \E k \in frame[t].part : shard_index(k) = i
    BY <1>3 DEF WriteKeys, Put
  <2>. SUFFICES ASSUME shards'[i] # shards[i] PROVE readers[Active(i)] = {} /\ shards[i] # NoShard
    OBVIOUS
  <2>2. pc[t] \in InHand /\ pc[t] \in {"active", "previous"} /\ ~ReadOnly(t)
    BY <1>3 DEF WriteKeys, InHand
  <2>3. PICK k \in frame[t].part : shard_index(k) = i
    BY <2>1
  <2>4. shard_index(KeyInHand(t)) = i
    BY <1>0, <2>2, <2>3, HandHasKey DEF Fits, Handful
  <2>5. shards[i] # NoShard
    BY <1>0, <2>2, <2>3 DEF Fits, Housed, Settled
  <2>6. CASE pc[t] = "active"
    <3>1. Wanted(t) = <<Active(i), "write">> /\ Obstacles(t) = {}
      BY <1>3, <2>2, <2>4, <2>6 DEF Wanted, KeyMode, WriteKeys, Acquire
    <3>. QED
      BY <2>5, <3>1 DEF Obstacles
  <2>7. CASE pc[t] = "previous"
    <3>1. writer[Active(i)] = t
      BY <1>0, <2>2, <2>4, <2>7 DEF Guarding
    <3>. QED
      BY <1>0, <1>a, <1>b, <2>5, <3>1 DEF WritersExclude
  <2>. QED
    BY <2>2, <2>6, <2>7
<1>4. CASE Commit(t)
  <2>1. shards'[i] # shards[i] => \E k \in frame[t].left : shard_index(k) = i
    BY <1>4 DEF Commit, Put
  <2>. SUFFICES ASSUME shards'[i] # shards[i] PROVE readers[Active(i)] = {} /\ shards[i] # NoShard
    OBVIOUS
  <2>2. pc[t] = "guards" /\ ~ReadOnly(t) /\ frame[t].plan = {NextShard(t)}
    BY <1>4 DEF Commit, LastGuard
  <2>3. PICK k \in frame[t].left : shard_index(k) = i
    BY <2>1
  <2>5. shards[i] # NoShard
    BY <1>0, <2>2, <2>3 DEF Fits, Housed, Settled
  <2>6. CASE NextShard(t) = Active(i)
    <3>1. Wanted(t) = <<Active(i), "write">> /\ Obstacles(t) = {}
      BY <1>0, <1>4, <2>2, <2>6, WantedAt DEF KeyMode, Commit, Acquire
    <3>. QED
      BY <2>5, <3>1 DEF Obstacles
  <2>7. CASE NextShard(t) # Active(i)
    <3>1. writer[Active(i)] = t
      BY <1>0, <2>2, <2>3, <2>7 DEF Guarding
    <3>. QED
      BY <1>0, <1>a, <1>b, <2>5, <3>1 DEF WritersExclude
  <2>. QED
    BY <2>6, <2>7
<1>5. CASE TrimShards(t)
  <2>1. CASE UNCHANGED shards
    BY <2>1
  <2>2. ASSUME NEW K, Evicted(K)
        PROVE  /\ shards[i] = NoShard => shards'[i] = NoShard
               /\ \A k \in Keys : Lookup(shards'[i], k) \in {Lookup(shards[i], k), Nil}
    <3>1. shards'[i] = Without(shards[i], K)
      BY <2>2 DEF Evicted
    <3>2. CASE shards[i] = NoShard
      BY <3>1, <3>2 DEF Without
    <3>3. CASE shards[i] # NoShard
      <4>1. shards'[i] = [k \in Keys |-> IF k \in K THEN Nil ELSE shards[i][k]]
        BY <3>1, <3>3 DEF Without
      <4>2. \A k \in Keys : Lookup(shards[i], k) = shards[i][k]
        BY <3>3 DEF Lookup
      <4>3. \A k \in Keys : Lookup(shards'[i], k) \in {Nil, shards'[i][k]}
        BY DEF Lookup
      <4>. QED
        BY <3>3, <4>1, <4>2, <4>3
    <3>. QED
      BY <3>2, <3>3
  <2>. QED
    BY <1>5, <2>1, <2>2 DEF TrimShards
<1>6. ~(Sweep(t) \/ Visit(t) \/ start_rebalance_online(t) \/ rebalance_to(t)
        \/ LoadBatch(t) \/ MoveEntry(t) \/ SourceLeft(t) \/ SourceDrained(t)
        \/ Repair(t) \/ EvictGlobally(t))
  BY DEF Alone, Resharding, Sweep, Visit, start_rebalance_online, rebalance_to, LoadBatch,
         MoveEntry, SourceLeft, SourceDrained, Repair, EvictGlobally
<1>. QED
  BY <1>1, <1>2, <1>3, <1>4, <1>5, <1>6 DEF Changing

\* What a lookup has missed stays away, whatever the others do.
LEMMA OthersMissed ==
  ASSUME Base, Data, Guards, NEW t \in Threads, Step(t), NEW u \in Threads, u # t, Missed(u)
  PROVE  Missed(u)'
<1>0. /\ CallsKept /\ CountsKept /\ LockTypes /\ DataTypes /\ Fits(u)
      /\ pc'[u] = pc[u] /\ frame'[u] = frame[u] /\ ReadOnly(u)' = ReadOnly(u)
      /\ KeyInHand(u)' = KeyInHand(u)
  BY OneMoves, OthersKept DEF Base, Locking, Data
<1>. SUFFICES ASSUME pc[u] = "previous", ReadOnly(u) PROVE Missed(u)'
  BY <1>0 DEF Missed
<1>1. pc[t] \notin Alone
  BY AloneIsAlone DEF Base, Sharing
<1>2. \A k : shard_index(k)' = shard_index(k)
  BY <1>1, RoutingFixes
<1>3. PICK i \in Idx : i = shard_index(KeyInHand(u))
  BY <1>0, HandHasKey, IndexTyped DEF InHand
<1>4. \A k \in frame[u].part : k \in Keys /\ shard_index(k) = i
  BY <1>0, <1>3, HandHasKey DEF Fits, Handful, InHand
<1>5. /\ \A k \in frame[u].part : Lookup(shards[i], k) = Nil
      /\ u \in readers[Active(i)] \/ (shards[i] = NoShard /\ u \in readers[Slots])
  BY <1>3, <1>4 DEF Missed, InActive
<1>6. Active(i) \in Locks /\ Slots \in Locks
  BY DEF Active, Locks, ShardLocks
<1>7. /\ u \in readers[Active(i)] => u \in readers'[Active(i)]
      /\ u \in readers[Slots] => u \in readers'[Slots]
  BY <1>6, OthersHold
<1>8. CASE shards'[i] = shards[i]
  BY <1>0, <1>2, <1>3, <1>4, <1>5, <1>7, <1>8 DEF Missed, InActive
<1>9. CASE readers[Slots] = {} /\ shards'[i] = EmptyShard
  <2>1. \A k \in Keys : Lookup(shards'[i], k) = Nil
    BY <1>9 DEF Lookup, EmptyShard
  <2>. QED
    BY <1>0, <1>2, <1>3, <1>4, <1>5, <1>7, <1>9, <2>1 DEF Missed, InActive
<1>10. CASE readers[Active(i)] = {} /\ shards[i] # NoShard
  BY <1>5, <1>10
<1>11. CASE /\ shards[i] = NoShard => shards'[i] = NoShard
            /\ \A k \in Keys : Lookup(shards'[i], k) \in {Lookup(shards[i], k), Nil}
  BY <1>0, <1>2, <1>3, <1>4, <1>5, <1>7, <1>11 DEF Missed, InActive
<1>. QED
  BY <1>1, <1>8, <1>9, <1>10, <1>11, ActiveChanges

\* A lookup falls back with the guard under which it has missed.
LEMMA OwnMissed ==
  ASSUME Base, Data, NEW t \in Threads, Step(t), Missed(t)
  PROVE  Missed(t)'
<1>0. /\ CallsKept /\ CountsKept /\ LockTypes /\ WritersExclude /\ Falling /\ DataTypes /\ Fits(t)
      /\ CallFits(pc[t], call[t], frame[t]) /\ t \in DOMAIN pc /\ t \in DOMAIN frame
  BY DEF Base, Locking, CallsKept, Data
<1>. SUFFICES ASSUME pc'[t] = "previous", ReadOnly(t)' PROVE Missed(t)'
  BY DEF Missed
<1>1. Arrives(t)
  BY <1>0, Arrivals
<1>2. call' = call /\ ReadOnly(t)
  BY <1>1 DEF Arrives, Enqueue, FindSlot, ReadActive, LockActive, PinSlots, NextGuard,
              CollectShards, TxnSlot, TxnInit, Exclusive, Visit, ReadOnly
<1>3. CASE Enqueue(t)
  BY <1>0, <1>2, <1>3
  DEF Enqueue, layout, Missed, KeyInHand, InActive, shard_index
<1>4. CASE FindSlot(t) \/ ReadActive(t)
  <2>1. pc[t] \in InHand /\ pc[t] \notin Alone /\ call[t].op # "txn" /\ shards' = shards
    BY <1>0, <1>4 DEF FindSlot, ReadActive, layout, InHand, Alone, Resharding, CallFits
  <2>2. \A k : shard_index(k)' = shard_index(k)
    BY <2>1, RoutingFixes
  <2>3. PICK i \in Idx : i = shard_index(KeyInHand(t))
    BY <1>0, <2>1, HandHasKey, IndexTyped
  <2>4. \A k \in frame[t].part : k \in Keys /\ shard_index(k) = i
    BY <1>0, <2>1, <2>3, HandHasKey DEF Fits, Handful
  <2>5. Active(i) \in Locks /\ Slots \in Locks
    BY DEF Active, Locks, ShardLocks
  <2>6. ASSUME NEW old, Done(t, old) PROVE FALSE
    <3>1. \/ pc' = [pc EXCEPT ![t] = IF ReadOnly(t) THEN "return" ELSE "maintain"]
          \/ pc' = [pc EXCEPT ![t] = "slots"]
      BY <1>0, <2>1, <2>6, DoneMoves
    <3>. QED
      BY <1>0, <3>1
  <2>7. FallsBack(t) /\ UNCHANGED frame
    BY <1>0, <1>4, <2>6 DEF FindSlot, ReadActive, Goto
  <2>8. KeyInHand(t)' = KeyInHand(t)
    BY <2>7 DEF KeyInHand
  <2>9. CASE FindSlot(t)
    <3>1. vacant(t) /\ Acquire(t, {})
      BY <1>0, <2>6, <2>9 DEF FindSlot, Goto, KeepsSlots
    <3>2. Wanted(t) = <<Slots, "read">>
      BY <1>0, <2>9, WantedAt DEF FindSlot
    <3>3. t \in readers'[Slots]
      BY <1>0, <2>5, <3>1, <3>2, AcquiredRead DEF Took
    <3>4. shards[i] = NoShard
      BY <2>3, <3>1 DEF vacant
    <3>5. \A k \in frame[t].part : Lookup(shards[i], k) = Nil
      BY <3>4 DEF Lookup
    <3>. QED
      BY <2>1, <2>2, <2>3, <2>4, <2>7, <2>8, <3>3, <3>4, <3>5 DEF Missed, InActive
  <2>10. CASE ReadActive(t)
    <3>1. Acquire(t, {}) /\ InActive(KeyInHand(t)) = Nil
      BY <1>0, <2>1, <2>6, <2>10, HandHasKey DEF ReadActive, Goto
    <3>2. Wanted(t) = <<Active(i), "read">>
      BY <1>2, <2>3, <2>10 DEF ReadActive, Wanted, KeyMode
    <3>3. t \in readers'[Active(i)]
      BY <1>0, <2>5, <3>1, <3>2, AcquiredRead DEF Took
    <3>4. \A k \in frame[t].part : k = KeyInHand(t)
      <4>1. KeyInHand(t) \in frame[t].part /\ frame[t].part \subseteq frame[t].left
              /\ call[t].op \in KeyOps \cup BatchOps \cup {"txn"}
        BY <1>0, <2>1, HandHasKey
      <4>2. call[t].op \in BatchOps => migrating
        BY <2>7 DEF FallsBack
      <4>. QED
        BY <1>0, <2>1, <4>1, <4>2 DEF Fits, Handful
    <3>. QED
      BY <2>1, <2>2, <2>3, <2>7, <2>8, <3>1, <3>3, <3>4 DEF Missed, InActive
  <2>. QED
    BY <1>4, <2>9, <2>10
<1>5. ~(LockActive(t) \/ TxnSlot(t) \/ TxnInit(t) \/ Exclusive(t))
  <2>1. ~LockActive(t)
    BY <1>2 DEF LockActive
  <2>2. ~(TxnSlot(t) \/ TxnInit(t))
    BY <1>2 DEF TxnSlot, TxnInit, ReadOnly
  <2>3. ~Exclusive(t)
    BY <1>2 DEF Exclusive, ReadOnly
  <2>. QED
    BY <2>1, <2>2, <2>3
<1>6. ~(PinSlots(t) \/ CollectShards(t))
  BY <1>0 DEF PinSlots, CollectShards, Collect, Goes, Goto
<1>7. ~(NextGuard(t) \/ Visit(t))
  BY <1>0 DEF NextGuard, Visit
<1>. QED
  BY <1>1, <1>3, <1>4, <1>5, <1>6, <1>7 DEF Arrives

\* Only a builder fills the cache.
LEMMA CacheStays ==
  ASSUME NEW t \in Threads, Step(t)
  PROVE  UNCHANGED snapshot_cache \/ FillCache(t)
<1>1. (\E c \in Mixes[config.mix] : Invoke(t, c)) \/ Enqueue(t) \/ Return(t) \/ Drop(t)
        => UNCHANGED snapshot_cache
  BY DEF Invoke, Enqueue, Return, Drop
<1>2. KeyStep(t) => UNCHANGED snapshot_cache
  BY DEF KeyStep, Route, FindSlot, InitSlot, ReadActive, ReadPrevious, LockActive, WriteKeys
<1>3. BulkStep(t) => UNCHANGED snapshot_cache \/ FillCache(t)
  BY DEF BulkStep, CachedSnapshot, BuilderGate, PinRouting, PinSlots, NextGuard, CollectShards,
         TxnSlot, TxnInit, Commit, Exclusive, Sweep, Visit, Visited
<1>4. MigrationStep(t) => UNCHANGED snapshot_cache
  BY DEF MigrationStep, RebalanceLock, ExclusiveRouting, start_rebalance_online, rebalance_to,
         LoadBatch, MoveEntry, SourceLeft, SourceDrained
<1>5. EvictionStep(t) => UNCHANGED snapshot_cache
  BY DEF EvictionStep, Maintain, Glance, ExclusivePass, Repair, EvictGlobally, SharePass,
         PassSlots, Scan, PassLock, TrimShards
<1>. QED
  BY <1>1, <1>2, <1>3, <1>4, <1>5 DEF Step

\* Who is alone sees nobody change anything.
LEMMA AloneQuiet ==
  ASSUME Base, NEW t \in Threads, Step(t), NEW u \in Threads, u # t, pc[u] \in Alone
  PROVE  /\ Quiet /\ pc[t] \notin Sharing \cup Alone
         /\ UNCHANGED snapshot_cache \/ FillCache(t)
         /\ pc'[t] = "fill" => pc[t] = "fill" /\ frame'[t] = frame[t]
<1>1. pc[t] \notin Sharing \cup Alone
  BY AloneIsAlone DEF Base
<1>2. ~Changing(t)
  BY <1>1 DEF Changing, Sharing, Alone, Resharding, InitSlot, TxnInit, WriteKeys, Commit, Sweep,
              Visit, start_rebalance_online, rebalance_to, LoadBatch, MoveEntry, SourceLeft,
              SourceDrained, Repair, EvictGlobally, TrimShards
<1>3. pc'[t] = "fill" => pc[t] = "fill" /\ frame'[t] = frame[t]
  <2>. SUFFICES ASSUME pc'[t] = "fill" PROVE pc[t] = "fill" /\ frame'[t] = frame[t]
    OBVIOUS
  <2>1. Arrives(t)
    BY Arrivals DEF Base
  <2>2. Enqueue(t) \/ Exclusive(t)
    BY <1>1, <2>1 DEF Arrives, Sharing, Alone, FindSlot, ReadActive, LockActive, PinSlots,
                      NextGuard, CollectShards, TxnSlot, TxnInit, Visit
  <2>3. ~Exclusive(t)
    BY DEF Exclusive, Goes, Goto, Base, CallsKept
  <2>. QED
    BY <2>2, <2>3 DEF Enqueue
<1>. QED
  BY <1>1, <1>2, <1>3, QuietSteps, CacheStays

\* Nobody interferes with a retain.
LEMMA OthersSifting ==
  ASSUME Base, Data, NEW t \in Threads, Step(t), NEW u \in Threads, u # t, Sifting(u), Hidden(u)
  PROVE  Sifting(u)' /\ Hidden(u)'
<1>0. pc'[u] = pc[u] /\ call'[u] = call[u] /\ frame'[u] = frame[u]
  BY OneMoves, OthersKept DEF Base
<1>. SUFFICES ASSUME pc[u] = "visit" PROVE Sifting(u)' /\ Hidden(u)'
  BY <1>0 DEF Sifting, Hidden
<1>1. /\ Quiet /\ (UNCHANGED snapshot_cache \/ FillCache(t))
      /\ pc'[t] = "fill" => pc[t] = "fill" /\ frame'[t] = frame[t]
  BY AloneQuiet DEF Alone
<1>2. Contents' = Contents
  BY <1>1, QuietSteady
<1>3. Stored' = Stored /\ UNCHANGED <<shards, previous_shards, write_epoch>>
  BY <1>1, <1>2 DEF Stored, Quiet, layout, counters
<1>4. Sifting(u)'
  BY <1>0, <1>3 DEF Sifting, Home
<1>5. Hidden(u)'
  <2>. SUFFICES ASSUME frame[u].left # Keys
                PROVE  /\ \A c \in snapshot_cache' : c.epoch # write_epoch
                       /\ \A v \in Threads : pc'[v] = "fill" => frame'[v].cut # write_epoch
    BY <1>0, <1>3 DEF Hidden
  <2>1. /\ \A c \in snapshot_cache : c.epoch # write_epoch
        /\ \A v \in Threads : pc[v] = "fill" => frame[v].cut # write_epoch
    BY DEF Hidden
  <2>2. \A v \in Threads : v # t => pc'[v] = pc[v] /\ frame'[v] = frame[v]
    BY OneMoves, OthersKept DEF Base
  <2>3. \A c \in snapshot_cache' : c.epoch # write_epoch
    BY <1>1, <2>1 DEF FillCache
  <2>. QED
    BY <1>1, <2>1, <2>2, <2>3
<1>. QED
  BY <1>4, <1>5

\* Whatever is stored is in a shard that is there.
LEMMA StoredSomewhere ==
  ASSUME CountsKept, DataTypes, NEW k \in Stored
  PROVE  k \in Keys /\ \E l \in Frozen : k \in Keyset(Home(l))
<1>1. k \in Keys /\ Contents[k] # Nil
  BY DEF Stored
<1>2. /\ shard_index(k) \in Idx /\ InActive(k) = Lookup(shards[shard_index(k)], k)
      /\ InActive(k) = Nil => /\ previous_shard_count # 0 /\ previous_index(k) \in Idx
                              /\ Contents[k] = Lookup(previous_shards[previous_index(k)], k)
  BY <1>1, ContentsAt
<1>3. CASE InActive(k) # Nil
  <2>1. shards[shard_index(k)] # NoShard
    BY <1>2, <1>3 DEF Lookup
  <2>2. Active(shard_index(k)) \in Frozen
    BY <1>2, <2>1 DEF Frozen, Both, Initialized
  <2>3. Home(Active(shard_index(k))) = shards[shard_index(k)]
    BY DEF Home, Active
  <2>. QED
    BY <1>1, <1>2, <1>3, <2>2, <2>3 DEF Keyset
<1>4. CASE InActive(k) = Nil
  <2>1. previous_shards[previous_index(k)] # NoShard
    BY <1>1, <1>2, <1>4 DEF Lookup
  <2>2. Previous(previous_index(k)) \in Frozen
    BY <1>2, <1>4, <2>1 DEF Frozen, Both, Initialized
  <2>3. Home(Previous(previous_index(k))) = previous_shards[previous_index(k)]
    BY DEF Home, Previous
  <2>. QED
    BY <1>1, <1>2, <1>4, <2>2, <2>3 DEF Keyset
<1>. QED
  BY <1>3, <1>4

\* A retain removes what it does not keep, shard by shard.
LEMMA OwnSifting ==
  ASSUME Base, Data, NEW t \in Threads, Due(t), Step(t), Sifting(t), Hidden(t)
  PROVE  Sifting(t)' /\ Hidden(t)'
<1>0. /\ CallsKept /\ CountsKept /\ DataTypes /\ Cache /\ Due(t)
      /\ CallFits(pc[t], call[t], frame[t]) /\ t \in DOMAIN pc /\ t \in DOMAIN frame
  BY DEF Base, CallsKept, Data
<1>b. DOMAIN frame[t] = Fields
  BY <1>0 DEF CallFits
<1>. SUFFICES ASSUME pc'[t] = "visit" PROVE Sifting(t)' /\ Hidden(t)'
  BY DEF Sifting, Hidden
<1>1. Arrives(t)
  BY <1>0, Arrivals
<1>2. Enqueue(t) \/ Exclusive(t) \/ Visit(t)
  <2>1. ~(FindSlot(t) \/ ReadActive(t))
    <3>1. ASSUME FindSlot(t) \/ ReadActive(t), NEW old, Done(t, old) PROVE FALSE
      <4>1. pc[t] \in InHand
        BY <3>1 DEF FindSlot, ReadActive, InHand
      <4>2. \/ pc' = [pc EXCEPT ![t] = IF ReadOnly(t) THEN "return" ELSE "maintain"]
            \/ pc' = [pc EXCEPT ![t] = "slots"]
        BY <1>0, <3>1, <4>1, DoneMoves
      <4>. QED
        BY <1>0, <4>2
    <3>. QED
      BY <1>0, <3>1 DEF FindSlot, ReadActive, Goto
  <2>2. ~(LockActive(t) \/ PinSlots(t) \/ NextGuard(t) \/ CollectShards(t))
    BY <1>0 DEF LockActive, PinSlots, NextGuard, CollectShards, Collect, Goes, Goto
  <2>3. ~(TxnSlot(t) \/ TxnInit(t))
    BY <1>0 DEF TxnSlot, TxnInit, Resolved, Goes, Goto
  <2>. QED
    BY <1>1, <2>1, <2>2, <2>3 DEF Arrives
<1>3. CASE Enqueue(t)
  BY <1>0, <1>3 DEF Enqueue, layout, counters, Sifting, Hidden, Stored, Contents, InActive,
                    previous_shard, shard_index, previous_index, Home
<1>4. CASE Exclusive(t)
  <2>1. call[t].op = "retain" /\ pc[t] = "exclusive"
    BY <1>0, <1>4 DEF Exclusive, Goto
  <2>2. frame[t].left = Keys
    BY <1>0, <2>1 DEF Due, Everything, LayoutOps
  <2>3. frame'[t].left = Keys /\ frame'[t].plan = Frozen
    BY <1>0, <1>b, <1>4, <2>1, <2>2 DEF Exclusive, Goes, Fields, Frozen
  <2>4. Quiet
    BY <1>4 DEF Exclusive, Quiet
  <2>5. Stored' = Stored /\ UNCHANGED <<shards, previous_shards>>
    BY <2>4, QuietSteady DEF Stored, Quiet, layout
  <2>6. Sifting(t)'
    BY <1>0, <2>3, <2>5, StoredSomewhere DEF Sifting, Home
  <2>. QED
    BY <2>3, <2>6 DEF Hidden
<1>5. CASE Visit(t)
  <2>. DEFINE l == NextShard(t)
              gone == Keyset(Home(l)) \ call[t].keep
  <2>1. PICK K : K = gone
    OBVIOUS
  <2>2. /\ pc[t] = "visit" /\ call' = call /\ snapshot_cache' = snapshot_cache
        /\ frame'[t].plan = frame[t].plan \ {l} /\ frame'[t].left = frame[t].left \ K
        /\ shards' = [i \in Idx |-> Without(shards[i], K)]
        /\ previous_shards' = [i \in Idx |-> Without(previous_shards[i], K)]
        /\ write_epoch' = write_epoch + Cardinality(K)
        /\ frame[t].plan # {}
    BY <1>0, <1>b, <1>5, <2>1 DEF Visit, Fields
  <2>3. K \subseteq Stored /\ Stored' = Stored \ K
    <3>1. PICK G \in SUBSET Stored :
            G = gone /\ Contents' = [k \in Keys |-> IF k \in G THEN Nil ELSE Contents[k]]
      BY <1>5, DataVisit
    <3>. QED
      BY <2>1, <3>1 DEF Stored
  <2>4. frame[t].plan \subseteq ShardLocks
    BY <1>0, <2>2 DEF CallFits
  <2>5. ASSUME NEW k \in Stored', NEW m \in ShardLocks, k \in Keyset(Home(m))
        PROVE  k \in Keyset(Home(m)')
    <3>1. m[2] \in Idx
      BY DEF ShardLocks
    <3>2. Home(m)' = Without(Home(m), K)
      BY <2>2, <3>1 DEF Home
    <3>3. k \in Keys /\ Home(m) # NoShard /\ Home(m)[k] # Nil /\ k \notin K
      BY <2>3, <2>5 DEF Keyset, Lookup
    <3>4. Without(Home(m), K)[k] # Nil
      BY <3>3 DEF Without
    <3>5. Home(m)' # NoShard
      <4>1. Home(m)' \in Shard
        BY <1>0, <3>1, <3>2, <3>3 DEF Without, Shard, OptVal, Home, DataTypes
      <4>. QED
        BY <4>1, StateAssumption
    <3>. QED
      BY <3>2, <3>3, <3>4, <3>5 DEF Keyset, Lookup
  <2>6. Sifting(t)'
    <3>. SUFFICES ASSUME NEW k \in Stored'
                  PROVE  /\ k \in frame'[t].left
                         /\ k \in call'[t].keep
                              \/ \E m \in frame'[t].plan : k \in Keyset(Home(m)')
      BY DEF Sifting, Keyset, Lookup
    <3>1. k \in Stored /\ k \notin K
      BY <2>3
    <3>2. k \in frame[t].left /\ (k \in call[t].keep \/ \E m \in frame[t].plan : k \in Keyset(Home(m)))
      BY <2>2, <3>1 DEF Sifting
    <3>3. CASE k \in call[t].keep
      BY <2>2, <3>1, <3>2, <3>3
    <3>4. CASE k \notin call[t].keep
      <4>1. PICK m \in frame[t].plan : k \in Keyset(Home(m))
        BY <3>2, <3>4
      <4>2. m # l
        BY <2>1, <3>1, <3>4, <4>1
      <4>3. k \in Keyset(Home(m)')
        BY <2>4, <2>5, <4>1
      <4>. QED
        BY <2>2, <3>1, <3>2, <4>1, <4>2, <4>3
    <3>. QED
      BY <3>3, <3>4
  <2>7. Hidden(t)'
    <3>. SUFFICES ASSUME frame'[t].left # Keys
                  PROVE  /\ \A c \in snapshot_cache : c.epoch # write_epoch'
                         /\ \A u \in Threads : pc'[u] = "fill" => frame'[u].cut # write_epoch'
      BY <2>2 DEF Hidden
    <3>1. Cardinality(K) \in Nat /\ (Cardinality(K) = 0 => K = {})
      <4>1. K \in SUBSET Keys
        BY <2>3 DEF Stored
      <4>. QED
        BY <4>1, KeysFinite, FS_EmptySet
    <3>2. \A u \in Threads : pc'[u] = "fill" => pc[u] = "fill" /\ frame'[u] = frame[u]
      BY <1>0, OneMoves, OthersKept
    <3>3. \A u \in Threads : pc[u] = "fill" => Current(frame[u].cut, frame[u].got.items)
      BY DEF Data, Fits, Filling
    <3>4. write_epoch \in Nat
      BY <1>0 DEF DataTypes
    <3>5. CASE K = {}
      <4>1. write_epoch' = write_epoch /\ frame[t].left # Keys
        BY <2>2, <3>4, <3>5, FS_EmptySet
      <4>. QED
        BY <2>2, <3>2, <4>1 DEF Hidden
    <3>6. CASE K # {}
      <4>1. write_epoch' > write_epoch
        BY <2>2, <3>1, <3>4, <3>6
      <4>2. \A e \in Nat : e <= write_epoch => e # write_epoch'
        BY <3>4, <4>1
      <4>3. \A c \in snapshot_cache : c.epoch # write_epoch'
        BY <1>0, <4>2 DEF Cache, Current
      <4>4. \A u \in Threads : pc[u] = "fill" => frame[u].cut # write_epoch'
        BY <3>3, <4>2 DEF Current
      <4>. QED
        BY <3>2, <4>3, <4>4
    <3>. QED
      BY <3>5, <3>6
  <2>. QED
    BY <2>6, <2>7
<1>. QED
  BY <1>2, <1>3, <1>4, <1>5

\* What every call owes stays in order.
LEMMA OwingNext ==
  ASSUME Base, Shapes, Data, Owing, NEW t \in Threads, Step(t)
  PROVE  Owing'
<1>1. Dues' /\ Guards'
  BY DuesNext, GuardsNext DEF Owing
<1>2. \A u \in Threads : Due(u) /\ Missed(u) /\ Sifting(u) /\ Hidden(u)
  BY DEF Owing, Dues, Views
<1>3. Missed(t)' /\ Sifting(t)' /\ Hidden(t)'
  BY <1>2, OwnMissed, OwnSifting
<1>4. \A u \in Threads : u # t => Missed(u)' /\ Sifting(u)' /\ Hidden(u)'
  BY <1>2, OthersMissed, OthersSifting DEF Owing
<1>. QED
  BY <1>1, <1>3, <1>4 DEF Owing, Views

\* Nobody owes anything in a map that nobody is in.
LEMMA OwingInit ==
  Init => Owing
<1>. SUFFICES ASSUME Init PROVE Owing
  OBVIOUS
<1>1. /\ pc = [t \in Threads |-> "idle"] /\ call = [t \in Threads |-> NoCall]
      /\ frame = [t \in Threads |-> EmptyFrame]
  BY DEF Init
<1>2. Dues
  BY <1>1 DEF Dues, Due, Everything, Nothing, Resharding, Maintaining
<1>3. Guards /\ Views
  BY <1>1 DEF Guards, Guarding, Views, Missed, Sifting, Hidden
<1>. QED
  BY <1>2, <1>3 DEF Owing

\* What is owed stays owed if nothing happens.
LEMMA OwingStutters ==
  ASSUME Owing, UNCHANGED vars
  PROVE  Owing'
<1>. USE DEF vars, layout, counters, engine, locks
<1>1. Dues'
  BY DEF Owing, Dues, Due, Everything, Nothing, ReadOnly
<1>2. Guards'
  BY DEF Owing, Guards, Guarding, ReadOnly, KeyInHand, shard_index
<1>3. \A t \in Threads : Missed(t)'
  BY DEF Owing, Views, Missed, ReadOnly, KeyInHand, InActive, shard_index
<1>4. \A t \in Threads : Sifting(t)'
  BY DEF Owing, Views, Sifting, Stored, Contents, InActive, previous_shard, shard_index,
         previous_index, Home
<1>5. \A t \in Threads : Hidden(t)'
  BY DEF Owing, Views, Hidden
<1>. QED
  BY <1>1, <1>2, <1>3, <1>4, <1>5 DEF Owing, Views

-----------------------------------------------------------------------------
(*****************************************************************************)
(* The steps in which a call takes effect.                                   *)
(*****************************************************************************)
\* The methods do what their calls promise.
LEMMA MethodKeeps ==
  ASSUME NEW c, NEW v
  PROVE  /\ c.op \in KeyOps \ {"get"} =>
              Method(c, v).after = After(c, v) /\ Method(c, v).answer = Answer(c, v)
         /\ c.op = "batch_insert" => Method(c, v).after = c.new
         /\ c.op = "batch_remove" => Method(c, v).after = Nil
<1>. USE DEF Method, After, Answer, Outcome
<1>1. CASE c.op = "insert"
  BY <1>1 DEF insert_inner
<1>2. CASE c.op = "remove"
  BY <1>2 DEF remove_inner
<1>3. CASE c.op = "compute"
  BY <1>3 DEF compute_if_present, KeyReply
<1>4. CASE c.op = "get_or_insert"
  BY <1>4 DEF get_or_insert_with
<1>5. CASE c.op = "cas"
  BY <1>5 DEF compare_and_swap, KeyReply
<1>6. CASE c.op = "compare_and_remove"
  BY <1>6 DEF compare_and_remove, KeyReply
<1>7. CASE c.op = "batch_insert"
  BY <1>7 DEF insert_inner, KeyOps
<1>8. CASE c.op = "batch_remove"
  BY <1>8 DEF remove_inner, KeyOps
<1>9. CASE c.op \notin KeyOps \ {"get"} /\ c.op \notin {"batch_insert", "batch_remove"}
  BY <1>9
<1>. QED
  BY <1>1, <1>2, <1>3, <1>4, <1>5, <1>6, <1>7, <1>8, <1>9 DEF KeyOps

\* An access that saw what the map contains has dealt with the keys in hand.
LEMMA DoneDeals ==
  ASSUME Base, Data, NEW t \in Threads, NEW old, pc[t] \in InHand, call[t].op # "txn",
         Done(t, old), UNCHANGED <<config, call, drops>>,
         \A k \in frame[t].part : old[k] = Contents[k],
         Contents' = [k \in Keys |-> IF k \in frame[t].part THEN Leaves(call[t], Contents, k)
                                     ELSE Contents[k]]
  PROVE  Deals(t, frame[t].part)
<1>0. /\ CallsKept /\ Fits(t) /\ CallFits(pc[t], call[t], frame[t])
      /\ t \in DOMAIN pc /\ t \in DOMAIN frame
  BY DEF Base, CallsKept, Data
<1>. DEFINE part == frame[t].part
            got == frame[t].got
<1>1. /\ part # {} /\ part \subseteq frame[t].left /\ DOMAIN frame[t] = Fields
      /\ call[t].op \in KeyOps \cup BatchOps
  BY <1>0, HandHasKey DEF CallFits
<1>2. call[t].op \in KeyOps => frame[t].left = {call[t].key} /\ part = {call[t].key}
  BY <1>0, <1>1 DEF Fits, Handful
<1>3. frame'[t].left = frame[t].left \ part /\ frame'[t].got = Tally(t, part, old)
  <2>. DEFINE Dealt == frame'[t].left = frame[t].left \ part /\ frame'[t].got = Tally(t, part, old)
  <2>1. ASSUME frame[t].left = part,
               frame' = [frame EXCEPT ![t] =
                 [frame[t] EXCEPT !.left = {}, !.part = {}, !.got = Tally(t, part, old)]]
        PROVE  Dealt
    BY <1>0, <1>1, <2>1 DEF Fields
  <2>2. ASSUME NEW next,
               frame' = [frame EXCEPT ![t] =
                 [frame[t] EXCEPT !.left = @ \ part, !.part = next, !.got = Tally(t, part, old)]]
        PROVE  Dealt
    BY <1>0, <1>1, <2>2 DEF Fields
  <2>3. \/ /\ frame[t].left = part
           /\ frame' = [frame EXCEPT ![t] =
                 [frame[t] EXCEPT !.left = {}, !.part = {}, !.got = Tally(t, part, old)]]
        \/ \E next : frame' = [frame EXCEPT ![t] =
                 [frame[t] EXCEPT !.left = @ \ part, !.part = next, !.got = Tally(t, part, old)]]
    BY <1>0, DoneMoves
  <2>. HIDE DEF Dealt
  <2>4. Dealt
    BY <2>1, <2>2, <2>3
  <2>. QED
    BY <2>4 DEF Dealt
<1>4. {k \in part : old[k] # Nil} = {k \in part : Contents[k] # Nil}
        /\ {<<k, old[k]>> : k \in {k \in part : old[k] # Nil}}
             = {<<k, Contents[k]>> : k \in {k \in part : Contents[k] # Nil}}
  OBVIOUS
<1>5. CASE call[t].op \in BatchOps
  <2>1. Tally(t, part, old) = Answered(call[t], got, Contents, part)
    <3>1. call[t].op \notin KeyOps
      BY <1>5 DEF BatchOps, KeyOps
    <3>2. call[t].op = "batch_insert" =>
            Tally(t, part, old) = Answered(call[t], got, Contents, part)
      BY <1>4, <3>1 DEF Tally, Answered
    <3>3. call[t].op = "batch_remove" =>
            Tally(t, part, old) = Answered(call[t], got, Contents, part)
      BY <1>4, <3>1 DEF Tally, Answered
    <3>4. call[t].op = "batch_get" =>
            Tally(t, part, old) = Answered(call[t], got, Contents, part)
      BY <1>4, <3>1 DEF Tally, Answered
    <3>. QED
      BY <1>5, <3>2, <3>3, <3>4 DEF BatchOps
  <2>6. ~Whole(call[t])
    BY <1>5 DEF Whole
  <2>. QED
    BY <1>1, <1>3, <2>1, <2>6 DEF Deals
<1>6. CASE call[t].op \in KeyOps
  <2>1. old[call[t].key] = Contents[call[t].key]
    BY <1>2, <1>6
  <2>2. Tally(t, part, old) = Answer(call[t], Contents[call[t].key])
    <3>1. CASE call[t].op = "get"
      BY <2>1, <3>1 DEF Tally, Answer
    <3>2. CASE call[t].op # "get"
      <4>1. Tally(t, part, old) = Method(call[t], old[call[t].key]).answer
        BY <1>6, <3>2 DEF Tally, KeyOps
      <4>. QED
        BY <1>6, <2>1, <3>2, <4>1, MethodKeeps
    <3>. QED
      BY <3>1, <3>2
  <2>3. Answered(call[t], got, Contents, part) = Answer(call[t], Contents[call[t].key])
    BY <1>6 DEF Answered, KeyOps
  <2>. QED
    BY <1>1, <1>2, <1>3, <1>6, <2>2, <2>3 DEF Deals
<1>. QED
  BY <1>1, <1>5, <1>6

-----------------------------------------------------------------------------
(*****************************************************************************)
(* Every step is one of AsyncMapSpec, or its callers see nothing of it.      *)
(*****************************************************************************)
\* The call of t is where it was.
Unnoticed(t) ==
  /\ UNCHANGED <<config, call, drops>>
  /\ frame'[t].left = frame[t].left /\ frame'[t].got = frame[t].got

\* Queueing, promotion, migration, lazy slots and the choice of what to evict.
Silent(t) ==
  \/ Enqueue(t) \/ Route(t) \/ InitSlot(t) \/ LockActive(t) \/ PinRouting(t) \/ NextGuard(t)
  \/ FillCache(t) \/ TxnSlot(t) \/ TxnInit(t) \/ Exclusive(t)
  \/ MigrationStep(t)
  \/ Maintain(t) \/ Glance(t) \/ ExclusivePass(t) \/ SharePass(t) \/ PassSlots(t) \/ Scan(t)
  \/ PassLock(t)

\* Its steps between two awaits leave alone what it has still to do.
LEMMA SilentUnnoticed ==
  ASSUME CallsKept, NEW t \in Threads,
         Silent(t) \/ Repair(t) \/ EvictGlobally(t) \/ TrimShards(t)
  PROVE  Unnoticed(t)
<1>0. t \in DOMAIN frame /\ DOMAIN frame[t] = Fields /\ CallFits(pc[t], call[t], frame[t])
  BY DEF CallsKept, CallFits
<1>. USE DEF Unnoticed, bounds
<1>a. ASSUME NEW K, Pops(t, K), UNCHANGED <<config, call, drops>> PROVE Unnoticed(t)
  <2>1. PICK k \in K : frame' = [frame EXCEPT ![t] = [frame[t] EXCEPT !.part = K \ {k}, !.plan = {k}]]
    BY <1>a DEF Pops, Goes
  <2>. QED
    BY <1>0, <1>a, <2>1 DEF Fields
<1>b. ASSUME Resolved(t), UNCHANGED <<config, call, drops>> PROVE Unnoticed(t)
  <2>1. \/ \E part : frame' = [frame EXCEPT ![t] = [frame[t] EXCEPT !.part = part]]
        \/ frame' = [frame EXCEPT ![t] = [frame[t] EXCEPT !.plan = TxnPlan(t)]]
    BY <1>b DEF Resolved, Goes
  <2>. QED
    BY <1>0, <1>b, <2>1 DEF Fields
<1>1. Enqueue(t) => Unnoticed(t)
  BY DEF Enqueue
<1>2. Route(t) => Unnoticed(t)
  BY <1>0 DEF Route, Goes, Fields
<1>3. InitSlot(t) \/ LockActive(t) \/ PinRouting(t) \/ FillCache(t) => Unnoticed(t)
  BY DEF InitSlot, LockActive, PinRouting, FillCache
<1>4. NextGuard(t) => Unnoticed(t)
  BY <1>0 DEF NextGuard, Fields
<1>5. TxnSlot(t) => Unnoticed(t)
  BY <1>b DEF TxnSlot
<1>6. TxnInit(t) => Unnoticed(t)
  BY <1>b DEF TxnInit
<1>7. Exclusive(t) => Unnoticed(t)
  BY <1>0 DEF Exclusive, Goes, Fields
<1>8. RebalanceLock(t) \/ ExclusiveRouting(t) \/ start_rebalance_online(t) \/ rebalance_to(t)
        => Unnoticed(t)
  BY DEF RebalanceLock, ExclusiveRouting, start_rebalance_online, rebalance_to
<1>9. LoadBatch(t) => Unnoticed(t)
  BY <1>a DEF LoadBatch
<1>10. MoveEntry(t) => Unnoticed(t)
  BY <1>0 DEF MoveEntry, Goes, Fields
<1>11. SourceLeft(t) => Unnoticed(t)
  BY <1>a DEF SourceLeft
<1>12. SourceDrained(t) => Unnoticed(t)
  BY <1>0 DEF SourceDrained, Goes, Fields
<1>13. Maintain(t) \/ Glance(t) \/ ExclusivePass(t) \/ SharePass(t) => Unnoticed(t)
  BY DEF Maintain, Glance, ExclusivePass, SharePass
<1>14. PassSlots(t) \/ Scan(t) => Unnoticed(t)
  BY <1>0 DEF PassSlots, Scan, Goes, Selected, Fields
<1>15. PassLock(t) => Unnoticed(t)
  BY <1>0 DEF PassLock, Goes, Fields
<1>16. Repair(t) \/ EvictGlobally(t) \/ TrimShards(t) => Unnoticed(t)
  BY DEF Repair, EvictGlobally, TrimShards
<1>. QED
  BY <1>1, <1>2, <1>3, <1>4, <1>5, <1>6, <1>7, <1>8, <1>9, <1>10, <1>11, <1>12, <1>13,
     <1>14, <1>15, <1>16 DEF Silent, MigrationStep

\* They are invisible.
LEMMA SilentSimulated ==
  ASSUME Base, Shapes, Data, NEW t \in Threads, Step(t), Silent(t)
  PROVE  Simulated
<1>1. CallsKept /\ Only(t) /\ Unnoticed(t)
  BY OneMoves, SilentUnnoticed DEF Base
<1>2. Contents' = Contents
  <2>1. InitSlot(t) \/ TxnInit(t) => Contents' = Contents
    BY DataInitSlot
  <2>2. start_rebalance_online(t) => Contents' = Contents
    BY DataSwap
  <2>3. rebalance_to(t) => Contents' = Contents
    BY DataRebuild
  <2>4. LoadBatch(t) => Contents' = Contents
    BY DataLoadBatch
  <2>5. MoveEntry(t) => Contents' = Contents
    BY DataMoveEntry
  <2>6. SourceLeft(t) => Contents' = Contents
    BY DataSourceLeft
  <2>7. SourceDrained(t) => Contents' = Contents
    BY DataSourceDrained
  <2>8. Enqueue(t) \/ Route(t) \/ LockActive(t) \/ PinRouting(t) \/ NextGuard(t) \/ FillCache(t)
          \/ TxnSlot(t) \/ Exclusive(t) \/ RebalanceLock(t) \/ ExclusiveRouting(t) => Quiet
    BY DEF Enqueue, Route, LockActive, PinRouting, NextGuard, FillCache, TxnSlot, Exclusive,
           RebalanceLock, ExclusiveRouting, Quiet, engine
  <2>9. Maintain(t) \/ Glance(t) \/ ExclusivePass(t) \/ SharePass(t) \/ PassSlots(t) \/ Scan(t)
          \/ PassLock(t) => Quiet
    BY DEF Maintain, Glance, ExclusivePass, SharePass, PassSlots, Scan, PassLock, Quiet, engine
  <2>10. Quiet => Contents' = Contents
    BY QuietSteady
  <2>. QED
    BY <2>1, <2>2, <2>3, <2>4, <2>5, <2>6, <2>7, <2>8, <2>9, <2>10 DEF Silent, MigrationStep
<1>. QED
  BY <1>1, <1>2, Invisible DEF Unnoticed

\* Nobody retains while somebody else is in the shards.
LEMMA AloneUnswept ==
  ASSUME Base, NEW t \in Threads, pc[t] \in Sharing \cup Alone
  PROVE  Unswept(t)
<1>1. ASSUME NEW u \in Threads \ {t} PROVE pc[u] # "visit"
  <2>1. pc[u] \notin Alone
    BY AloneIsAlone DEF Base
  <2>. QED
    BY <2>1 DEF Alone
<1>. QED
  BY <1>1 DEF Unswept

\* An access takes effect under the guards of its keys.
LEMMA AccessSimulated ==
  ASSUME Base, Data, Owing, NEW t \in Threads, Step(t),
         FindSlot(t) \/ ReadActive(t) \/ ReadPrevious(t) \/ WriteKeys(t)
  PROVE  Simulated
<1>0. /\ CallsKept /\ CountsKept /\ DataTypes /\ Fits(t) /\ Only(t) /\ pc[t] \in InHand
      /\ CallFits(pc[t], call[t], frame[t]) /\ t \in DOMAIN pc /\ t \in DOMAIN frame
  BY OneMoves DEF Base, Data, CallsKept, FindSlot, ReadActive, ReadPrevious, WriteKeys, InHand
<1>1. Unswept(t)
  BY <1>0, AloneUnswept DEF InHand, Sharing
<1>2. call[t].op # "txn" /\ call[t].op \in KeyOps \cup BatchOps
  <2>1. call[t].op # "txn"
    BY <1>0 DEF CallFits, FindSlot, ReadActive, ReadPrevious, WriteKeys
  <2>. QED
    BY <1>0, <2>1, HandHasKey
<1>h. /\ KeyInHand(t) \in frame[t].part /\ frame[t].part \subseteq Keys
      /\ \A k \in frame[t].part : shard_index(k) = shard_index(KeyInHand(t))
  BY <1>0, HandHasKey DEF Fits, Handful
<1>3. UNCHANGED <<config, call, drops>>
  BY DEF FindSlot, ReadActive, ReadPrevious, WriteKeys, bounds
<1>a. ASSUME NEW old, Done(t, old), \A k \in frame[t].part : old[k] = Contents[k],
             Contents' = [k \in Keys |-> IF k \in frame[t].part THEN Leaves(call[t], Contents, k)
                                         ELSE Contents[k]]
      PROVE  Simulated
  <2>1. Deals(t, frame[t].part)
    BY <1>0, <1>2, <1>3, <1>a, DoneDeals
  <2>. QED
    BY <1>0, <1>1, <2>1, Effect
<1>b. ASSUME NEW old, Done(t, old), \A k \in frame[t].part : old[k] = Contents[k], Quiet,
             ReadOnly(t) \/ (call[t].op = "batch_remove" /\ \A k \in frame[t].part : old[k] = Nil)
      PROVE  Simulated
  <2>1. Contents' = Contents
    BY <1>b, QuietSteady
  <2>2. ASSUME NEW k \in frame[t].part PROVE Leaves(call[t], Contents, k) = Contents[k]
    <3>1. CASE call[t].op = "get"
      BY <3>1 DEF Leaves, After, KeyOps
    <3>2. CASE call[t].op = "batch_get"
      BY <3>2 DEF Leaves, KeyOps
    <3>3. CASE call[t].op = "batch_remove"
      BY <1>b, <2>2, <3>3 DEF Leaves, KeyOps, ReadOnly
    <3>. QED
      BY <1>2, <1>b, <3>1, <3>2, <3>3 DEF ReadOnly, KeyOps, BatchOps
  <2>3. Contents = [k \in Keys |-> Contents[k]]
    BY DEF Contents
  <2>4. Contents' = [k \in Keys |-> IF k \in frame[t].part THEN Leaves(call[t], Contents, k)
                                    ELSE Contents[k]]
    BY <2>1, <2>2, <2>3
  <2>. QED
    BY <1>a, <1>b, <2>4
<1>c. ASSUME UNCHANGED frame, Quiet PROVE Simulated
  <2>1. Contents' = Contents
    BY <1>c, QuietSteady
  <2>. QED
    BY <1>0, <1>3, <1>c, <2>1, Invisible
<1>4. CASE FindSlot(t)
  <2>0. Quiet
    BY <1>4 DEF FindSlot, Quiet, engine
  <2>1. CASE UNCHANGED frame
    BY <1>c, <2>0, <2>1
  <2>2. CASE /\ vacant(t) /\ Done(t, EmptyShard)
             /\ \/ ReadOnly(t) /\ ~FallsBack(t)
                \/ call[t].op = "batch_remove" /\ ~migrating
    <3>1. ~FallsBack(t)
      BY <2>2 DEF FallsBack, BatchOps
    <3>2. ASSUME NEW k \in frame[t].part PROVE EmptyShard[k] = Contents[k] /\ EmptyShard[k] = Nil
      <4>1. k \in Keys /\ Contents[k] = InActive(k)
        BY <1>0, <1>2, <3>1, ActiveContents
      <4>2. shards[shard_index(k)] = NoShard
        BY <1>h, <2>2 DEF vacant
      <4>. QED
        BY <4>1, <4>2 DEF InActive, Lookup, EmptyShard
    <3>. QED
      BY <1>b, <2>0, <2>2, <3>2
  <2>. QED
    BY <1>4, <2>1, <2>2 DEF FindSlot
<1>5. CASE ReadActive(t)
  <2>. DEFINE old == [k \in Keys |-> InActive(k)]
  <2>0. Quiet /\ ReadOnly(t)
    BY <1>5 DEF ReadActive, Quiet, engine
  <2>1. CASE UNCHANGED frame
    BY <1>c, <2>0, <2>1
  <2>2. CASE Done(t, old) /\ (~FallsBack(t) \/ old[KeyInHand(t)] # Nil)
    <3>1. ASSUME NEW k \in frame[t].part PROVE old[k] = Contents[k]
      <4>1. CASE ~FallsBack(t)
        BY <1>0, <1>2, <4>1, ActiveContents
      <4>2. CASE FallsBack(t)
        <5>1. k = KeyInHand(t)
          BY <1>0, <1>2, <1>h, <4>2, HandHasKey DEF FallsBack, Fits, Handful
        <5>2. k \in Keys /\ InActive(k) # Nil
          BY <1>h, <2>2, <4>2, <5>1
        <5>. QED
          BY <1>0, <5>2, ContentsAt
      <4>. QED
        BY <4>1, <4>2
    <3>. HIDE DEF old
    <3>. QED
      BY <1>b, <2>0, <2>2, <3>1
  <2>. QED
    BY <1>5, <2>1, <2>2 DEF ReadActive
<1>6. CASE ReadPrevious(t)
  <2>. DEFINE old == [k \in Keys |-> Lookup(previous_shard(k), k)]
  <2>0. Quiet /\ ReadOnly(t) /\ pc[t] = "previous"
    BY <1>6 DEF ReadPrevious, Quiet, engine
  <2>1. Done(t, old)
    BY <1>6 DEF ReadPrevious
  <2>2. ASSUME NEW k \in frame[t].part PROVE old[k] = Contents[k]
    <3>1. k \in Keys /\ InActive(k) = Nil
      BY <1>h, <2>0 DEF Owing, Views, Missed
    <3>. QED
      BY <1>0, <3>1, ContentsAt
  <2>. HIDE DEF old
  <2>. QED
    BY <1>b, <2>0, <2>1, <2>2
<1>7. CASE WriteKeys(t)
  <2>1. Done(t, Seen(t)) /\ ~ReadOnly(t) /\ pc[t] \in {"active", "previous"}
    BY <1>7 DEF WriteKeys
  <2>2. Seen(t) = Contents
    BY <2>1, SeenContents
  <2>3. Contents' = [k \in Keys |-> IF k \in frame[t].part
                                    THEN Method(call[t], Contents[k]).after
                                    ELSE Contents[k]]
    BY <1>7, DataWriteKeys
  <2>4. ASSUME NEW k \in frame[t].part
        PROVE  Method(call[t], Contents[k]).after = Leaves(call[t], Contents, k)
    <3>1. call[t].op \in (KeyOps \ {"get"}) \cup {"batch_insert", "batch_remove"}
      BY <1>2, <2>1 DEF ReadOnly, BatchOps
    <3>2. CASE call[t].op \in KeyOps \ {"get"}
      BY <3>2, MethodKeeps DEF Leaves, KeyOps
    <3>3. CASE call[t].op \in {"batch_insert", "batch_remove"}
      BY <3>3, MethodKeeps DEF Leaves, KeyOps
    <3>. QED
      BY <3>1, <3>2, <3>3
  <2>5. Contents' = [k \in Keys |-> IF k \in frame[t].part THEN Leaves(call[t], Contents, k)
                                    ELSE Contents[k]]
    BY <2>3, <2>4
  <2>. QED
    BY <1>a, <2>1, <2>2, <2>5
<1>. QED
  BY <1>4, <1>5, <1>6, <1>7

\* A snapshot is one of the contents at the instant its last guard is there, or the cached one.
LEMMA SnapshotSimulated ==
  ASSUME Base, Data, Owing, NEW t \in Threads, Step(t),
         CachedSnapshot(t) \/ BuilderGate(t) \/ PinSlots(t) \/ CollectShards(t)
  PROVE  Simulated
<1>0. /\ CallsKept /\ CountsKept /\ Only(t) /\ Cache /\ Due(t)
      /\ CallFits(pc[t], call[t], frame[t]) /\ t \in DOMAIN pc /\ t \in DOMAIN frame
      /\ DOMAIN frame[t] = Fields
  BY OneMoves DEF Base, Data, Owing, Dues, CallsKept, CallFits
<1>1. Quiet /\ Contents' = Contents /\ UNCHANGED <<config, call, drops>>
  <2>1. Quiet /\ UNCHANGED <<config, call, drops>>
    BY DEF CachedSnapshot, BuilderGate, PinSlots, CollectShards, Quiet, engine, bounds
  <2>. QED
    BY <2>1, QuietSteady
<1>2. call[t].op \in {"snapshot", "view"} /\ frame[t].left = Keys
  BY <1>0 DEF CachedSnapshot, BuilderGate, PinSlots, CollectShards, CallFits, Due, Everything,
              ReadOnly
<1>3. frame'[t].left = frame[t].left /\ frame'[t].got = frame[t].got => Simulated
  BY <1>0, <1>1, Invisible
<1>4. ASSUME frame'[t].left = {}, frame'[t].got = ItemsReply(Pairs(Contents)), Unswept(t)
      PROVE  Simulated
  <2>1. Answered(call[t], frame[t].got, Contents, Keys) = ItemsReply(Pairs(Contents))
    BY <1>2 DEF Answered, KeyOps
  <2>2. \A k \in Keys : Leaves(call[t], Contents, k) = Contents[k]
    BY <1>2 DEF Leaves, KeyOps
  <2>3. Contents = [k \in Keys |-> Contents[k]]
    BY DEF Contents
  <2>4. Contents' = [k \in Keys |-> IF k \in Keys THEN Leaves(call[t], Contents, k)
                                    ELSE Contents[k]]
    BY <1>1, <2>2, <2>3
  <2>5. Deals(t, Keys)
    BY <1>1, <1>2, <1>4, <2>1, <2>4, StateAssumption DEF Deals
  <2>. QED
    BY <1>0, <1>4, <2>5, Effect
<1>5. ASSUME NEW c \in Hits, frame' = [frame EXCEPT ![t] = Answers(t, ItemsReply(c.items))]
      PROVE  Simulated
  <2>1. c.items = Pairs(Contents)
    BY <1>0, <1>5 DEF Hits, Cache, Current
  <2>2. frame'[t].left = {} /\ frame'[t].got = ItemsReply(Pairs(Contents))
    BY <1>0, <1>5, <2>1 DEF Answers, Fields
  <2>3. Unswept(t)
    BY <1>5 DEF Hits, Unswept, Owing, Views, Hidden
  <2>. QED
    BY <1>4, <2>2, <2>3
<1>6. ASSUME Collect(t), pc[t] \in Sharing,
             \/ pc[t] = "pin_slots" /\ Frozen = {}
             \/ pc[t] = "guards" /\ ReadOnly(t) /\ LastGuard(t)
      PROVE  Simulated
  <2>1. Copied(t) = Pairs(Contents)
    BY <1>6, CopiedContents
  <2>2. frame' = [frame EXCEPT ![t] =
          [Answers(t, ItemsReply(Copied(t))) EXCEPT !.plan = {}, !.cut = write_epoch]]
    BY <1>6 DEF Collect, Goes
  <2>3. frame'[t].left = {} /\ frame'[t].got = ItemsReply(Pairs(Contents))
    BY <1>0, <2>1, <2>2 DEF Answers, Fields
  <2>. QED
    BY <1>4, <1>6, <2>3, AloneUnswept
<1>7. CASE CachedSnapshot(t)
  BY <1>3, <1>5, <1>7 DEF CachedSnapshot, Goes
<1>8. CASE BuilderGate(t)
  BY <1>3, <1>5, <1>8 DEF BuilderGate, Goes
<1>9. CASE PinSlots(t)
  <2>1. CASE Frozen = {}
    BY <1>6, <1>9, <2>1 DEF PinSlots, Sharing
  <2>2. CASE Frozen # {}
    <3>1. frame' = [frame EXCEPT ![t] = [frame[t] EXCEPT !.plan = Frozen]]
      BY <1>9, <2>2 DEF PinSlots, Goes
    <3>. QED
      BY <1>0, <1>3, <3>1 DEF Fields
  <2>. QED
    BY <2>1, <2>2
<1>10. CASE CollectShards(t)
  BY <1>6, <1>10 DEF CollectShards, Sharing
<1>. QED
  BY <1>7, <1>8, <1>9, <1>10

\* A transaction, a clear or a drain takes effect at once, a retain shard by shard.
LEMMA BulkSimulated ==
  ASSUME Base, Data, Owing, NEW t \in Threads, Step(t),
         Commit(t) \/ Sweep(t) \/ Visit(t) \/ Visited(t)
  PROVE  Simulated
<1>0. /\ CallsKept /\ CountsKept /\ Only(t) /\ Due(t) /\ Sifting(t) /\ DataTypes
      /\ CallFits(pc[t], call[t], frame[t]) /\ t \in DOMAIN pc /\ t \in DOMAIN frame
      /\ DOMAIN frame[t] = Fields /\ frame[t].left \subseteq Keys
  BY OneMoves DEF Base, Data, Owing, Dues, Views, CallsKept, CallFits
<1>1. Unswept(t) /\ UNCHANGED <<config, call, drops>>
  <2>1. UNCHANGED <<config, call, drops>>
    BY DEF Commit, Sweep, Visit, Visited, bounds
  <2>2. pc[t] \in Sharing \cup Alone
    BY DEF Commit, Sweep, Visit, Visited, Sharing, Alone
  <2>. QED
    BY <2>1, <2>2, AloneUnswept
<1>2. Contents = [k \in Keys |-> Contents[k]]
  BY DEF Contents
<1>3. CASE Commit(t)
  <2>1. call[t].op = "txn" /\ frame[t].left # {}
    BY <1>0, <1>3 DEF Commit, CallFits, ReadOnly, Due
  <2>2. frame' = [frame EXCEPT ![t] = [Answers(t, DoneReply) EXCEPT !.part = {}, !.plan = {}]]
    BY <1>3 DEF Commit, Goes
  <2>3. frame'[t].left = {} /\ frame'[t].got = DoneReply
    BY <1>0, <2>2 DEF Answers, Fields
  <2>4. Contents' = [k \in Keys |->
              IF k \in frame[t].left
              THEN AfterSteps(call[t].steps, Len(call[t].steps), Contents)[k] ELSE Contents[k]]
    BY <1>3, DataCommit
  <2>5. \A k : Leaves(call[t], Contents, k)
                 = AfterSteps(call[t].steps, Len(call[t].steps), Contents)[k]
    BY <2>1 DEF Leaves, KeyOps
  <2>6. Answered(call[t], frame[t].got, Contents, frame[t].left) = DoneReply
    BY <2>1 DEF Answered, KeyOps
  <2>7. Deals(t, frame[t].left)
    BY <1>1, <2>1, <2>3, <2>4, <2>5, <2>6 DEF Deals
  <2>. QED
    BY <1>0, <1>1, <2>7, Effect
<1>4. CASE Sweep(t)
  <2>1. call[t].op \in {"clear", "drain"} /\ frame[t].left = Keys
    BY <1>0, <1>4 DEF Sweep, CallFits, Due, Everything
  <2>2. frame' = [frame EXCEPT ![t] =
          Answers(t, IF call[t].op = "drain" THEN ItemsReply(Pairs(Contents)) ELSE DoneReply)]
    BY <1>4 DEF Sweep, Goes
  <2>3. /\ frame'[t].left = {}
        /\ frame'[t].got = IF call[t].op = "drain" THEN ItemsReply(Pairs(Contents))
                           ELSE DoneReply
    BY <1>0, <2>2 DEF Answers, Fields
  <2>4. Contents' = [k \in Keys |-> Nil]
    BY <1>4, DataSweep
  <2>5. \A k : Leaves(call[t], Contents, k) = Nil
    BY <2>1 DEF Leaves, KeyOps
  <2>6. Answered(call[t], frame[t].got, Contents, Keys)
          = IF call[t].op = "drain" THEN ItemsReply(Pairs(Contents)) ELSE DoneReply
    BY <2>1 DEF Answered, KeyOps
  <2>7. Deals(t, Keys)
    BY <1>1, <2>1, <2>3, <2>4, <2>5, <2>6, StateAssumption DEF Deals
  <2>. QED
    BY <1>0, <1>1, <2>7, Effect
<1>r. ASSUME pc[t] = "visit", NEW part \in SUBSET frame[t].left, part # {},
             frame'[t].left = frame[t].left \ part, frame'[t].got = DoneReply,
             Contents' = [k \in Keys |-> IF k \in part /\ k \notin call[t].keep THEN Nil
                                         ELSE Contents[k]]
      PROVE  Simulated
  <2>1. call[t].op = "retain"
    BY <1>0, <1>r DEF CallFits
  <2>2. Answered(call[t], frame[t].got, Contents, part) = DoneReply /\ ~Whole(call[t])
    BY <2>1 DEF Answered, Whole, KeyOps
  <2>3. \A k : Leaves(call[t], Contents, k) = IF k \in call[t].keep THEN Contents[k] ELSE Nil
    BY <2>1 DEF Leaves, KeyOps
  <2>4. Contents' = [k \in Keys |-> IF k \in part THEN Leaves(call[t], Contents, k)
                                    ELSE Contents[k]]
    BY <1>r, <2>3
  <2>5. Deals(t, part)
    BY <1>1, <1>r, <2>2, <2>4 DEF Deals
  <2>. QED
    BY <1>0, <1>1, <2>5, Effect
<1>5. CASE Visit(t)
  <2>1. PICK gone \in SUBSET Stored :
          /\ gone = Keyset(Home(NextShard(t))) \ call[t].keep
          /\ Contents' = [k \in Keys |-> IF k \in gone THEN Nil ELSE Contents[k]]
    BY <1>5, DataVisit
  <2>2. frame' = [frame EXCEPT ![t].plan = @ \ {NextShard(t)}, ![t].left = @ \ gone]
    BY <1>5, <2>1 DEF Visit
  <2>3. frame'[t].left = frame[t].left \ gone /\ frame'[t].got = frame[t].got
    BY <1>0, <2>2 DEF Fields
  <2>4. pc[t] = "visit" /\ call[t].op = "retain" /\ frame[t].got = DoneReply
    BY <1>0, <1>5 DEF Visit, CallFits, Due
  <2>5. gone \subseteq frame[t].left
    BY <1>0, <2>1, <2>4 DEF Sifting
  <2>6. CASE gone = {}
    <3>1. Contents' = Contents /\ frame'[t].left = frame[t].left
      BY <1>2, <2>1, <2>3, <2>6
    <3>. QED
      BY <1>0, <1>1, <2>3, <3>1, Invisible
  <2>7. CASE gone # {}
    <3>1. Contents' = [k \in Keys |-> IF k \in gone /\ k \notin call[t].keep THEN Nil
                                      ELSE Contents[k]]
      BY <2>1
    <3>. QED
      BY <1>r, <2>3, <2>4, <2>5, <2>7, <3>1
  <2>. QED
    BY <2>6, <2>7
<1>6. CASE Visited(t)
  <2>1. frame' = [frame EXCEPT ![t] = Answers(t, DoneReply)] /\ pc[t] = "visit"
    BY <1>6 DEF Visited, Goes
  <2>2. frame'[t].left = {} /\ frame'[t].got = DoneReply
    BY <1>0, <2>1 DEF Answers, Fields
  <2>3. Quiet
    BY <1>6 DEF Visited, Quiet, engine
  <2>4. Contents' = Contents
    BY <2>3, QuietSteady
  <2>5. call[t].op = "retain" /\ frame[t].got = DoneReply
    BY <1>0, <2>1 DEF CallFits, Due
  <2>6. CASE frame[t].left = {}
    BY <1>0, <1>1, <2>2, <2>4, <2>5, <2>6, Invisible
  <2>7. CASE frame[t].left # {}
    <3>1. \A k \in Stored : k \in call[t].keep
      BY <1>0, <1>6, <2>1 DEF Sifting, Visited
    <3>2. \A k \in Keys : k \notin call[t].keep => Contents[k] = Nil
      BY <3>1 DEF Stored
    <3>3. Contents' = [k \in Keys |-> IF k \in frame[t].left /\ k \notin call[t].keep THEN Nil
                                      ELSE Contents[k]]
      BY <1>2, <2>4, <3>2
    <3>. QED
      BY <1>r, <2>1, <2>2, <2>7, <3>3
  <2>. QED
    BY <2>6, <2>7
<1>. QED
  BY <1>3, <1>4, <1>5, <1>6

\* Maintenance evicts, and only a bounded map is maintained.
LEMMA EvictionSimulated ==
  ASSUME Base, Shapes, Data, NEW t \in Threads, Step(t),
         Repair(t) \/ EvictGlobally(t) \/ TrimShards(t)
  PROVE  Simulated
<1>0. CallsKept /\ Only(t) /\ Unnoticed(t)
  BY OneMoves, SilentUnnoticed DEF Base
<1>1. enabled
  BY DEF Repair, EvictGlobally, TrimShards, Shapes, ShapeOf, Maintaining
<1>2. PICK gone \in SUBSET Stored :
        Contents' = [k \in Keys |-> IF k \in gone THEN Nil ELSE Contents[k]]
  BY DataMaintained
<1>3. gone \in SUBSET Keys
  BY DEF Stored
<1>4. /\ UNCHANGED [u \in Threads |-> frame[u].left]
      /\ UNCHANGED [u \in Threads |-> frame[u].got]
  BY <1>0, OthersStand DEF Unnoticed
<1>5. UNCHANGED <<enabled, call, drops>>
  BY <1>0 DEF Unnoticed, enabled
<1>6. Spec_map!Evict(gone)
  BY <1>2, <1>4, <1>5 DEF Spec_map!Evict
<1>. QED
  BY <1>1, <1>3, <1>6 DEF Simulated, Spec_map!Next

\* A call begins and ends, or is dropped.
LEMMA CallSimulated ==
  ASSUME Base, Data, Owing, NEW t \in Threads, Step(t),
         (\E c \in Mixes[config.mix] : Invoke(t, c)) \/ Return(t) \/ Drop(t)
  PROVE  Simulated
<1>. DEFINE lefts == [u \in Threads |-> frame[u].left]
            gots == [u \in Threads |-> frame[u].got]
<1>0. /\ CallsKept /\ CountsKept /\ Only(t) /\ Due(t)
      /\ t \in DOMAIN pc /\ t \in DOMAIN frame /\ t \in DOMAIN call
  BY OneMoves DEF Base, Owing, Dues, CallsKept
<1>1. Quiet /\ Contents' = Contents /\ config' = config
  <2>1. Quiet /\ config' = config
    BY DEF Invoke, Return, Drop, Quiet, engine
  <2>. QED
    BY <2>1, QuietSteady
<1>2. lefts' = [lefts EXCEPT ![t] = frame'[t].left] /\ gots' = [gots EXCEPT ![t] = frame'[t].got]
  BY <1>0, OthersStand
<1>3. enabled' = enabled
  BY <1>1 DEF enabled
<1>4. ASSUME NEW c \in Mixes[config.mix], Invoke(t, c) PROVE Simulated
  <2>1. c \in CallsMade
    BY <1>0, ScenariosAssumption DEF CountsKept
  <2>2. call[t] = NoCall /\ call' = [call EXCEPT ![t] = c] /\ drops' = drops
          /\ frame' = [frame EXCEPT ![t] =
               [EmptyFrame EXCEPT !.left = Concerned(c), !.got = NoAnswer(c)]]
    BY <1>0, <1>4 DEF Due, Invoke, Goes
  <2>3. frame'[t].left = Concerned(c) /\ frame'[t].got = NoAnswer(c)
    BY <1>0, <2>2 DEF EmptyFrame
  <2>. HIDE DEF lefts, gots
  <2>4. /\ call[t] = Spec_map!NoCall /\ call' = [call EXCEPT ![t] = c]
        /\ lefts' = [lefts EXCEPT ![t] = Spec_map!Concerned(c)]
        /\ gots' = [gots EXCEPT ![t] = Spec_map!NoAnswer(c)]
        /\ UNCHANGED <<Contents, enabled, drops>>
    BY <1>1, <1>2, <1>3, <2>2, <2>3, SpecContracts
  <2>5. Spec_map!Invoke(t, c)
    BY <2>4 DEF Spec_map!Invoke, lefts, gots
  <2>6. c \in Spec_map!CallsMade
    BY <2>1, SpecContracts
  <2>. QED
    BY <2>5, <2>6 DEF Simulated, Spec_map!Next
<1>5. ASSUME Return(t) \/ Drop(t) PROVE Simulated
  <2>1. call[t] # NoCall
    <3>1. Drop(t) => pc[t] # "idle"
      BY DEF Drop, Wanted, Suspended
    <3>2. Return(t) => pc[t] # "idle"
      BY DEF Return
    <3>. QED
      BY <1>0, <1>5, <3>1, <3>2 DEF Due
  <2>2. call' = [call EXCEPT ![t] = NoCall] /\ frame' = [frame EXCEPT ![t] = EmptyFrame]
    BY <1>5 DEF Return, Drop, Goes
  <2>3. frame'[t].left = {} /\ frame'[t].got = NoReply
    BY <1>0, <2>2 DEF EmptyFrame
  <2>. HIDE DEF lefts, gots
  <2>4. /\ call[t] # Spec_map!NoCall /\ call' = [call EXCEPT ![t] = Spec_map!NoCall]
        /\ lefts' = [lefts EXCEPT ![t] = {}]
        /\ gots' = [gots EXCEPT ![t] = Spec_map!NoReply]
        /\ UNCHANGED <<Contents, enabled>>
    BY <1>1, <1>2, <1>3, <2>1, <2>2, <2>3, SpecContracts
  <2>5. Spec_map!End(t)
    BY <2>4 DEF Spec_map!End, lefts, gots
  <2>6. CASE Return(t)
    <3>1. frame[t].left = {} /\ drops' = drops
      BY <1>0, <2>6 DEF Return, Due, Nothing, bounds
    <3>2. [u \in Threads |-> frame[u].left][t] = {}
      BY <3>1
    <3>3. Spec_map!Return(t)
      BY <2>5, <3>1, <3>2 DEF Spec_map!Return
    <3>. QED
      BY <3>3 DEF Simulated, Spec_map!Next
  <2>7. CASE Drop(t)
    <3>1. Spec_map!Drop(t)
      BY <2>5, <2>7 DEF Drop, Spec_map!Drop
    <3>. QED
      BY <3>1 DEF Simulated, Spec_map!Next
  <2>. QED
    BY <1>5, <2>6, <2>7
<1>. QED
  BY <1>4, <1>5

\* Every step is one of AsyncMapSpec, or its callers see nothing of it.
LEMMA StepSimulated ==
  ASSUME Base, Shapes, Data, Owing, NEW t \in Threads, Step(t)
  PROVE  Simulated
<1>1. CASE Silent(t)
  BY <1>1, SilentSimulated
<1>2. CASE FindSlot(t) \/ ReadActive(t) \/ ReadPrevious(t) \/ WriteKeys(t)
  BY <1>2, AccessSimulated
<1>3. CASE CachedSnapshot(t) \/ BuilderGate(t) \/ PinSlots(t) \/ CollectShards(t)
  BY <1>3, SnapshotSimulated
<1>4. CASE Commit(t) \/ Sweep(t) \/ Visit(t) \/ Visited(t)
  BY <1>4, BulkSimulated
<1>5. CASE Repair(t) \/ EvictGlobally(t) \/ TrimShards(t)
  BY <1>5, EvictionSimulated
<1>6. CASE (\E c \in Mixes[config.mix] : Invoke(t, c)) \/ Return(t) \/ Drop(t)
  BY <1>6, CallSimulated
<1>. QED
  BY <1>1, <1>2, <1>3, <1>4, <1>5, <1>6
  DEF Step, KeyStep, BulkStep, EvictionStep, Silent

\* A map that nobody is in is one of AsyncMapSpec.
LEMMA InitSimulated == Init => Spec_map!Init
<1>. SUFFICES ASSUME Init PROVE Spec_map!Init
  OBVIOUS
<1>1. CountsKept /\ DataTypes
  BY CallsInit, DataInit DEF Data
<1>2. Contents \in [Keys -> OptVal]
  <2>1. \A k \in Keys : Contents[k] \in OptVal
    BY <1>1, ContentsAt
  <2>2. Contents = [k \in Keys |-> Contents[k]]
    BY DEF Contents
  <2>. QED
    BY <2>1, <2>2
<1>3. enabled \in BOOLEAN
  BY DEF enabled
<1>4. /\ frame = [t \in Threads |-> EmptyFrame] /\ call = [t \in Threads |-> NoCall] /\ drops = 0
  BY DEF Init
<1>5. /\ [t \in Threads |-> frame[t].left] = [t \in Threads |-> {}]
      /\ [t \in Threads |-> frame[t].got] = [t \in Threads |-> NoReply]
  BY <1>4 DEF EmptyFrame
<1>. HIDE DEF Contents, enabled
<1>. QED
  BY <1>2, <1>3, <1>4, <1>5, SpecContracts DEF Spec_map!Init

\* The asynchronous map implements AsyncMapSpec: every call, whatever is promoted, migrated or
\* initialized on the way and whichever futures are dropped, takes effect at one instant, or a
\* few keys of a batch or a retain at a time (the guards of the methods of
\* AsyncShardedHashMap under routing_lock).
THEOREM AsyncMapLinearizable == Spec => Linearizable
<1>. DEFINE IInv == Base /\ Shapes /\ Data /\ Owing
<1>1. Init => IInv
  BY CallsInit, DataInit, OwingInit DEF Base
<1>2. IInv /\ [Next]_vars => IInv'
  <2>. SUFFICES ASSUME IInv, [Next]_vars PROVE IInv'
    OBVIOUS
  <2>1. CASE UNCHANGED vars
    BY <2>1, BaseStutters, DataStutters, OwingStutters
  <2>2. CASE Next
    <3>1. PICK t \in Threads : Step(t)
      BY <2>2 DEF Next, Step
    <3>. QED
      BY <3>1, BaseNext, ShapesNext, DataNext, OwingNext
  <2>. QED
    BY <2>1, <2>2
<1>3. IInv /\ [Next]_vars => [Spec_map!Next]_(Spec_map!specVars)
  <2>. SUFFICES ASSUME IInv, [Next]_vars PROVE [Spec_map!Next]_(Spec_map!specVars)
    OBVIOUS
  <2>1. CASE UNCHANGED vars
    <3>1. UNCHANGED Sees
      BY <2>1 DEF vars, layout, bounds, Sees, Contents, InActive, previous_shard, shard_index,
                  previous_index, enabled
    <3>. QED
      BY <3>1 DEF Spec_map!specVars, Sees
  <2>2. CASE Next
    <3>1. PICK t \in Threads : Step(t)
      BY <2>2 DEF Next, Step
    <3>2. Simulated
      BY <3>1, StepSimulated
    <3>. QED
      BY <3>2 DEF Simulated, Spec_map!specVars, Sees
  <2>. QED
    BY <2>1, <2>2
<1>. HIDE DEF IInv
<1>. QED
  BY <1>1, <1>2, <1>3, InitSimulated, PTL DEF Spec, Linearizable, Spec_map!Spec
=============================================================================
