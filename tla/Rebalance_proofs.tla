-------------------------- MODULE Rebalance_proofs --------------------------
(*****************************************************************************)
(* Proofs about supervised resharding, for any number of workers and         *)
(* callers, any shard counts, batch sizes and bounds.                        *)
(*****************************************************************************)
EXTENDS Rebalance, TLAPS

\* The types of the variables, as far as the other invariants need them.
Shape ==
  /\ generation \in Nat /\ completed_shards \in Nat
  /\ migrating \in BOOLEAN /\ paused \in BOOLEAN /\ complete \in BOOLEAN
  /\ shard_count \in Counts /\ sources \in Seq(Nat)
  /\ pc \in [Actors -> PCs]
  /\ goal \in [Callers -> Counts \cup {0}]
  /\ \A c \in Callers : pc[c] = "coop" => goal[c] # 0
  /\ gen \in [Workers -> Int]
  /\ completed \in [Workers -> BOOLEAN] /\ cancelled \in [Workers -> BOOLEAN]
  /\ outcome \in [Workers -> {"none", "completed", "stopped", "panicked", "aborted"}]
  /\ finished \in SUBSET Nat

Core == Shape /\ Generations /\ Reasons /\ BatchAdmitted /\ OutcomeTruthful

(*****************************************************************************)
(* A map as build_with_count leaves it, with no migration and no worker,     *)
(* satisfies the inductive invariant.                                        *)
(*****************************************************************************)
LEMMA CoreInit == Init => Core
<1>. SUFFICES ASSUME Init PROVE Core
  OBVIOUS
<1>. USE RebalanceAssumption DEF Init, Actors
<1>1. Shape
  <2>1. pc \in [Actors -> PCs]
    BY DEF PCs
  <2>2. /\ gen \in [Workers -> Int] /\ goal \in [Callers -> Counts \cup {0}]
        /\ sources \in Seq(Nat) /\ finished \in SUBSET Nat
    BY DEF NoGeneration
  <2>3. \A c \in Callers : pc[c] # "coop"
    OBVIOUS
  <2>4. /\ completed \in [Workers -> BOOLEAN] /\ cancelled \in [Workers -> BOOLEAN]
        /\ outcome \in [Workers -> {"none", "completed", "stopped", "panicked", "aborted"}]
    OBVIOUS
  <2>. QED
    BY <2>1, <2>2, <2>3, <2>4 DEF Shape
<1>2. Generations
  BY DEF Generations
<1>3. Reasons
  BY DEF Reasons, Live, NoGeneration, Current
<1>4. BatchAdmitted
  BY DEF BatchAdmitted
<1>5. OutcomeTruthful
  BY DEF OutcomeTruthful
<1>. QED
  BY <1>1, <1>2, <1>3, <1>4, <1>5 DEF Core

\* begin_with_counts: a new generation starts with every slot to drain.
LEMMA BeginFacts ==
  ASSUME Shape, NEW target \in Counts, begin_with_counts(target)
  PROVE  /\ sources' \in Seq(Nat) /\ Len(sources') > 0
         /\ \A i \in DOMAIN sources' : i > 0
         /\ generation' = generation + 1
         /\ migrating' = TRUE /\ paused' = FALSE /\ complete' = FALSE
         /\ completed_shards' = 0
         /\ shard_count' = target
         /\ finished' = finished
<1>1. shard_count \in Nat /\ shard_count > 0
  BY RebalanceAssumption DEF Shape
<1>2. sources' \in [1..shard_count -> 0..MaxEntries]
  BY DEF begin_with_counts
<1>3. sources' \in Seq(Nat) /\ Len(sources') = shard_count /\ DOMAIN sources' = 1..shard_count
  BY <1>1, <1>2, RebalanceAssumption
<1>. QED
  BY <1>1, <1>3 DEF begin_with_counts

\* What a batch's report makes of the worker or caller that ran it.
LEMMA AfterBatchFacts ==
  ASSUME Shape, NEW a \in Actors, NEW done \in BOOLEAN, NEW overrun,
         AfterBatch(a, done, overrun)
  PROVE  /\ UNCHANGED <<goal, gen, outcome>>
         /\ completed' \in [Workers -> BOOLEAN]
         /\ \A w \in Workers : w # a => completed'[w] = completed[w]
         /\ a \in Workers => (completed'[a] <=> (completed[a] \/ done))
         /\ \E l \in {"report", "wait", "idle", "coop"} :
              /\ pc' = [pc EXCEPT ![a] = l]
              /\ l = "report" => a \in Workers /\ done
              /\ l = "idle" => a \notin Workers
              /\ l = "coop" => a \notin Workers /\ goal[a] # 0
<1>. USE DEF Shape, AfterBatch
<1>1. CASE a \in Workers
  <2>1. completed' = [completed EXCEPT ![a] = completed[a] \/ done]
    BY <1>1
  <2>2. completed \in [Workers -> BOOLEAN] /\ (completed[a] \/ done) \in BOOLEAN
    OBVIOUS
  <2>3. /\ completed' \in [Workers -> BOOLEAN]
        /\ completed'[a] = (completed[a] \/ done)
        /\ \A w \in Workers : w # a => completed'[w] = completed[w]
    <3>. HIDE DEF Shape, AfterBatch
    <3>. QED
      BY <1>1, <2>1, <2>2, Zenon
  <2>. QED
    BY <1>1, <2>3 DEF Goto
<1>2. CASE a \notin Workers
  BY <1>2 DEF Goto
<1>. QED
  BY <1>1, <1>2

\* Core survives a batch that ends without ending the migration.
LEMMA QuietEnd ==
  ASSUME Core, NEW a \in Actors, NEW done \in BOOLEAN, NEW overrun,
         AfterBatch(a, done, overrun),
         done /\ a \in Workers => gen[a] \in finished,
         (pc[a] = "acquire" /\ routing' = routing) \/ (pc[a] = "batch" /\ routing' = NoActor),
         UNCHANGED <<generation, migrating, paused, complete, shard_count, cancelled, finished>>,
         completed_shards' \in Nat, sources' \in Seq(Nat),
         migrating => completed_shards' < Len(sources'),
         \A i \in DOMAIN sources' : i <= completed_shards' => sources'[i] = 0
  PROVE  Core'
<1>. USE RebalanceAssumption DEF Core, Actors
<1>1. /\ UNCHANGED <<goal, gen, outcome>>
      /\ completed' \in [Workers -> BOOLEAN]
      /\ \A w \in Workers : w # a => completed'[w] = completed[w]
      /\ a \in Workers => (completed'[a] <=> (completed[a] \/ done))
  BY AfterBatchFacts
<1>2. PICK l \in {"report", "wait", "idle", "coop"} :
        /\ pc' = [pc EXCEPT ![a] = l]
        /\ l = "report" => a \in Workers /\ done
        /\ l = "idle" => a \notin Workers
        /\ l = "coop" => a \notin Workers /\ goal[a] # 0
  BY AfterBatchFacts
<1>11. Shape'
  BY <1>1, <1>2 DEF Shape, PCs, Live
<1>12. Generations'
  BY DEF Generations
<1>13. Reasons'
  BY <1>1, <1>2 DEF Shape, Reasons, PCs, Live, Current
<1>14. BatchAdmitted'
  BY <1>1, <1>2 DEF Shape, BatchAdmitted
<1>15. OutcomeTruthful'
  BY <1>1, <1>2 DEF Shape, Reasons, OutcomeTruthful
<1>. QED
  BY <1>11, <1>12, <1>13, <1>14, <1>15

(*****************************************************************************)
(* Core survives what a worker does before and between its batches: it is    *)
(* spawned (or not), waits in wait_ready or wait_ready_async, sleeps, wakes. *)
(*****************************************************************************)
LEMMA StillSteps ==
  ASSUME Core, NEW w \in Workers,
         \/ Spawned(w) \/ SpawnFails(w) \/ SpawnError(w)
         \/ Register(w) \/ WaitReady(w) \/ ReadTelemetry(w) \/ IsMigrating(w)
         \/ Doze(w) \/ WakeUp(w)
  PROVE  Core'
<1>. USE RebalanceAssumption DEF Core, tracker, layout, locals, control, Actors, Goto
<1>1. CASE Spawned(w)
  BY <1>1 DEF Spawned, Shape, Generations, Reasons, BatchAdmitted, OutcomeTruthful, PCs, Live, Current
<1>2. CASE SpawnFails(w)
  BY <1>2 DEF SpawnFails, Shape, Generations, Reasons, BatchAdmitted, OutcomeTruthful, PCs, Live, Current
<1>3. CASE SpawnError(w)
  BY <1>3 DEF SpawnError, Shape, Generations, Reasons, BatchAdmitted, OutcomeTruthful, PCs, Live, Current
<1>4. CASE Register(w)
  BY <1>4 DEF Register, Shape, Generations, Reasons, BatchAdmitted, OutcomeTruthful, PCs, Live, Current
<1>5. CASE WaitReady(w)
  BY <1>5 DEF WaitReady, Shape, Generations, Reasons, BatchAdmitted, OutcomeTruthful, PCs, Live, Current
<1>6. CASE Doze(w)
  BY <1>6 DEF Doze, Shape, Generations, Reasons, BatchAdmitted, OutcomeTruthful, PCs, Live, Current
<1>7. CASE WakeUp(w)
  BY <1>7 DEF WakeUp, Shape, Generations, Reasons, BatchAdmitted, OutcomeTruthful, PCs, Live, Current
<1>8. CASE ReadTelemetry(w)
  BY <1>8 DEF ReadTelemetry, Shape, Generations, Reasons, BatchAdmitted, OutcomeTruthful, PCs, Live, Current
<1>9. CASE IsMigrating(w)
  BY <1>9 DEF IsMigrating, Shape, Generations, Reasons, BatchAdmitted, OutcomeTruthful, PCs, Live, Current
<1>. QED
  BY <1>1, <1>2, <1>3, <1>4, <1>5, <1>6, <1>7, <1>8, <1>9

(*****************************************************************************)
(* Core survives the end of a worker, by its report, a panic or an abort,    *)
(* and everything the owner of its handle does.                              *)
(*****************************************************************************)
LEMMA EndSteps ==
  ASSUME Core, NEW w \in Workers,
         \/ Report(w) \/ Release(w) \/ WorkerPanics(w) \/ AbortTask(w) \/ RuntimeStops(w)
         \/ Cancel(w, "cancelling") \/ Cancel(w, "dropping") \/ CancelWake(w) \/ Join(w)
  PROVE  Core'
<1>. USE RebalanceAssumption DEF Core, tracker, layout, locals, control, Actors, Goto
<1>1. CASE Report(w)
  BY <1>1 DEF Report, Shape, Generations, Reasons, BatchAdmitted, OutcomeTruthful, PCs, Live, Current, FinalState
<1>2. CASE Release(w)
  BY <1>2 DEF Release, Shape, Generations, Reasons, BatchAdmitted, OutcomeTruthful, PCs, Live, Current, End
<1>3. CASE WorkerPanics(w)
  BY <1>3 DEF WorkerPanics, Shape, Generations, Reasons, BatchAdmitted, OutcomeTruthful, PCs, Live, Current, Unwind, End
<1>4. CASE AbortTask(w)
  BY <1>4 DEF AbortTask, Shape, Generations, Reasons, BatchAdmitted, OutcomeTruthful, PCs, Live, Current, Unwind, End
<1>5. CASE RuntimeStops(w)
  BY <1>5 DEF RuntimeStops, Shape, Generations, Reasons, BatchAdmitted, OutcomeTruthful, PCs, Live, Current
<1>6. CASE Cancel(w, "cancelling")
  BY <1>6 DEF Cancel, Shape, Generations, Reasons, BatchAdmitted, OutcomeTruthful, PCs, Live, Current
<1>7. CASE Cancel(w, "dropping")
  BY <1>7 DEF Cancel, Shape, Generations, Reasons, BatchAdmitted, OutcomeTruthful, PCs, Live, Current
<1>8. CASE CancelWake(w)
  BY <1>8 DEF CancelWake, Shape, Generations, Reasons, BatchAdmitted, OutcomeTruthful, PCs, Live, Current
<1>9. CASE Join(w)
  BY <1>9 DEF Join, Shape, Generations, Reasons, BatchAdmitted, OutcomeTruthful, PCs, Live, Current, NoGeneration
<1>. QED
  BY <1>1, <1>2, <1>3, <1>4, <1>5, <1>6, <1>7, <1>8, <1>9

(*****************************************************************************)
(* Core survives the calls that are over in one exclusive section: starting  *)
(* and replacing a migration, clear, pause, resume and foreground writes.    *)
(*****************************************************************************)
LEMMA UserSteps ==
  ASSUME Core, NEW target \in Counts,
         \/ StartOnline(target) \/ StopTheWorld(target)
         \/ Clear \/ PauseRebalance \/ ResumeRebalance \/ Promote
  PROVE  Core'
<1>. USE RebalanceAssumption DEF Core, tracker, layout, locals, control, Actors, Goto
<1>1. CASE StartOnline(target)
  <2>1. begin_with_counts(target)
    BY <1>1 DEF StartOnline
  <2>. HIDE DEF Core
  <2>2. Shape /\ Generations /\ Reasons /\ BatchAdmitted /\ OutcomeTruthful
    BY DEF Core
  <2>3. /\ sources' \in Seq(Nat) /\ Len(sources') > 0
        /\ \A i \in DOMAIN sources' : i > 0
        /\ generation' = generation + 1
        /\ migrating' = TRUE /\ paused' = FALSE /\ complete' = FALSE
        /\ completed_shards' = 0 /\ shard_count' = target /\ finished' = finished
    BY <2>1, <2>2, BeginFacts
  <2>11. Shape'
    <3>. USE <2>2, <2>3 DEF Shape
    <3>1. completed_shards' \in Nat /\ generation' \in Nat /\ shard_count' \in Counts
      OBVIOUS
    <3>2. UNCHANGED <<pc, goal, gen, completed, cancelled, outcome>>
      BY <1>1 DEF StartOnline
    <3>. QED
      BY <3>1, <3>2
  <2>12. Generations'
    BY <1>1, <2>2, <2>3 DEF StartOnline, Exclusive, Shape, Generations
  <2>13. Reasons'
    BY <1>1, <2>2, <2>3 DEF StartOnline, Exclusive, Shape, Generations, Reasons, PCs, Live, Current
  <2>14. BatchAdmitted'
    BY <1>1, <2>2, <2>3 DEF StartOnline, Exclusive, Shape, BatchAdmitted
  <2>15. OutcomeTruthful'
    BY <1>1, <2>2, <2>3 DEF StartOnline, Exclusive, Shape, Generations, Reasons, OutcomeTruthful, PCs, Live
  <2>. QED
    BY <2>11, <2>12, <2>13, <2>14, <2>15 DEF Core
<1>2. CASE StopTheWorld(target)
  <2>11. Shape'
    <3>. USE <1>2 DEF StopTheWorld, Shape
    <3>1. sources' \in Seq(Nat)
      OBVIOUS
    <3>2. finished' \in SUBSET Nat
      OBVIOUS
    <3>3. completed_shards' \in Nat /\ generation' \in Nat /\ shard_count' \in Counts
      OBVIOUS
    <3>4. migrating' \in BOOLEAN /\ paused' \in BOOLEAN /\ complete' \in BOOLEAN
      OBVIOUS
    <3>5. UNCHANGED <<pc, goal, gen, completed, cancelled, outcome>>
      OBVIOUS
    <3>. QED
      BY <3>1, <3>2, <3>3, <3>4, <3>5
  <2>12. Generations'
    BY <1>2 DEF StopTheWorld, Exclusive, Shape, Generations
  <2>13. Reasons'
    BY <1>2 DEF StopTheWorld, Exclusive, Shape, Generations, Reasons, PCs, Live, Current
  <2>14. BatchAdmitted'
    BY <1>2 DEF StopTheWorld, Exclusive, Shape, BatchAdmitted
  <2>15. OutcomeTruthful'
    BY <1>2 DEF StopTheWorld, Exclusive, Shape, Generations, Reasons, OutcomeTruthful, PCs, Live
  <2>. QED
    BY <2>11, <2>12, <2>13, <2>14, <2>15
<1>3. CASE Clear
  <2>11. Shape'
    <3>. USE <1>3 DEF Clear, finish, Shape
    <3>1. sources' \in Seq(Nat) /\ finished' \in SUBSET Nat
      OBVIOUS
    <3>2. migrating' \in BOOLEAN /\ paused' \in BOOLEAN /\ complete' \in BOOLEAN
      OBVIOUS
    <3>3. UNCHANGED <<generation, completed_shards, shard_count>>
      OBVIOUS
    <3>4. UNCHANGED <<pc, goal, gen, completed, cancelled, outcome>>
      OBVIOUS
    <3>. QED
      BY <3>1, <3>2, <3>3, <3>4
  <2>12. Generations'
    BY <1>3 DEF Clear, Exclusive, finish, Shape, Generations
  <2>13. Reasons'
    BY <1>3 DEF Clear, Exclusive, finish, Shape, Generations, Reasons, PCs, Live, Current
  <2>14. BatchAdmitted'
    BY <1>3 DEF Clear, Exclusive, finish, Shape, BatchAdmitted
  <2>15. OutcomeTruthful'
    BY <1>3 DEF Clear, Exclusive, finish, Shape, Generations, Reasons, OutcomeTruthful, PCs, Live
  <2>. QED
    BY <2>11, <2>12, <2>13, <2>14, <2>15
<1>4. CASE PauseRebalance
  BY <1>4 DEF PauseRebalance, Shape, Generations, Reasons, BatchAdmitted, OutcomeTruthful, PCs, Live, Current, Exclusive, set_paused
<1>5. CASE ResumeRebalance
  BY <1>5 DEF ResumeRebalance, Shape, Generations, Reasons, BatchAdmitted, OutcomeTruthful, PCs, Live, Current, set_paused
<1>6. CASE Promote
  <2>11. Shape'
    BY <1>6, SMTT(30) DEF Promote, Exclusive, Shape, PCs, Live
  <2>12. Generations'
    BY <1>6 DEF Promote, Exclusive, Shape, Generations
  <2>13. Reasons'
    BY <1>6 DEF Promote, Exclusive, Shape, Generations, Reasons, PCs, Live, Current
  <2>14. BatchAdmitted'
    BY <1>6 DEF Promote, Exclusive, Shape, BatchAdmitted
  <2>15. OutcomeTruthful'
    BY <1>6 DEF Promote, Exclusive, Shape, Generations, Reasons, OutcomeTruthful, PCs, Live
  <2>. QED
    BY <2>11, <2>12, <2>13, <2>14, <2>15
<1>. QED
  BY <1>1, <1>2, <1>3, <1>4, <1>5, <1>6

(*****************************************************************************)
(* Core survives what a caller does around its batches, rebalance_to's       *)
(* decision to start a migration included.                                   *)
(*****************************************************************************)
LEMMA CallerSteps ==
  ASSUME Core, NEW c \in Callers, NEW target \in Counts,
         \/ Advance(c) \/ RebalanceTo(c, target) \/ CoopCheck(c) \/ CoopResume(c) \/ CallerUnwinds(c)
  PROVE  Core'
<1>. USE RebalanceAssumption DEF Core, tracker, layout, locals, control, Actors, Goto
<1>1. CASE Advance(c)
  BY <1>1 DEF Advance, Shape, Generations, Reasons, BatchAdmitted, OutcomeTruthful, PCs, Live, Current
<1>2. CASE RebalanceTo(c, target)
  BY <1>2 DEF RebalanceTo, Shape, Generations, Reasons, BatchAdmitted, OutcomeTruthful, PCs, Live, Current
<1>3. CASE CoopCheck(c)
  <2>1. CASE migrating \/ shard_count = goal[c]
    <3>1. /\ \/ pc' = [pc EXCEPT ![c] = "idle"] /\ goal' = [goal EXCEPT ![c] = 0]
             \/ pc' = [pc EXCEPT ![c] = "resume"] /\ goal' = goal
          /\ UNCHANGED <<tracker, layout, routing, gen, completed, outcome, cancelled, finished>>
          /\ c \notin Workers
      BY <1>3, <2>1 DEF CoopCheck
    <3>11. Shape'
      BY <3>1 DEF Shape, PCs
    <3>12. Generations' /\ Reasons' /\ BatchAdmitted' /\ OutcomeTruthful'
      BY <3>1 DEF Shape, Generations, Reasons, BatchAdmitted, OutcomeTruthful, Live, Current
    <3>. QED
      BY <3>11, <3>12
  <2>2. CASE ~(migrating \/ shard_count = goal[c])
    <3>1. goal[c] \in Counts /\ begin_with_counts(goal[c])
      BY <1>3, <2>2 DEF CoopCheck, Shape
    <3>2. /\ sources' \in Seq(Nat) /\ Len(sources') > 0
          /\ \A i \in DOMAIN sources' : i > 0
          /\ generation' = generation + 1
          /\ migrating' = TRUE /\ paused' = FALSE /\ complete' = FALSE
          /\ completed_shards' = 0 /\ shard_count' = goal[c] /\ finished' = finished
      BY <3>1, BeginFacts
    <3>3. /\ pc' = [pc EXCEPT ![c] = "resume"] /\ c \notin Workers
          /\ UNCHANGED <<goal, routing, gen, completed, outcome, cancelled>>
          /\ routing = NoActor
      BY <1>3, <2>2 DEF CoopCheck, Exclusive
    <3>11. Shape'
      <4>. USE DEF Shape
      <4>1. completed_shards' \in Nat /\ generation' \in Nat /\ shard_count' \in Counts
        BY <3>1, <3>2
      <4>2. pc' \in [Actors -> PCs] /\ \A d \in Callers : pc'[d] = "coop" => goal[d] # 0
        BY <3>3 DEF PCs
      <4>. QED
        BY <3>2, <3>3, <4>1, <4>2
    <3>12. Generations'
      BY <3>2 DEF Shape, Generations
    <3>13. Reasons'
      BY <3>2, <3>3 DEF Shape, Generations, Reasons, PCs, Live, Current
    <3>14. BatchAdmitted'
      BY <3>2, <3>3 DEF Shape, BatchAdmitted
    <3>15. OutcomeTruthful'
      BY <3>2, <3>3 DEF Shape, Generations, Reasons, OutcomeTruthful
    <3>. QED
      BY <3>11, <3>12, <3>13, <3>14, <3>15
  <2>. QED
    BY <2>1, <2>2
<1>4. CASE CoopResume(c)
  <2>1. /\ pc' = [pc EXCEPT ![c] = "acquire"] /\ c \notin Workers
        /\ paused' = paused \/ paused' = FALSE
        /\ UNCHANGED <<generation, migrating, complete, completed_shards, layout, routing, goal,
                       gen, completed, outcome, cancelled, finished>>
    BY <1>4 DEF CoopResume, set_paused
  <2>2. Shape'
    BY <2>1 DEF Shape, PCs, Live
  <2>3. Generations' /\ Reasons' /\ BatchAdmitted' /\ OutcomeTruthful'
    BY <2>1 DEF Shape, Generations, Reasons, BatchAdmitted, OutcomeTruthful, Live, Current
  <2>. QED
    BY <2>2, <2>3
<1>5. CASE CallerUnwinds(c)
  BY <1>5 DEF CallerUnwinds, Shape, Generations, Reasons, BatchAdmitted, OutcomeTruthful, PCs, Live, Current
<1>. QED
  BY <1>1, <1>2, <1>3, <1>4, <1>5

(*****************************************************************************)
(* Core survives spawn_rebalance, which starts or adopts a migration and     *)
(* claims its generation.                                                    *)
(*****************************************************************************)
LEMMA SpawnStep ==
  ASSUME Core, NEW w \in Workers, NEW target \in Counts,
         Spawn(w, target)
  PROVE  Core'
<1>. USE RebalanceAssumption DEF Core, tracker, layout, locals, control, Actors, Goto
<1>1. CASE Spawn(w, target)
  <2>1. CASE migrating \/ target = shard_count
    <3>1. /\ pc' = [pc EXCEPT ![w] = "spawning"] /\ w \notin Callers
          /\ gen' = [gen EXCEPT ![w] = generation]
          /\ completed' \in [Workers -> BOOLEAN] /\ (completed'[w] <=> ~migrating)
          /\ \A v \in Workers : v # w => completed'[v] = completed[v]
          /\ outcome' = [outcome EXCEPT ![w] = "none"]
          /\ UNCHANGED <<tracker, layout, routing, goal, cancelled, finished>>
          /\ routing = NoActor
      <4>1. /\ UNCHANGED <<tracker, layout, routing, goal, cancelled, finished>>
            /\ pc' = [pc EXCEPT ![w] = "spawning"]
            /\ gen' = [gen EXCEPT ![w] = generation']
            /\ completed' = [completed EXCEPT ![w] = ~migrating']
            /\ outcome' = [outcome EXCEPT ![w] = "none"]
            /\ routing = NoActor
        BY <1>1, <2>1 DEF Spawn, Exclusive
      <4>2. generation' = generation /\ migrating' = migrating
        BY <4>1
      <4>3. /\ completed' \in [Workers -> BOOLEAN] /\ completed'[w] = ~migrating'
            /\ \A v \in Workers : v # w => completed'[v] = completed[v]
        <5>1. completed \in [Workers -> BOOLEAN] /\ (~migrating') \in BOOLEAN
          BY DEF Shape
        <5>. QED
          BY <4>1, <5>1, Zenon
      <4>4. completed'[w] <=> ~migrating
        BY <4>2, <4>3, Zenon
      <4>5. w \notin Callers
        OBVIOUS
      <4>6. gen' = [gen EXCEPT ![w] = generation]
        BY <4>1, <4>2
      <4>. QED
        BY <4>1, <4>3, <4>4, <4>5, <4>6
    <3>11. Shape'
      <4>. USE DEF Shape
      <4>2. pc' \in [Actors -> PCs] /\ \A d \in Callers : pc'[d] = "coop" => goal[d] # 0
        BY <3>1 DEF PCs, Live
      <4>3. /\ gen' \in [Workers -> Int] /\ completed' \in [Workers -> BOOLEAN]
            /\ outcome' \in [Workers -> {"none", "completed", "stopped", "panicked", "aborted"}]
        BY <3>1
      <4>. QED
        BY <3>1, <4>2, <4>3
    <3>12. Generations'
      BY <3>1 DEF Generations
    <3>13. Reasons'
      BY <3>1 DEF Shape, Generations, Reasons, PCs, Live, Current
    <3>14. BatchAdmitted'
      BY <3>1 DEF Shape, BatchAdmitted
    <3>15. OutcomeTruthful'
      BY <3>1 DEF Shape, Generations, Reasons, OutcomeTruthful
    <3>. QED
      BY <3>11, <3>12, <3>13, <3>14, <3>15
  <2>2. CASE ~(migrating \/ target = shard_count)
    <3>1. begin_with_counts(target)
      BY <1>1, <2>2 DEF Spawn
    <3>2. /\ sources' \in Seq(Nat) /\ Len(sources') > 0
          /\ \A i \in DOMAIN sources' : i > 0
          /\ generation' = generation + 1
          /\ migrating' = TRUE /\ paused' = FALSE /\ complete' = FALSE
          /\ completed_shards' = 0 /\ shard_count' = target /\ finished' = finished
      BY <3>1, BeginFacts
    <3>3. /\ pc' = [pc EXCEPT ![w] = "spawning"] /\ w \notin Callers
          /\ gen' = [gen EXCEPT ![w] = generation + 1]
          /\ completed' = [completed EXCEPT ![w] = FALSE]
          /\ outcome' = [outcome EXCEPT ![w] = "none"]
          /\ UNCHANGED <<routing, goal, cancelled>>
          /\ routing = NoActor
      BY <1>1, <2>2, <3>2 DEF Spawn, Exclusive
    <3>11. Shape'
      <4>. USE DEF Shape
      <4>1. completed_shards' \in Nat /\ generation' \in Nat /\ shard_count' \in Counts
        BY <3>2
      <4>2. pc' \in [Actors -> PCs] /\ \A d \in Callers : pc'[d] = "coop" => goal[d] # 0
        BY <3>3 DEF PCs, Live
      <4>3. /\ gen' \in [Workers -> Int] /\ completed' \in [Workers -> BOOLEAN]
            /\ outcome' \in [Workers -> {"none", "completed", "stopped", "panicked", "aborted"}]
        BY <3>3
      <4>. QED
        BY <3>2, <3>3, <4>1, <4>2, <4>3
    <3>12. Generations'
      BY <3>2 DEF Shape, Generations
    <3>13. Reasons'
      BY <3>2, <3>3 DEF Shape, Generations, Reasons, PCs, Live, Current
    <3>14. BatchAdmitted'
      BY <3>2, <3>3 DEF Shape, BatchAdmitted
    <3>15. OutcomeTruthful'
      BY <3>2, <3>3 DEF Shape, Generations, Reasons, OutcomeTruthful
    <3>. QED
      BY <3>11, <3>12, <3>13, <3>14, <3>15
  <2>. QED
    BY <2>1, <2>2
<1>. QED
  BY <1>1

(*****************************************************************************)
(* Core survives advance_rebalance_inner: the checks after routing is taken, *)
(* each turn of its loop, and its ends.                                      *)
(*****************************************************************************)
LEMMA BatchSteps ==
  ASSUME Core, NEW a \in Actors,
         \/ Acquire(a) \/ EndBatch(a) \/ Turn(a)
  PROVE  Core'
<1>. USE RebalanceAssumption DEF Core, tracker, layout, locals, control, Actors, Goto
<1>1. CASE Acquire(a)
  <2>1. CASE Admitted(a) /\ migrating
    <3>1. /\ pc' = [pc EXCEPT ![a] = "batch"] /\ pc[a] = "acquire"
          /\ routing = NoActor /\ routing' = a
          /\ UNCHANGED <<tracker, layout, goal, gen, completed, outcome, cancelled, finished>>
          /\ ~paused /\ migrating /\ (a \in Workers => generation = gen[a])
      BY <1>1, <2>1 DEF Acquire, Exclusive, Admitted
    <3>11. Shape'
      BY <3>1 DEF Shape, PCs, Live
    <3>12. Generations' /\ Reasons'
      BY <3>1 DEF Shape, Generations, Reasons, Live, Current
    <3>13. BatchAdmitted'
      BY <3>1 DEF Shape, BatchAdmitted
    <3>14. OutcomeTruthful'
      BY <3>1 DEF OutcomeTruthful
    <3>. QED
      BY <3>11, <3>12, <3>13, <3>14
  <2>2. CASE ~(Admitted(a) /\ migrating)
    <3>1. /\ AfterBatch(a, Admitted(a), FALSE)
          /\ pc[a] = "acquire"
          /\ UNCHANGED <<tracker, layout, routing, cancelled, finished>>
      BY <1>1, <2>2 DEF Acquire
    <3>2. (Admitted(a) /\ a \in Workers) => gen[a] \in finished
      BY <2>2 DEF Admitted, Generations
    <3>3. Admitted(a) \in BOOLEAN
      BY DEF Admitted
    <3>4. /\ completed_shards' \in Nat /\ sources' \in Seq(Nat)
          /\ migrating => completed_shards' < Len(sources')
          /\ \A i \in DOMAIN sources' : i <= completed_shards' => sources'[i] = 0
      BY <3>1 DEF Shape, BatchAdmitted
    <3>. HIDE DEF Admitted
    <3>. QED
      BY <3>1, <3>2, <3>3, <3>4, QuietEnd
  <2>. QED
    BY <2>1, <2>2
<1>2. CASE EndBatch(a)
  <2>1. /\ \E overrun \in {FALSE, budget[a].timed} : AfterBatch(a, FALSE, overrun)
        /\ pc[a] = "batch" /\ routing' = NoActor
        /\ UNCHANGED <<tracker, layout, cancelled, finished>>
    BY <1>2 DEF EndBatch
  <2>2. PICK overrun : AfterBatch(a, FALSE, overrun)
    BY <2>1
  <2>3. /\ completed_shards' \in Nat /\ sources' \in Seq(Nat)
        /\ migrating => completed_shards' < Len(sources')
        /\ \A i \in DOMAIN sources' : i <= completed_shards' => sources'[i] = 0
    BY <2>1 DEF Shape, BatchAdmitted
  <2>. QED
    BY <2>1, <2>2, <2>3, QuietEnd
<1>3. CASE Turn(a)
  <2>. DEFINE i == completed_shards + 1
              moved == IF sources[i] > 0 THEN 1 ELSE 0
              last == sources[i] = moved /\ i = Len(sources)
  <2>1. /\ pc[a] = "batch" /\ routing = a /\ migrating /\ ~paused
        /\ a \in Workers => gen[a] = generation
        /\ i \in 1..Len(sources) /\ sources[i] \in Nat
        /\ cancelled' = cancelled
        /\ completed_shards' \in Nat
        /\ completed_shards' = IF sources[i] = moved THEN i ELSE completed_shards
    BY <1>3, SMTT(30) DEF Turn, Shape, BatchAdmitted
  <2>2. CASE last
    <3>1. PICK overrun : AfterBatch(a, TRUE, overrun)
      BY <1>3, <2>2 DEF Turn
    <3>2. /\ sources' = << >> /\ migrating' = FALSE /\ paused' = FALSE /\ complete' = TRUE
          /\ finished' = finished \cup {generation} /\ UNCHANGED <<generation, shard_count>>
          /\ routing' = NoActor
      BY <1>3, <2>2 DEF Turn, finish
    <3>3. /\ UNCHANGED <<goal, gen, outcome>>
          /\ completed' \in [Workers -> BOOLEAN]
          /\ \A w \in Workers : w # a => completed'[w] = completed[w]
          /\ a \in Workers => (completed'[a] <=> (completed[a] \/ TRUE))
          /\ \E l \in {"report", "wait", "idle", "coop"} :
               /\ pc' = [pc EXCEPT ![a] = l]
               /\ l = "report" => a \in Workers /\ TRUE
               /\ l = "idle" => a \notin Workers
               /\ l = "coop" => a \notin Workers /\ goal[a] # 0
      BY <3>1, AfterBatchFacts
    <3>11. Shape'
      <4>. USE DEF Shape
      <4>1. sources' \in Seq(Nat) /\ finished' \in SUBSET Nat
        BY <3>2
      <4>2. pc' \in [Actors -> PCs] /\ \A d \in Callers : pc'[d] = "coop" => goal[d] # 0
        BY <3>3 DEF PCs, Live
      <4>3. generation' \in Nat /\ shard_count' \in Counts
        BY <3>2
      <4>4. migrating' \in BOOLEAN /\ paused' \in BOOLEAN /\ complete' \in BOOLEAN
        BY <3>2
      <4>5. gen' \in [Workers -> Int] /\ goal' = goal /\ cancelled' \in [Workers -> BOOLEAN]
            /\ outcome' \in [Workers -> {"none", "completed", "stopped", "panicked", "aborted"}]
        BY <2>1, <3>3
      <4>. QED
        BY <2>1, <3>3, <4>1, <4>2, <4>3, <4>4, <4>5
    <3>12. Generations'
      BY <3>2 DEF Shape, Generations
    <3>13. Reasons'
      BY <2>1, <3>2, <3>3 DEF Shape, Generations, Reasons, PCs, Live, Current
    <3>14. BatchAdmitted'
      BY <2>1, <3>2, <3>3 DEF Shape, BatchAdmitted
    <3>15. OutcomeTruthful'
      BY <2>1, <3>2, <3>3 DEF Shape, Generations, Reasons, OutcomeTruthful
    <3>. QED
      BY <3>11, <3>12, <3>13, <3>14, <3>15
  <2>3. CASE ~last
    <3>1. /\ sources' = [sources EXCEPT ![i] = sources[i] - moved]
          /\ UNCHANGED <<generation, migrating, paused, complete, shard_count, finished>>
          /\ \/ UNCHANGED <<pc, goal, gen, completed, outcome, routing>>
             \/ /\ \E overrun \in BOOLEAN : AfterBatch(a, FALSE, overrun)
                /\ routing' = NoActor
      BY <1>3, <2>3 DEF Turn
    <3>2. /\ sources' \in Seq(Nat) /\ Len(sources') = Len(sources)
          /\ DOMAIN sources' = DOMAIN sources
          /\ \A j \in DOMAIN sources : j <= completed_shards' => sources'[j] = 0
          /\ completed_shards' < Len(sources')
      BY <2>1, <2>3, <3>1 DEF Shape, BatchAdmitted
    <3>3. CASE UNCHANGED <<pc, goal, gen, completed, outcome, routing>>
      BY <2>1, <3>1, <3>2, <3>3 DEF Shape, Generations, Reasons, BatchAdmitted, OutcomeTruthful, Current
    <3>4. CASE (\E overrun \in BOOLEAN : AfterBatch(a, FALSE, overrun)) /\ routing' = NoActor
      BY <2>1, <3>1, <3>2, <3>4, QuietEnd
    <3>. QED
      BY <3>1, <3>3, <3>4
  <2>. QED
    BY <2>2, <2>3
<1>. QED
  BY <1>1, <1>2, <1>3

(*****************************************************************************)
(* Every step of the specification preserves Core.                           *)
(*****************************************************************************)
LEMMA CoreNext == Core /\ [Next]_vars => Core'
<1>. SUFFICES ASSUME Core, [Next]_vars PROVE Core'
  OBVIOUS
<1>0. PICK target0 : target0 \in Counts
  BY RebalanceAssumption
<1>1. ASSUME NEW w \in Workers, WorkerStep(w) \/ CancelWake(w) \/ AbortTask(w)
      PROVE  Core'
  <2>1. w \in Actors
    BY DEF Actors
  <2>. QED
    BY <1>1, <2>1, StillSteps, EndSteps, BatchSteps DEF WorkerStep, BatchStep
<1>2. ASSUME NEW c \in Callers, CallerStep(c) PROVE Core'
  <2>1. c \in Actors
    BY DEF Actors
  <2>. QED
    BY <1>0, <1>2, <2>1, CallerSteps, BatchSteps DEF CallerStep, BatchStep
<1>3. ASSUME UserStep PROVE Core'
  BY <1>0, <1>3, UserSteps, SpawnStep, EndSteps, CallerSteps DEF UserStep
<1>4. ASSUME Failure PROVE Core'
  BY <1>0, <1>4, StillSteps, EndSteps, CallerSteps DEF Failure
<1>5. CASE UNCHANGED vars
  BY <1>5 DEF Core, Shape, Generations, Reasons, BatchAdmitted, OutcomeTruthful, Current,
              vars, tracker, layout, locals, control
<1>. QED
  BY <1>1, <1>2, <1>3, <1>4, <1>5 DEF Next

(*****************************************************************************)
(* The inductive invariant holds in every reachable state, for any workers   *)
(* and callers, threads or tasks, even where threads cannot be created.      *)
(*****************************************************************************)
THEOREM CoreAlways == Safety => []Core
<1>1. Init => Core
  BY CoreInit
<1>2. Core /\ [Next]_vars => Core'
  BY CoreNext
<1>. QED
  BY <1>1, <1>2, PTL DEF Safety

(*****************************************************************************)
(* Batches commit only to a migration that is under way, not paused, and,    *)
(* for a worker, its own, although advance_rebalance_inner takes routing     *)
(* after the checks of wait_ready.                                           *)
(*****************************************************************************)
THEOREM BatchesAreAdmitted == Safety => []BatchAdmitted
<1>1. Core => BatchAdmitted
  BY DEF Core
<1>. QED
  BY <1>1, CoreAlways, PTL

(*****************************************************************************)
(* A worker's RebalanceOutcome says completed only of a migration that ran   *)
(* to its end, and stopped only when cancelled or superseded.                *)
(*****************************************************************************)
THEOREM OutcomesAreTruthful == Safety => []OutcomeTruthful
<1>1. Core => OutcomeTruthful
  BY DEF Core
<1>. QED
  BY <1>1, CoreAlways, PTL

(*****************************************************************************)
(* Nothing is moved while a migration stays paused: pause_rebalance takes    *)
(* routing, so it returns between batches, and batches check again.          *)
(*****************************************************************************)
THEOREM PauseIsHonoured == Safety => PauseHolds
<1>. DEFINE Still == paused /\ paused' => UNCHANGED <<moved_entries, completed_shards>>
<1>1. ASSUME Core, Next PROVE Still
  <2>. SUFFICES ASSUME paused, paused' PROVE UNCHANGED <<moved_entries, completed_shards>>
    OBVIOUS
  <2>. USE DEF tracker
  <2>1. ASSUME NEW a \in Actors, BatchStep(a)
        PROVE  UNCHANGED <<moved_entries, completed_shards>>
    <3>1. ~Turn(a)
      BY <1>1 DEF Turn, Core, BatchAdmitted
    <3>. QED
      BY <2>1, <3>1 DEF BatchStep, Acquire, EndBatch
  <2>2. ASSUME NEW w \in Workers, WorkerStep(w) \/ CancelWake(w) \/ AbortTask(w)
        PROVE  UNCHANGED <<moved_entries, completed_shards>>
    <3>1. w \in Actors
      BY DEF Actors
    <3>. QED
      BY <2>1, <2>2, <3>1 DEF WorkerStep, Spawned, SpawnError, Register, WaitReady, ReadTelemetry,
           IsMigrating, Doze,
           WakeUp, Report, Release, CancelWake, AbortTask, Unwind, End
  <2>3. ASSUME NEW c \in Callers, CallerStep(c)
        PROVE  UNCHANGED <<moved_entries, completed_shards>>
    <3>1. c \in Actors
      BY DEF Actors
    <3>. QED
      BY <2>1, <2>3, <3>1 DEF CallerStep, CoopCheck, CoopResume, begin_with_counts, set_paused
  <2>4. ASSUME UserStep PROVE UNCHANGED <<moved_entries, completed_shards>>
    BY <2>4 DEF UserStep, StartOnline, StopTheWorld, Clear, finish, PauseRebalance,
         ResumeRebalance, set_paused, Promote, Spawn, begin_with_counts, Cancel, Join, Advance,
         RebalanceTo
  <2>5. ASSUME Failure PROVE UNCHANGED <<moved_entries, completed_shards>>
    BY <2>5 DEF Failure, SpawnFails, WorkerPanics, Unwind, End, RuntimeStops, CallerUnwinds
  <2>. QED
    BY <1>1, <2>2, <2>3, <2>4, <2>5 DEF Next
<1>2. Core /\ [Next]_vars => [Still]_vars
  BY <1>1
<1>. QED
  BY <1>2, CoreAlways, PTL DEF Safety, PauseHolds

(*****************************************************************************)
(* Where threads can always be created, the lease of the tracker names the   *)
(* one worker that runs, and no worker runs without it.                      *)
(*****************************************************************************)
THEOREM LeaseIsExclusive ==
  ASSUME ~SpawnMayFail
  PROVE  Safety => []LeaseMatches
<1>. DEFINE Inv == Core /\ LeaseMatches
<1>1. Init => LeaseMatches
  BY DEF Init, LeaseMatches, Live, Actors
<1>2. ASSUME Inv, [Next]_vars PROVE LeaseMatches'
  <2>. USE RebalanceAssumption DEF Actors, Goto, LeaseMatches, Live, locals
  <2>0. pc \in [Actors -> PCs] /\ gen \in [Workers -> Int] /\ generation \in Nat
    BY <1>2 DEF Core, Shape
  <2>1. \A w \in Workers : pc[w] \in Live => gen[w] \in Nat
    BY <1>2 DEF Core, Shape, Reasons
  <2>2. ASSUME NEW w \in Workers, NEW target \in Counts, Spawn(w, target)
        PROVE  LeaseMatches'
    <3>1. worker_generation = NoGeneration /\ \A v \in Workers : pc[v] \notin Live
      BY <1>2, <2>1, <2>2 DEF Spawn, ClaimAllowed, NoGeneration
    <3>. QED
      BY <2>0, <2>2, <3>1 DEF Spawn
  <2>3. ASSUME NEW w \in Workers, Release(w) \/ WorkerPanics(w) \/ AbortTask(w)
        PROVE  LeaseMatches'
    <3>1. /\ pc' = [pc EXCEPT ![w] = "ended"] /\ pc[w] \in Live /\ gen' = gen
          /\ worker_generation' = IF worker_generation = gen[w] THEN NoGeneration
                                  ELSE worker_generation
      BY <2>3 DEF Release, WorkerPanics, AbortTask, Unwind, End, release_worker
    <3>. QED
      BY <1>2, <2>0, <3>1
  <2>. DEFINE Same == /\ worker_generation' = worker_generation
                      /\ \A w \in Workers : /\ pc'[w] \in Live <=> pc[w] \in Live
                                            /\ pc[w] \in Live => gen'[w] = gen[w]
  <2>4. ASSUME Same PROVE LeaseMatches'
    BY <1>2, <2>4
  <2>5. ASSUME NEW a \in Actors, BatchStep(a) PROVE Same
    BY <2>0, <2>5 DEF BatchStep, Acquire, Turn, EndBatch, AfterBatch
  <2>6. ASSUME NEW w \in Workers,
               \/ Spawned(w) \/ Register(w) \/ WaitReady(w) \/ ReadTelemetry(w)
               \/ IsMigrating(w) \/ Doze(w) \/ WakeUp(w)
               \/ Report(w) \/ CancelWake(w) \/ RuntimeStops(w) \/ Join(w)
               \/ Cancel(w, "cancelling") \/ Cancel(w, "dropping")
        PROVE  Same
    BY <2>0, <2>6 DEF Spawned, Register, WaitReady, ReadTelemetry, IsMigrating, Doze, WakeUp, Report, CancelWake,
         RuntimeStops, Join, Cancel
  <2>7. ASSUME NEW c \in Callers, NEW target \in Counts,
               \/ CoopCheck(c) \/ CoopResume(c) \/ CallerUnwinds(c) \/ Advance(c)
               \/ RebalanceTo(c, target)
        PROVE  Same
    BY <2>0, <2>7 DEF CoopCheck, CoopResume, CallerUnwinds, Advance, RebalanceTo
  <2>8. ASSUME NEW target \in Counts,
               \/ StartOnline(target) \/ StopTheWorld(target)
               \/ Clear \/ PauseRebalance \/ ResumeRebalance \/ Promote
        PROVE  Same
    BY <2>8 DEF StartOnline, StopTheWorld, Clear, PauseRebalance, ResumeRebalance, Promote
  <2>9. CASE UNCHANGED vars
    BY <1>2, <2>9 DEF vars
  <2>10. \A w \in Workers : ~SpawnFails(w) /\ ~SpawnError(w)
    BY <1>2 DEF SpawnFails, SpawnError, Core, Reasons
  <2>11. PICK target0 : target0 \in Counts
    OBVIOUS
  <2>. HIDE DEF Same, LeaseMatches
  <2>. QED
    BY <1>2, <2>2, <2>3, <2>4, <2>5, <2>6, <2>7, <2>8, <2>9, <2>10, <2>11
       DEF Next, WorkerStep, CallerStep, UserStep, Failure
<1>3. Inv /\ [Next]_vars => Inv'
  BY <1>2, CoreNext
<1>. QED
  BY <1>1, <1>3, CoreInit, PTL DEF Safety
=============================================================================
