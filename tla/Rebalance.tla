----------------------------- MODULE Rebalance -----------------------------
(*****************************************************************************)
(* Supervised resharding: the RebalanceTracker of rebalance.rs, the worker   *)
(* of spawn_rebalance (an OS thread or, with Async, a Tokio task) and the    *)
(* callers of advance_rebalance* and of rebalance_to with background = true. *)
(*                                                                           *)
(* What a batch moves is module Migration; here the previous generation is   *)
(* only the number of entries left in each of its slots.  Batches, starts    *)
(* and pauses hold routing exclusively; the tracker's fields are read and    *)
(* written under its own mutex, state_lock, which is held across a step only *)
(* between a thread's check and its wait on the condition variable.          *)
(*****************************************************************************)
EXTENDS Integers, Sequences, FiniteSets

CONSTANTS Workers,       \* identities of supervised workers
          Callers,       \* threads that advance a migration themselves
          NoActor,       \* nobody holds the lock
          Async,         \* AsyncShardedHashMap: workers are Tokio tasks
          SpawnMayFail,  \* the operating system may refuse a thread
          Counts,        \* the shard counts in use
          BatchSize,     \* RebalanceOptions::batch_size, after max(1)
          Timed,         \* RebalanceOptions::max_pause_ns # 0
          MaxEntries,    \* bound: entries of a slot when a migration starts
          MaxGen         \* bound: users start no migration beyond it

Actors == Workers \cup Callers

ASSUME RebalanceAssumption ==
  /\ Workers \cap Callers = {}
  /\ NoActor \notin Actors
  /\ Async \in BOOLEAN /\ SpawnMayFail \in BOOLEAN /\ Timed \in BOOLEAN
  /\ Counts \subseteq Nat \ {0} /\ Counts # {}
  /\ BatchSize \in Nat \ {0}
  /\ MaxEntries \in Nat /\ MaxGen \in Nat

VARIABLES
  generation, migrating, paused, complete,   \* Progress and its telemetry
  completed_shards, moved_entries,
  worker_generation,                         \* the lease
  shard_count,
  sources,       \* entries left in each slot of the previous generation
  routing,       \* exclusive holder of routing_lock
  state_lock,    \* holder of the tracker's mutex
  pc,
  goal,          \* target of a rebalance_to call
  budget,        \* what is left of the running batch
  gen,           \* generation a worker was spawned for
  completed, effective, outcome,             \* locals of a worker
  woken,         \* a notification reached the waiting worker
  cancelled, aborted,                        \* WorkerControl, and tokio's abort
  handle,        \* what the owner of the RebalanceHandle is doing
  finished       \* history: generations whose migration was not superseded

tracker == <<generation, migrating, paused, complete, completed_shards, moved_entries>>
layout  == <<shard_count, sources>>
locals  == <<goal, budget, gen, completed, effective, outcome>>
control == <<cancelled, aborted, handle>>
vars == <<tracker, worker_generation, layout, routing, state_lock, pc, locals,
          woken, control, finished>>

NoGeneration == -1
NoBudget     == [entries |-> 0, shards |-> 0, timed |-> FALSE]
Unlimited    == 1000

Init ==
  /\ generation = 0 /\ completed_shards = 0 /\ moved_entries = 0
  /\ migrating = FALSE /\ paused = FALSE /\ complete = FALSE
  /\ worker_generation = NoGeneration
  /\ shard_count \in Counts
  /\ sources = << >>
  /\ routing = NoActor /\ state_lock = NoActor
  /\ pc = [a \in Actors |-> "idle"]
  /\ goal = [c \in Callers |-> 0]
  /\ budget = [a \in Actors |-> NoBudget]
  /\ gen = [w \in Workers |-> NoGeneration]
  /\ completed = [w \in Workers |-> FALSE]
  /\ effective = [w \in Workers |-> 0]
  /\ outcome = [w \in Workers |-> "none"]
  /\ woken = [w \in Workers |-> FALSE]
  /\ cancelled = [w \in Workers |-> FALSE]
  /\ aborted = [w \in Workers |-> FALSE]
  /\ handle = [w \in Workers |-> "none"]
  /\ finished = {0}    \* the layout the map was built with

\* A worker between its claim of the lease and the lease's release.
Live == {"spawning", "wait", "check", "saw_paused", "saw_ready", "dozing", "asleep",
         "acquire", "batch", "report", "release"}

Goto(a, l) == pc' = [pc EXCEPT ![a] = l]
TrackerFree == state_lock = NoActor
-----------------------------------------------------------------------------
(*****************************************************************************)
(* The tracker.  notify_all reaches the threads that wait; notify_waiters    *)
(* also the tasks that have enabled their Notified and not awaited it yet.   *)
(*****************************************************************************)
\* Mutant of Listening: an enabled Notified misses what comes before its await.
ListeningAsleep == {"asleep"}

Listening == IF Async THEN {"check", "saw_paused", "saw_ready", "dozing", "asleep"}
             ELSE {"asleep"}

\* Mutant of wake: it does not take the mutex first.
WakeUnlocked == woken' = [w \in Workers |-> woken[w] \/ pc[w] \in Listening]

wake ==
  /\ TrackerFree
  /\ woken' = [w \in Workers |-> woken[w] \/ pc[w] \in Listening]

\* The directories are swapped and the tracker moves to the next generation.
begin_with_counts(target) ==
  /\ sources' \in [1..shard_count -> 0..MaxEntries]
  /\ shard_count' = target
  /\ generation' = generation + 1
  /\ migrating' = TRUE
  /\ paused' = FALSE /\ complete' = FALSE
  /\ completed_shards' = 0 /\ moved_entries' = 0
  /\ UNCHANGED finished
  /\ wake

\* The last source slot is gone, or the map has been cleared.
finish ==
  /\ sources' = << >>
  /\ migrating' = FALSE /\ paused' = FALSE /\ complete' = TRUE
  /\ finished' = finished \cup {generation}
  /\ UNCHANGED <<generation, shard_count>>
  /\ wake

set_paused(p) ==
  /\ migrating
  /\ paused' = p
  /\ UNCHANGED <<generation, migrating, complete, completed_shards, moved_entries>>
  /\ wake

\* Mutant of ClaimAllowed: only a worker of the current generation counts.
ClaimAllowedStale == worker_generation # generation

ClaimAllowed == worker_generation = NoGeneration

release_worker(g) ==
  /\ worker_generation' = IF worker_generation = g THEN NoGeneration ELSE worker_generation
  /\ wake
-----------------------------------------------------------------------------
(*****************************************************************************)
(* Users: calls that are over in one exclusive section.                      *)
(*****************************************************************************)
Exclusive == routing = NoActor

StartOnline(target) ==
  /\ Exclusive /\ generation < MaxGen
  /\ ~migrating /\ target # shard_count
  /\ begin_with_counts(target)
  /\ UNCHANGED <<worker_generation, routing, state_lock, pc, locals, control>>

\* rebalance_to with background = false; it ends a migration under way.
StopTheWorld(target) ==
  /\ Exclusive /\ generation < MaxGen
  /\ migrating \/ target # shard_count
  /\ sources' = << >> /\ shard_count' = target
  /\ generation' = generation + 1
  /\ migrating' = FALSE /\ paused' = FALSE /\ complete' = TRUE
  /\ completed_shards' = shard_count
  /\ moved_entries' \in 0..MaxEntries    \* the entries that were copied
  /\ finished' = finished \cup {generation + 1}
  /\ wake
  /\ UNCHANGED <<worker_generation, routing, state_lock, pc, locals, control>>

Clear ==
  /\ Exclusive
  /\ finish
  /\ UNCHANGED <<completed_shards, moved_entries, worker_generation, routing, state_lock,
                 pc, locals, control>>

\* Mutant of PauseRebalance: it does not wait for the batch under way.
PauseAtOnce ==
  /\ set_paused(TRUE)
  /\ UNCHANGED <<worker_generation, layout, routing, state_lock, pc, locals, control, finished>>

PauseRebalance ==
  /\ Exclusive
  /\ set_paused(TRUE)
  /\ UNCHANGED <<worker_generation, layout, routing, state_lock, pc, locals, control, finished>>

ResumeRebalance ==
  /\ set_paused(FALSE)
  /\ UNCHANGED <<worker_generation, layout, routing, state_lock, pc, locals, control, finished>>

\* A foreground write moves or removes an entry of the previous generation.
Promote ==
  /\ Exclusive
  /\ \E i \in DOMAIN sources :
       /\ sources[i] > 0
       /\ sources' = [sources EXCEPT ![i] = @ - 1]
  /\ UNCHANGED <<tracker, worker_generation, shard_count, routing, state_lock, pc, locals,
                 woken, control, finished>>
-----------------------------------------------------------------------------
(*****************************************************************************)
(* spawn_rebalance: start or adopt a migration and claim its generation in   *)
(* one exclusive section, then start the thread or task.  The other returns  *)
(* (WorkerAlreadyRunning, TargetMismatch) change nothing.                    *)
(*****************************************************************************)
Spawn(w, target) ==
  /\ pc[w] = "idle"
  /\ Exclusive /\ TrackerFree
  /\ ClaimAllowed
  /\ migrating => target = shard_count
  /\ IF migrating \/ target = shard_count
     THEN UNCHANGED <<tracker, layout, woken, finished>>
     ELSE generation < MaxGen /\ begin_with_counts(target)
  /\ worker_generation' = generation'
  /\ gen' = [gen EXCEPT ![w] = generation']
  /\ completed' = [completed EXCEPT ![w] = ~migrating']
  /\ effective' = [effective EXCEPT ![w] = BatchSize]
  /\ outcome' = [outcome EXCEPT ![w] = "none"]
  /\ Goto(w, "spawning")
  /\ UNCHANGED <<routing, state_lock, goal, budget, control>>

Spawned(w) ==
  /\ pc[w] = "spawning"
  /\ Goto(w, "wait")
  /\ handle' = [handle EXCEPT ![w] = "held"]
  /\ UNCHANGED <<tracker, worker_generation, layout, routing, state_lock, locals, woken,
                 cancelled, aborted, finished>>

\* Builder::spawn drops the closure, and the lease in it, before it returns the error.
SpawnFails(w) ==
  /\ SpawnMayFail /\ ~Async
  /\ pc[w] = "spawning"
  /\ release_worker(gen[w])
  /\ Goto(w, "spawn_failed")
  /\ UNCHANGED <<tracker, layout, routing, state_lock, locals, control, finished>>

SpawnError(w) ==
  /\ pc[w] = "spawn_failed"
  /\ release_worker(gen[w])
  /\ Goto(w, "idle")
  /\ UNCHANGED <<tracker, layout, routing, state_lock, locals, control, finished>>
-----------------------------------------------------------------------------
(*****************************************************************************)
(* The worker waits until its migration may advance.  A thread checks and    *)
(* goes to sleep without letting go of the mutex; a task enables its         *)
(* Notified before it checks.                                                *)
(*****************************************************************************)
Current(w) == migrating /\ generation = gen[w] /\ ~cancelled[w]

Register(w) ==
  /\ Async /\ pc[w] = "wait"
  /\ Goto(w, "check")
  /\ woken' = [woken EXCEPT ![w] = FALSE]
  /\ UNCHANGED <<tracker, worker_generation, layout, routing, state_lock, locals, control, finished>>

WaitReady(w) ==
  /\ ~Async /\ pc[w] = "wait"
  /\ TrackerFree
  /\ Goto(w, IF ~Current(w) THEN "report" ELSE IF paused THEN "dozing" ELSE "acquire")
  /\ state_lock' = IF Current(w) /\ paused THEN w ELSE NoActor
  /\ UNCHANGED <<tracker, worker_generation, layout, routing, locals, woken, control, finished>>

\* A task takes the mutex twice: for the telemetry, then for is_migrating.
ReadTelemetry(w) ==
  /\ Async /\ pc[w] = "check" /\ TrackerFree
  /\ Goto(w, IF cancelled[w] \/ generation # gen[w] THEN "report"
             ELSE IF paused THEN "saw_paused" ELSE "saw_ready")
  /\ UNCHANGED <<tracker, worker_generation, layout, routing, state_lock, locals, woken,
                 control, finished>>

IsMigrating(w) ==
  /\ pc[w] \in {"saw_paused", "saw_ready"} /\ TrackerFree
  /\ Goto(w, IF ~migrating THEN "report"
             ELSE IF pc[w] = "saw_paused" THEN "dozing" ELSE "acquire")
  /\ UNCHANGED <<tracker, worker_generation, layout, routing, state_lock, locals, woken,
                 control, finished>>

Doze(w) ==
  /\ pc[w] = "dozing"
  /\ Goto(w, "asleep")
  /\ state_lock' = IF Async THEN state_lock ELSE NoActor
  /\ UNCHANGED <<tracker, worker_generation, layout, routing, locals, woken, control, finished>>

WakeUp(w) ==
  /\ pc[w] = "asleep" /\ woken[w]
  /\ Goto(w, "wait")
  /\ woken' = [woken EXCEPT ![w] = FALSE]
  /\ UNCHANGED <<tracker, worker_generation, layout, routing, state_lock, locals, control, finished>>
-----------------------------------------------------------------------------
(*****************************************************************************)
(* advance_rebalance_inner, for workers (with an expected generation and a   *)
(* cancellation flag) and for callers (with neither).  AfterBatch(a, done)   *)
(* is what its caller does with a report whose complete is done.             *)
(*****************************************************************************)
\* Mutant of Faster: the batch size may reach zero.
FasterToZero(n, overrun) == IF overrun THEN n \div 2 ELSE IF n < BatchSize THEN n + 1 ELSE n

Faster(n, overrun) ==
  IF overrun THEN (IF n > 1 THEN n \div 2 ELSE 1)
  ELSE IF n < BatchSize THEN n + 1 ELSE n

AfterBatch(a, done, overrun) ==
  /\ budget' = [budget EXCEPT ![a] = NoBudget]
  /\ IF a \in Workers
     THEN /\ Goto(a, IF done THEN "report" ELSE "wait")
          /\ completed' = [completed EXCEPT ![a] = @ \/ done]
          /\ effective' = [effective EXCEPT ![a] = Faster(@, overrun)]
     ELSE /\ Goto(a, IF goal[a] = 0 THEN "idle" ELSE "coop")
          /\ UNCHANGED <<completed, effective>>
  /\ UNCHANGED <<goal, gen, outcome>>

\* Mutant of Admitted: the answer of wait_ready is trusted.
AdmittedOnTrust(a) == a \in Workers => ~cancelled[a]

Admitted(a) ==
  /\ ~paused
  /\ a \in Workers => generation = gen[a] /\ ~cancelled[a]

Acquire(a) ==
  /\ pc[a] = "acquire"
  /\ Exclusive /\ TrackerFree
  /\ IF Admitted(a) /\ migrating
     THEN /\ routing' = a
          /\ Goto(a, "batch")
          /\ budget' = IF a \in Workers
                       THEN [budget EXCEPT ![a] = [entries |-> effective[a],
                                                   shards |-> Unlimited, timed |-> Timed]]
                       ELSE budget
          /\ UNCHANGED <<goal, gen, completed, effective, outcome>>
     ELSE /\ AfterBatch(a, Admitted(a), FALSE)
          /\ UNCHANGED routing
  /\ UNCHANGED <<tracker, worker_generation, layout, state_lock, woken, control, finished>>

Spent(b) == b.entries = 0 \/ b.shards = 0

EndBatch(a) ==
  /\ pc[a] = "batch"
  /\ Spent(budget[a]) \/ (a \in Workers /\ cancelled[a])
  /\ \E overrun \in {FALSE, budget[a].timed} : AfterBatch(a, FALSE, overrun)
  /\ routing' = NoActor
  /\ UNCHANGED <<tracker, worker_generation, layout, state_lock, woken, control, finished>>

\* One turn of the loop: an entry of the current slot, and the slot when it is empty.
Turn(a) ==
  LET i == completed_shards + 1
      moved == IF sources[i] > 0 THEN 1 ELSE 0
      emptied == sources[i] = moved
      last == emptied /\ i = Len(sources)
      left == [budget[a] EXCEPT !.entries = @ - moved,
                                !.shards = IF emptied THEN @ - 1 ELSE @] IN
  /\ pc[a] = "batch"
  /\ ~Spent(budget[a])
  /\ a \in Workers => ~cancelled[a]
  /\ TrackerFree
  /\ moved_entries' = moved_entries + moved
  /\ completed_shards' = IF emptied THEN i ELSE completed_shards
  /\ IF last
     THEN /\ finish
          /\ \E overrun \in {FALSE, budget[a].timed} : AfterBatch(a, TRUE, overrun)
          /\ routing' = NoActor
     ELSE /\ sources' = [sources EXCEPT ![i] = @ - moved]
          /\ UNCHANGED <<generation, migrating, paused, complete, shard_count, finished, woken>>
          /\ \/ /\ budget' = [budget EXCEPT ![a] = left]
                /\ UNCHANGED <<pc, goal, gen, completed, effective, outcome, routing>>
             \/ /\ budget[a].timed    \* the pause budget is used up
                /\ \E overrun \in BOOLEAN : AfterBatch(a, FALSE, overrun)
                /\ routing' = NoActor
  /\ UNCHANGED <<worker_generation, state_lock, control>>
-----------------------------------------------------------------------------
(*****************************************************************************)
(* The end of a worker: the outcome is computed, then the lease is dropped.  *)
(* A panic of user code, or tokio's abort at an await, drops everything the  *)
(* worker holds.                                                             *)
(*****************************************************************************)
\* Mutant of FinalState: the generation of the telemetry is not compared.
FinalStateOfAny(w) == complete

FinalState(w) == generation = gen[w] /\ complete

Report(w) ==
  /\ pc[w] = "report" /\ TrackerFree
  /\ outcome' = [outcome EXCEPT ![w] =
                   IF completed[w] \/ FinalState(w) THEN "completed" ELSE "stopped"]
  /\ Goto(w, "release")
  /\ UNCHANGED <<tracker, worker_generation, layout, routing, state_lock, goal, budget, gen,
                 completed, effective, woken, control, finished>>

\* The worker's stack is gone: its lease is dropped and its locals no longer matter.
End(w) ==
  /\ release_worker(gen[w])
  /\ Goto(w, "ended")
  /\ completed' = [completed EXCEPT ![w] = FALSE]
  /\ effective' = [effective EXCEPT ![w] = 0]
  /\ budget' = [budget EXCEPT ![w] = NoBudget]
  /\ aborted' = [aborted EXCEPT ![w] = FALSE]
  /\ UNCHANGED <<tracker, layout, state_lock, goal, gen, cancelled, handle, finished>>

Release(w) ==
  /\ pc[w] = "release"
  /\ End(w)
  /\ UNCHANGED <<outcome, routing>>

Unwind(w, result) ==
  /\ End(w)
  /\ outcome' = [outcome EXCEPT ![w] = result]
  /\ routing' = IF routing = w THEN NoActor ELSE routing

WorkerPanics(w) ==
  /\ pc[w] = "batch"
  /\ Unwind(w, "panicked")

AbortTask(w) ==
  /\ aborted[w]
  /\ pc[w] \in {"wait", "asleep", "acquire", "batch"}
  /\ Unwind(w, "aborted")

RuntimeStops(w) ==
  /\ Async /\ pc[w] \in Live /\ ~aborted[w]
  /\ aborted' = [aborted EXCEPT ![w] = TRUE]
  /\ UNCHANGED <<tracker, worker_generation, layout, routing, state_lock, pc, locals, woken,
                 cancelled, handle, finished>>

\* cancel stores its flag without the mutex, then wakes; dropping a handle does
\* the same, and aborts a task.  Neither does anything to a worker that has ended.
Cancel(w, next) ==
  /\ handle[w] = "held" /\ pc[w] # "ended"
  /\ cancelled' = [cancelled EXCEPT ![w] = TRUE]
  /\ handle' = [handle EXCEPT ![w] = next]
  /\ UNCHANGED <<tracker, worker_generation, layout, routing, state_lock, pc, locals, woken,
                 aborted, finished>>

CancelWake(w) ==
  /\ handle[w] \in {"cancelling", "dropping"}
  /\ wake
  /\ handle' = [handle EXCEPT ![w] = IF @ = "dropping" THEN "none" ELSE "held"]
  /\ aborted' = [aborted EXCEPT ![w] = 
                   @ \/ (Async /\ handle[w] = "dropping" /\ pc[w] \in Live)]
  /\ UNCHANGED <<tracker, worker_generation, layout, routing, state_lock, pc, locals,
                 cancelled, finished>>

\* join returns the outcome, or the handle was dropped before.
Join(w) ==
  /\ pc[w] = "ended" /\ handle[w] \in {"held", "none"}
  /\ Goto(w, "idle")
  /\ handle' = [handle EXCEPT ![w] = "none"]
  /\ cancelled' = [cancelled EXCEPT ![w] = FALSE]
  /\ gen' = [gen EXCEPT ![w] = NoGeneration]
  /\ outcome' = [outcome EXCEPT ![w] = "none"]
  /\ UNCHANGED <<tracker, worker_generation, layout, routing, state_lock, goal, budget, completed,
                 effective, woken, aborted, finished>>
-----------------------------------------------------------------------------
(*****************************************************************************)
(* Callers: advance_rebalance(n), advance_rebalance_with_options, and the    *)
(* loop of rebalance_to with background = true.                              *)
(*****************************************************************************)
CallerBudget == {[entries |-> Unlimited, shards |-> 1, timed |-> FALSE],
                 [entries |-> BatchSize, shards |-> Unlimited, timed |-> Timed]}

Advance(c) ==
  /\ pc[c] = "idle"
  /\ \E b \in CallerBudget : budget' = [budget EXCEPT ![c] = b]
  /\ Goto(c, "acquire")
  /\ UNCHANGED <<tracker, worker_generation, layout, routing, state_lock, goal, gen, completed,
                 effective, outcome, woken, control, finished>>

RebalanceTo(c, target) ==
  /\ pc[c] = "idle" /\ generation < MaxGen
  /\ goal' = [goal EXCEPT ![c] = target]
  /\ Goto(c, "coop")
  /\ UNCHANGED <<tracker, worker_generation, layout, routing, state_lock, budget, gen, completed,
                 effective, outcome, woken, control, finished>>

CoopCheck(c) ==
  /\ pc[c] = "coop"
  /\ Exclusive /\ TrackerFree
  /\ IF ~migrating /\ shard_count = goal[c]
     THEN /\ Goto(c, "idle")
          /\ goal' = [goal EXCEPT ![c] = 0]
     ELSE /\ Goto(c, "resume")
          /\ UNCHANGED goal
  /\ IF migrating \/ shard_count = goal[c]
     THEN UNCHANGED <<tracker, layout, woken, finished>>
     ELSE begin_with_counts(goal[c])
  /\ UNCHANGED <<worker_generation, routing, state_lock, budget, gen, completed, effective,
                 outcome, control>>

\* Mutant of CoopResume: a paused migration is left paused.
CoopKeepsPause(c) ==
  /\ pc[c] = "resume"
  /\ Goto(c, "acquire")
  /\ budget' = [budget EXCEPT ![c] = [entries |-> BatchSize, shards |-> Unlimited, timed |-> Timed]]
  /\ UNCHANGED <<tracker, woken, worker_generation, layout, routing, state_lock, goal, gen,
                 completed, effective, outcome, control, finished>>

CoopResume(c) ==
  /\ pc[c] = "resume"
  /\ IF migrating THEN set_paused(FALSE) ELSE UNCHANGED <<tracker, woken>>
  /\ Goto(c, "acquire")
  /\ budget' = [budget EXCEPT ![c] = [entries |-> BatchSize, shards |-> Unlimited, timed |-> Timed]]
  /\ UNCHANGED <<worker_generation, layout, routing, state_lock, goal, gen, completed,
                 effective, outcome, control, finished>>

\* User code panics in a batch; a future is dropped at one of its awaits.
CallerUnwinds(c) ==
  /\ pc[c] \in {"batch"} \cup (IF Async THEN {"coop", "acquire"} ELSE {})
  /\ routing' = IF routing = c THEN NoActor ELSE routing
  /\ Goto(c, "idle")
  /\ goal' = [goal EXCEPT ![c] = 0]
  /\ budget' = [budget EXCEPT ![c] = NoBudget]
  /\ UNCHANGED <<tracker, worker_generation, layout, state_lock, gen, completed, effective,
                 outcome, woken, control, finished>>
-----------------------------------------------------------------------------
BatchStep(a) == Acquire(a) \/ Turn(a) \/ EndBatch(a)

WorkerStep(w) ==
  \/ Spawned(w) \/ SpawnError(w)
  \/ Register(w) \/ WaitReady(w) \/ ReadTelemetry(w) \/ IsMigrating(w)
  \/ Doze(w) \/ WakeUp(w)
  \/ BatchStep(w)
  \/ Report(w) \/ Release(w)

CallerStep(c) == BatchStep(c) \/ CoopCheck(c) \/ CoopResume(c)

UserStep ==
  \/ \E target \in Counts : StartOnline(target) \/ StopTheWorld(target)
  \/ Clear \/ PauseRebalance \/ ResumeRebalance \/ Promote
  \/ \E w \in Workers :
       \/ \E target \in Counts : Spawn(w, target)
       \/ \E next \in {"cancelling", "dropping"} : Cancel(w, next)
       \/ Join(w)
  \/ \E c \in Callers : Advance(c) \/ \E target \in Counts : RebalanceTo(c, target)

Failure ==
  \/ \E w \in Workers : SpawnFails(w) \/ WorkerPanics(w) \/ RuntimeStops(w)
  \/ \E c \in Callers : CallerUnwinds(c)

Next ==
  \/ \E w \in Workers : WorkerStep(w) \/ CancelWake(w) \/ AbortTask(w)
  \/ \E c \in Callers : CallerStep(c)
  \/ UserStep
  \/ Failure

(*****************************************************************************)
(* Fairness: threads and tasks that can run do, and a lock that is free      *)
(* again and again is granted to each waiter in the end.  Users need never   *)
(* call anything, but a call once made runs to its end.                      *)
(*****************************************************************************)
Fairness ==
  /\ \A w \in Workers : /\ SF_vars(WorkerStep(w))
                        /\ SF_vars(CancelWake(w))
                        /\ WF_vars(AbortTask(w))
  /\ \A c \in Callers : SF_vars(CallerStep(c))

Safety == Init /\ [][Next]_vars
Spec   == Safety /\ Fairness
-----------------------------------------------------------------------------
PCs  == Live \cup {"idle", "ended", "spawn_failed", "coop", "resume"}

(*****************************************************************************)
(* One supervised worker at a time (RebalanceError: "A supervised worker     *)
(* already owns the migration"): the lease names the generation of the one   *)
(* worker that has not released it, and once join has returned it is free.   *)
(*****************************************************************************)
LeaseMatches ==
  /\ \A w \in Workers : pc[w] \in Live => worker_generation = gen[w]
  /\ \A v, w \in Workers : pc[v] \in Live /\ pc[w] \in Live => v = w
  /\ worker_generation # NoGeneration => \E w \in Workers : pc[w] \in Live

\* At most one worker runs.
OneWorker == \A v, w \in Workers : pc[v] \in Live /\ pc[w] \in Live => v = w

(*****************************************************************************)
(* A batch commits only to a migration that is under way and not paused,     *)
(* and a worker only to the one it was spawned for, although that was        *)
(* checked before routing was taken.  Slots are drained in order.            *)
(*****************************************************************************)
BatchAdmitted ==
  /\ \A a \in Actors :
       pc[a] = "batch" =>
         /\ routing = a /\ migrating /\ ~paused
         /\ a \in Workers => gen[a] = generation
  /\ migrating => completed_shards < Len(sources)
  /\ \A i \in DOMAIN sources : i <= completed_shards => sources[i] = 0

\* pause_rebalance: once it has returned, nothing is moved until a resume.
PauseHolds ==
  [][paused /\ paused' => UNCHANGED <<moved_entries, completed_shards>>]_vars

(*****************************************************************************)
(* RebalanceOutcome::completed: TRUE only if the worker's own migration ran  *)
(* to its end, "False when cancelled or superseded".                         *)
(*****************************************************************************)
OutcomeTruthful ==
  \A w \in Workers :
    /\ outcome[w] = "completed" => gen[w] \in finished
    /\ outcome[w] = "stopped" => cancelled[w] \/ gen[w] # generation

(*****************************************************************************)
(* What makes these inductive.  A generation is finished or under way; a     *)
(* worker's generation is a past or the present one; a worker that is about  *)
(* to report has seen one of the reasons there are to stop.                  *)
(*****************************************************************************)
Generations ==
  /\ finished \subseteq 0..generation /\ 0 \in finished
  /\ migrating <=> generation \notin finished
  /\ ~migrating => complete \/ generation = 0
  /\ complete => ~migrating

Reasons ==
  \A w \in Workers :
    /\ pc[w] \in Live => gen[w] \in 0..generation
    /\ gen[w] <= generation
    /\ completed[w] => gen[w] \in finished
    /\ pc[w] \in Live /\ gen[w] = 0 => completed[w]
    /\ pc[w] = "report" => completed[w] \/ ~Current(w)
    /\ SpawnMayFail \/ pc[w] # "spawn_failed"
    /\ pc[w] \in {"idle", "spawning", "spawn_failed"} => outcome[w] = "none"
    /\ pc[w] = "ended" => ~completed[w]

\* A cancelled worker ends, even one that is paused or about to sleep.
CancelEnds == \A w \in Workers : cancelled[w] ~> pc[w] \notin Live

\* A worker ends once its migration is no longer paused over and over.
WorkerEnds == <>[](~paused) => \A w \in Workers : pc[w] \in Live ~> pc[w] \notin Live

\* Somebody starts a migration that leads away from where c wants the layout.
Diverts(c) == goal[c] # 0 /\ generation' # generation /\ shard_count' # goal[c]

(*****************************************************************************)
(* rebalance_to with background = true returns, whoever paused the migration *)
(* it waits for, once pauses and migrations to other targets cease.  Both    *)
(* conditions are needed: its loop returns only if it finds the layout at    *)
(* its target with nothing migrating.  Of two such calls with different      *)
(* targets, each starts a migration to its own as soon as the other's has    *)
(* ended, and both may go on for ever although nobody pauses anything and    *)
(* every thread runs.                                                        *)
(*****************************************************************************)
CoopReturns ==
  \A c \in Callers :
    <>[][~PauseRebalance /\ ~Diverts(c)]_vars => (goal[c] # 0 ~> goal[c] = 0)
=============================================================================
