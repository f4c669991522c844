------------------------- MODULE EvictionScheduler -------------------------
(*****************************************************************************)
(* The periodic eviction worker (eviction/scheduler.rs): its registration,   *)
(* the control block it shares with its handle, cancellation by the handle   *)
(* and by the last external owner of the map, and how it ends.  A map runs   *)
(* its workers either all as threads or all as Tokio tasks.                  *)
(*                                                                           *)
(* The registry's Weak<Control> upgrades as long as the lease lives, and the *)
(* lease clears it, so `active` names the worker itself.  What a tick evicts *)
(* and how many were counted is left out.  A refused start changes nothing.  *)
(*****************************************************************************)
EXTENDS Naturals

CONSTANTS Workers,    \* one for each successful claim
          NoWorker

ASSUME SchedulerAssumption == NoWorker \notin Workers

VARIABLES
  kind,                        \* "thread" or "task"
  background,                  \* EvictionConfig::background_enabled
  generation, active, last,    \* Registration; last as generation and stop reason
  gen, running, stop,          \* Control::progress of each worker
  pc, phase,                   \* each worker: its step, and what it waits for
  rung, bells,                 \* Notify: seen by an enabled waiter; notifications to come
  exit,                        \* how its thread or task ended
  handle, aborted, outcome,    \* its handle, JoinHandle::abort, what join returned
  owner, found                 \* SchedulerOwner::drop, and the worker it found

registry == <<generation, active, last>>
progress == <<gen, running, stop>>
work     == <<pc, phase, rung>>
handles  == <<handle, aborted, outcome>>
external == <<owner, found>>
fixed    == <<kind, background>>
vars == <<fixed, registry, progress, work, bells, exit, handles, external>>

Stops == {"cancelled", "owners_dropped", "panicked", "runtime_stopped", "spawn_failed"}

Status(w) == [generation |-> gen[w], stop |-> stop[w]]

Init ==
  /\ kind \in {"thread", "task"} /\ background \in BOOLEAN
  /\ generation = 0 /\ active = NoWorker
  /\ last = [generation |-> 0, stop |-> "none"]
  /\ gen = [w \in Workers |-> 0]
  /\ running = [w \in Workers |-> FALSE]
  /\ stop = [w \in Workers |-> "none"]
  /\ pc = [w \in Workers |-> "idle"]
  /\ phase = [w \in Workers |-> "delay"]
  /\ rung = [w \in Workers |-> FALSE] /\ bells = {}
  /\ exit = [w \in Workers |-> "none"]
  /\ handle = [w \in Workers |-> "none"]
  /\ aborted = [w \in Workers |-> FALSE]
  /\ outcome = [w \in Workers |-> "none"]
  /\ owner = "held" /\ found = NoWorker

Goto(w, l) == pc' = [pc EXCEPT ![w] = l]
-----------------------------------------------------------------------------
(*****************************************************************************)
(* start_sync_with, start_async.  With background_enabled the first start is *)
(* the constructor's: nobody else has the map yet, and its failure leaves no *)
(* map.                                                                      *)
(*****************************************************************************)
Automatic(w) == background /\ gen[w] = 1

Built == \A w \in Workers : ~(Automatic(w) /\ handle[w] \in {"starting", "failed"})

\* Mutant of Free: a worker that has begun to finish does not count any more.
FreeOnceStopped == \A w \in Workers : active = w => ~running[w]

Free == active = NoWorker

Claim(w) ==
  /\ handle[w] = "none" /\ owner = "held" /\ Built
  /\ Free
  /\ generation' = generation + 1
  /\ active' = w /\ last' = last
  /\ gen' = [gen EXCEPT ![w] = generation + 1]
  /\ running' = [running EXCEPT ![w] = TRUE]
  /\ stop' = stop
  /\ Goto(w, "claimed")
  /\ handle' = [handle EXCEPT ![w] = "starting"]
  /\ UNCHANGED <<fixed, phase, rung, bells, exit, aborted, outcome, external>>

Spawn(w) ==
  /\ pc[w] = "claimed"
  /\ Goto(w, "spawned")
  /\ handle' = [handle EXCEPT ![w] = IF Automatic(w) THEN "automatic" ELSE "held"]
  /\ UNCHANGED <<fixed, registry, progress, phase, rung, bells, exit, aborted, outcome,
                  external>>

\* The loop is left.  What the worker waited for and who would wake it is over.
Leave(w, how) ==
  /\ Goto(w, "leaving")
  /\ exit' = [exit EXCEPT ![w] = how]
  /\ phase' = [phase EXCEPT ![w] = "delay"]
  /\ rung' = [rung EXCEPT ![w] = FALSE] /\ bells' = bells \ {w}

Stay == UNCHANGED <<exit, phase, rung, bells>>

\* Builder::spawn drops the closure, and the lease in it, before it returns the error.
SpawnFails(w) ==
  /\ pc[w] = "claimed" /\ kind = "thread"
  /\ Leave(w, "dropped")
  /\ UNCHANGED <<fixed, registry, progress, handles, external>>

StartFails(w) ==
  /\ handle[w] = "starting" /\ pc[w] = "ended"
  /\ handle' = [handle EXCEPT ![w] = "failed"]
  /\ UNCHANGED <<fixed, registry, progress, work, bells, exit, aborted, outcome, external>>

Begin(w) ==
  /\ pc[w] = "spawned"
  /\ Goto(w, "wait")
  /\ UNCHANGED <<fixed, registry, progress, phase, rung, bells, exit, handles, external>>
-----------------------------------------------------------------------------
(*****************************************************************************)
(* A thread: wait_interval, then a tick that cannot be interrupted.          *)
(*****************************************************************************)
WaitInterval(w) ==
  /\ kind = "thread" /\ pc[w] = "wait"
  /\ \/ stop[w] = "none" /\ Goto(w, "asleep") /\ Stay
     \/ stop[w] # "none" /\ Leave(w, "returned")
  /\ UNCHANGED <<fixed, registry, progress, handles, external>>

IntervalElapses(w) ==
  /\ kind = "thread" /\ pc[w] = "asleep"
  /\ \/ stop[w] = "none" /\ Goto(w, "ticking") /\ Stay
     \/ stop[w] # "none" /\ Leave(w, "returned")
  /\ UNCHANGED <<fixed, registry, progress, handles, external>>

TickEnds(w) ==
  /\ pc[w] = "ticking"
  /\ \/ Goto(w, "wait") /\ Stay
     \/ Leave(w, "panicked")
  /\ UNCHANGED <<fixed, registry, progress, handles, external>>
-----------------------------------------------------------------------------
(*****************************************************************************)
(* A task: until_stopped(delay), then until_stopped(tick()).  Each poll      *)
(* looks at the stop reason, the Notified, and then the work itself.         *)
(*****************************************************************************)
Enable(w) ==
  /\ kind = "task" /\ pc[w] = "wait"
  /\ Goto(w, "enabled")
  /\ rung' = [rung EXCEPT ![w] = FALSE]
  /\ UNCHANGED <<fixed, registry, progress, phase, bells, exit, handles, external>>

CheckStop(w) ==
  /\ pc[w] = "enabled"
  /\ \/ stop[w] = "none" /\ Goto(w, "checked") /\ Stay
     \/ stop[w] # "none" /\ Leave(w, "returned")
  /\ UNCHANGED <<fixed, registry, progress, handles, external>>

\* After a tick the next deadline may not be representable any more, and the loop ends.
PollWork(w) ==
  /\ pc[w] = "checked"
  /\ \/ rung[w] /\ Leave(w, "returned")
     \/ ~rung[w] /\ Goto(w, "asleep") /\ Stay
     \/ /\ ~rung[w] /\ Goto(w, "wait") /\ UNCHANGED <<exit, rung, bells>>
        /\ phase' = [phase EXCEPT ![w] = IF @ = "delay" THEN "tick" ELSE "delay"]
     \/ ~rung[w] /\ phase[w] = "tick" /\ (Leave(w, "returned") \/ Leave(w, "panicked"))
  /\ UNCHANGED <<fixed, registry, progress, handles, external>>

Woken(w) ==
  /\ kind = "task" /\ pc[w] = "asleep"
  /\ Goto(w, "enabled")
  /\ UNCHANGED <<fixed, registry, progress, phase, rung, bells, exit, handles, external>>

\* An aborted task is dropped where it waits, or before it ever ran; so is every task
\* of a runtime that shuts down, perhaps while the thread that drops it unwinds.
TaskAborted(w) ==
  /\ kind = "task" /\ pc[w] \in {"spawned", "asleep"} /\ aborted[w]
  /\ Leave(w, "dropped")
  /\ UNCHANGED <<fixed, registry, progress, handles, external>>

RuntimeStops(w) ==
  /\ kind = "task" /\ pc[w] \in {"spawned", "asleep"}
  /\ Leave(w, "dropped") \/ Leave(w, "unwound")
  /\ UNCHANGED <<fixed, registry, progress, handles, external>>
-----------------------------------------------------------------------------
(*****************************************************************************)
(* WorkerLease::finish: first the control block, then the registry.          *)
(*****************************************************************************)
unexpected_stop == IF kind = "thread" THEN "spawn_failed" ELSE "runtime_stopped"

FinalReason(w) ==
  IF exit[w] \in {"panicked", "unwound"} THEN "panicked"
  ELSE IF stop[w] = "none" THEN unexpected_stop
  ELSE stop[w]

\* Mutant of Finish: the registration is left to whoever claims next.
FinishUnreleased(w) ==
  /\ pc[w] = "leaving"
  /\ running' = [running EXCEPT ![w] = FALSE]
  /\ stop' = [stop EXCEPT ![w] = FinalReason(w)]
  /\ Goto(w, "ended")
  /\ UNCHANGED <<fixed, registry, gen, phase, rung, bells, exit, handles, external>>

Finish(w) ==
  /\ pc[w] = "leaving"
  /\ running' = [running EXCEPT ![w] = FALSE]
  /\ stop' = [stop EXCEPT ![w] = FinalReason(w)]
  /\ Goto(w, "releasing")
  /\ UNCHANGED <<fixed, registry, gen, phase, rung, bells, exit, handles, external>>

Release(w) ==
  /\ pc[w] = "releasing"
  /\ Goto(w, "ended")
  /\ IF generation = gen[w]
     THEN active' = NoWorker /\ last' = Status(w)
     ELSE UNCHANGED <<active, last>>
  /\ UNCHANGED <<fixed, generation, progress, phase, rung, bells, exit, handles, external>>
-----------------------------------------------------------------------------
(*****************************************************************************)
(* Control::cancel: the reason is stored under the mutex, and who waits is   *)
(* notified after it is released.  Condvar::notify_all reaches a thread that *)
(* sleeps, Notify::notify_waiters a task from the moment it is enabled.      *)
(*****************************************************************************)
\* Mutant of Requested: the last request wins.
RequestedLast(w, reason) == IF running[w] THEN [stop EXCEPT ![w] = reason] ELSE stop

Requested(w, reason) ==
  IF running[w] /\ stop[w] = "none" THEN [stop EXCEPT ![w] = reason] ELSE stop

cancel(w, reason) ==
  /\ stop' = Requested(w, reason)
  /\ bells' = IF pc[w] \in {"leaving", "releasing", "ended"} THEN bells ELSE bells \cup {w}

\* Mutant of Listening: a task listens only once it sleeps.
ListeningAsleep(w) == pc[w] = "asleep"

Listening(w) == pc[w] \in {"enabled", "checked", "asleep"}

Notify(w) ==
  /\ w \in bells
  /\ bells' = bells \ {w}
  /\ rung' = [rung EXCEPT ![w] = @ \/ (kind = "task" /\ Listening(w))]
  /\ pc' = IF pc[w] = "asleep"
           THEN [pc EXCEPT ![w] = IF kind = "thread" THEN "wait" ELSE "enabled"]
           ELSE pc
  /\ UNCHANGED <<fixed, registry, progress, phase, exit, handles, external>>

CancelHandle(w) ==
  /\ handle[w] = "held"
  /\ cancel(w, "cancelled")
  /\ UNCHANGED <<fixed, registry, gen, running, work, exit, handles, external>>

\* A task's handle aborts it as well, also when it is dropped inside a pending join.
Dropped(w) ==
  /\ cancel(w, "cancelled")
  /\ handle' = [handle EXCEPT ![w] = "dropped"]
  /\ aborted' = [aborted EXCEPT ![w] = kind = "task"]

DropHandle(w) ==
  /\ handle[w] = "held" \/ (handle[w] = "joining" /\ kind = "task")
  /\ Dropped(w)
  /\ UNCHANGED <<fixed, registry, gen, running, work, exit, outcome, external>>

Join(w) ==
  /\ handle[w] = "held"
  /\ handle' = [handle EXCEPT ![w] = "joining"]
  /\ UNCHANGED <<fixed, registry, progress, work, bells, exit, aborted, outcome, external>>

JoinReturns(w) ==
  /\ handle[w] = "joining" /\ pc[w] = "ended"
  /\ handle' = [handle EXCEPT ![w] = "joined"]
  /\ outcome' = [outcome EXCEPT ![w] =
       CASE exit[w] = "panicked" -> "worker_panicked"
         [] exit[w] = "returned" \/ stop[w] \in {"cancelled", "owners_dropped"} -> "status"
         [] OTHER -> "worker_cancelled"]
  /\ UNCHANGED <<fixed, registry, progress, work, bells, exit, aborted, external>>
-----------------------------------------------------------------------------
(*****************************************************************************)
(* SchedulerOwner::drop, when the last external map goes.  Starting a worker *)
(* borrows an external map, so no start is under way.                        *)
(*****************************************************************************)
OwnerDrop ==
  /\ owner = "held"
  /\ \A w \in Workers : handle[w] # "starting"
  /\ owner' = "cancel" /\ found' = active
  /\ UNCHANGED <<fixed, registry, progress, work, bells, exit, handles>>

\* Mutant of OwnerCancel: only the automatic worker is told.
OwnerCancelNobody ==
  /\ owner = "cancel"
  /\ owner' = "automatic" /\ found' = NoWorker
  /\ UNCHANGED <<fixed, registry, progress, bells, work, exit, handles>>

OwnerCancel ==
  /\ owner = "cancel"
  /\ owner' = "automatic" /\ found' = NoWorker
  /\ IF found = NoWorker THEN UNCHANGED <<stop, bells>>
     ELSE cancel(found, "owners_dropped")
  /\ UNCHANGED <<fixed, registry, gen, running, work, exit, handles>>

OwnerGone ==
  /\ owner = "automatic"
  /\ owner' = "gone" /\ found' = found
  /\ \/ \E w \in Workers : handle[w] = "automatic" /\ Dropped(w)
     \/ /\ \A w \in Workers : handle[w] # "automatic"
        /\ UNCHANGED <<stop, bells, handle, aborted>>
  /\ UNCHANGED <<fixed, registry, gen, running, work, exit, outcome>>
-----------------------------------------------------------------------------
WorkerStep(w) ==
  \/ Begin(w) \/ WaitInterval(w) \/ TickEnds(w)
  \/ Enable(w) \/ CheckStop(w) \/ PollWork(w) \/ TaskAborted(w)
  \/ Finish(w) \/ Release(w)

Next ==
  \/ \E w \in Workers :
       \/ Claim(w) \/ Spawn(w) \/ SpawnFails(w) \/ StartFails(w)
       \/ WorkerStep(w) \/ IntervalElapses(w) \/ Woken(w) \/ RuntimeStops(w)
       \/ Notify(w) \/ CancelHandle(w) \/ DropHandle(w) \/ Join(w) \/ JoinReturns(w)
  \/ OwnerDrop \/ OwnerCancel \/ OwnerGone

(*****************************************************************************)
(* Fairness: threads and tasks that can run do, a tick of a thread ends, a   *)
(* call of cancel gets to its notification, a drop to its end.  An interval  *)
(* may be as long as it likes, so no clock wakes a worker for sure.          *)
(*****************************************************************************)
Fairness ==
  /\ \A w \in Workers : WF_vars(WorkerStep(w)) /\ WF_vars(Notify(w)) /\ WF_vars(Spawn(w))
  /\ WF_vars(OwnerCancel) /\ WF_vars(OwnerGone)

Safety == Init /\ [][Next]_vars
Spec   == Safety /\ Fairness
-----------------------------------------------------------------------------
Leased(w) == pc[w] \notin {"idle", "ended"}

(*****************************************************************************)
(* "Another worker is registered": the registry names a worker exactly while *)
(* it holds its lease, so one runs at a time, and none blocks the next start *)
(* once it has ended.  With no worker the status is the last one's.          *)
(*****************************************************************************)
LeaseMatches ==
  /\ \A w \in Workers : Leased(w) <=> active = w
  /\ \A w \in Workers : active = w => gen[w] = generation
  /\ active = NoWorker => last.generation = generation

(*****************************************************************************)
(* What join reports is final, and the worker's place is free again: the     *)
(* next start is refused only for a newer worker.                            *)
(*****************************************************************************)
JoinedIsReleased ==
  \A w \in Workers : outcome[w] # "none" =>
    /\ ~running[w] /\ stop[w] # "none"
    /\ active # w /\ last.generation >= gen[w]

(*****************************************************************************)
(* A stop reason is never replaced, except by a panic: the automatic handle  *)
(* that is dropped after its map does not turn owners_dropped to cancelled.  *)
(*****************************************************************************)
FirstReasonKept ==
  [][\A w \in Workers : stop[w] # "none" => stop'[w] \in {stop[w], "panicked"}]_vars

\* Whoever is told to stop does, however long its interval is.
CancelEnds == \A w \in Workers : stop[w] # "none" ~> pc[w] = "ended"

\* "Dropping the last external map clone stops periodic work."
OwnersEnd == owner = "gone" ~> \A w \in Workers : ~Leased(w)

(*****************************************************************************)
(* EvictionWorkerStatus::running, "whether the worker still owns its         *)
(* registration, including cancellation cleanup".                            *)
(*****************************************************************************)
RunningMeansRegistered == active # NoWorker => running[active]
=============================================================================
