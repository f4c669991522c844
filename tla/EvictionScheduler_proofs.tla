---------------------- MODULE EvictionScheduler_proofs ----------------------
(*****************************************************************************)
(* Proofs about the eviction scheduler, for any number of starts, of threads *)
(* or of tasks.                                                              *)
(*****************************************************************************)
EXTENDS EvictionScheduler, TLAPS

\* The types of the variables, as far as the other invariants need them.
Shape ==
  /\ generation \in Nat /\ last.generation \in Nat
  /\ gen \in [Workers -> Nat] /\ running \in [Workers -> BOOLEAN]
  /\ DOMAIN stop = Workers /\ DOMAIN pc = Workers
  /\ DOMAIN handle = Workers /\ DOMAIN outcome = Workers
  /\ active \in Workers \cup {NoWorker} /\ found \in Workers \cup {NoWorker}

\* What a worker's step says of its control block, its handle and the registry.
Lifecycle ==
  \A w \in Workers :
    /\ pc[w] = "idle" <=> handle[w] = "none"
    /\ running[w] <=> pc[w] \notin {"idle", "releasing", "ended"}
    /\ pc[w] \in {"releasing", "ended"} => stop[w] # "none"
    /\ gen[w] <= generation
    /\ pc[w] = "ended" => gen[w] <= last.generation
    /\ outcome[w] # "none" => pc[w] = "ended"

Inv == Shape /\ Lifecycle /\ LeaseMatches

(*****************************************************************************)
(* A registry as SchedulerRegistry::new leaves it satisfies the invariant.   *)
(*****************************************************************************)
LEMMA InvInit == Init => Inv
  BY SchedulerAssumption DEF Init, Inv, Shape, Lifecycle, LeaseMatches, Leased

\* A step that neither claims nor releases, and ends nobody.
LEMMA WorkerMoves ==
  ASSUME Inv, NEW w \in Workers, NEW l,
         Leased(w), l \notin {"idle", "releasing", "ended"},
         pc[w] \notin {"releasing", "ended"},
         pc' = [pc EXCEPT ![w] = l],
         UNCHANGED <<registry, progress, handles, external>>
  PROVE  Inv'
  BY DEF Inv, Shape, Lifecycle, LeaseMatches, Leased, registry, progress, handles, external

\* A step of a handle or of the owner: it may store a stop reason, and no more.
LEMMA Requests ==
  ASSUME Inv, UNCHANGED <<registry, gen, running, pc>>,
         DOMAIN stop' = Workers, \A w \in Workers : stop[w] # "none" => stop'[w] = stop[w],
         DOMAIN handle' = Workers,
         \A w \in Workers : handle'[w] = "none" <=> handle[w] = "none",
         DOMAIN outcome' = Workers,
         \A w \in Workers : outcome'[w] # "none" => pc[w] = "ended",
         found' \in Workers \cup {NoWorker}
  PROVE  Inv'
  BY DEF Inv, Shape, Lifecycle, LeaseMatches, Leased, registry

\* Control::cancel keeps the first reason.
LEMMA CancelKeeps ==
  ASSUME Inv, NEW w \in Workers, NEW reason, cancel(w, reason)
  PROVE  DOMAIN stop' = Workers /\ \A v \in Workers : stop[v] # "none" => stop'[v] = stop[v]
  BY DEF Inv, Shape, cancel, Requested

(*****************************************************************************)
(* Every step keeps the registry in agreement with the leases: only a claim  *)
(* and the second half of WorkerLease::finish change it.                     *)
(*****************************************************************************)
LEMMA InvNext == Inv /\ [Next]_vars => Inv'
<1>. SUFFICES ASSUME Inv, [Next]_vars PROVE Inv'
  OBVIOUS
<1>1. ASSUME NEW w \in Workers, Claim(w) PROVE Inv'
  BY <1>1, SchedulerAssumption
  DEF Claim, Free, Goto, external, Inv, Shape, Lifecycle, LeaseMatches, Leased
<1>2. ASSUME NEW w \in Workers, Spawn(w) PROVE Inv'
  BY <1>2 DEF Spawn, Goto, registry, progress, external,
             Inv, Shape, Lifecycle, LeaseMatches, Leased
<1>3. ASSUME NEW w \in Workers, SpawnFails(w) PROVE Inv'
  BY <1>3, WorkerMoves DEF SpawnFails, Leave, Goto, Leased
<1>4. ASSUME NEW w \in Workers, Begin(w) PROVE Inv'
  BY <1>4, WorkerMoves DEF Begin, Goto, Leased
<1>5. ASSUME NEW w \in Workers, WaitInterval(w) PROVE Inv'
  BY <1>5, WorkerMoves DEF WaitInterval, Leave, Goto, Leased
<1>6. ASSUME NEW w \in Workers, IntervalElapses(w) PROVE Inv'
  BY <1>6, WorkerMoves DEF IntervalElapses, Leave, Goto, Leased
<1>7. ASSUME NEW w \in Workers, TickEnds(w) PROVE Inv'
  BY <1>7, WorkerMoves DEF TickEnds, Leave, Goto, Leased
<1>8. ASSUME NEW w \in Workers, Enable(w) PROVE Inv'
  BY <1>8, WorkerMoves DEF Enable, Goto, Leased
<1>9. ASSUME NEW w \in Workers, CheckStop(w) PROVE Inv'
  BY <1>9, WorkerMoves DEF CheckStop, Leave, Goto, Leased
<1>10. ASSUME NEW w \in Workers, PollWork(w) PROVE Inv'
  BY <1>10, WorkerMoves DEF PollWork, Leave, Goto, Leased
<1>11. ASSUME NEW w \in Workers, Woken(w) PROVE Inv'
  BY <1>11, WorkerMoves DEF Woken, Goto, Leased
<1>12. ASSUME NEW w \in Workers, TaskAborted(w) PROVE Inv'
  BY <1>12, WorkerMoves DEF TaskAborted, Leave, Goto, Leased
<1>13. ASSUME NEW w \in Workers, RuntimeStops(w) PROVE Inv'
  BY <1>13, WorkerMoves DEF RuntimeStops, Leave, Goto, Leased
<1>14. ASSUME NEW w \in Workers, Finish(w) PROVE Inv'
  <2>1. FinalReason(w) # "none"
    BY DEF FinalReason, unexpected_stop
  <2>. QED
    BY <1>14, <2>1 DEF Finish, Goto, registry, handles, external,
       Inv, Shape, Lifecycle, LeaseMatches, Leased
<1>15. ASSUME NEW w \in Workers, Release(w) PROVE Inv'
  <2>1. active = w /\ gen[w] = generation
    BY <1>15 DEF Release, Inv, LeaseMatches, Leased
  <2>2. /\ active' = NoWorker /\ last'.generation = generation
        /\ pc' = [pc EXCEPT ![w] = "ended"] /\ pc[w] = "releasing"
        /\ UNCHANGED <<generation, gen, running, stop, handle, outcome, found>>
    BY <1>15, <2>1 DEF Release, Status, Goto, progress, handles, external
  <2>. QED
    BY <2>1, <2>2, SchedulerAssumption DEF Inv, Shape, Lifecycle, LeaseMatches, Leased
<1>16. ASSUME NEW w \in Workers, Notify(w) PROVE Inv'
  <2>1. CASE pc[w] = "asleep"
    BY <1>16, <2>1, WorkerMoves DEF Notify, Leased
  <2>2. CASE pc[w] # "asleep"
    BY <1>16, <2>2 
    DEF Notify, registry, progress, handles, external, Inv, Shape, Lifecycle, LeaseMatches, Leased
  <2>. QED
    BY <2>1, <2>2
<1>17. ASSUME NEW w \in Workers, CancelHandle(w) PROVE Inv'
  <2>1. cancel(w, "cancelled")
    BY <1>17 DEF CancelHandle
  <2>2. DOMAIN stop' = Workers /\ \A v \in Workers : stop[v] # "none" => stop'[v] = stop[v]
    BY <2>1, CancelKeeps
  <2>. QED
    BY <1>17, <2>2, Requests DEF CancelHandle, handles, work, external, Inv, Shape, Lifecycle
<1>18. ASSUME NEW w \in Workers, DropHandle(w) PROVE Inv'
  <2>1. cancel(w, "cancelled")
    BY <1>18 DEF DropHandle, Dropped
  <2>2. DOMAIN stop' = Workers /\ \A v \in Workers : stop[v] # "none" => stop'[v] = stop[v]
    BY <2>1, CancelKeeps
  <2>. QED
    BY <1>18, <2>2, Requests DEF DropHandle, Dropped, work, external, Inv, Shape, Lifecycle
<1>19. ASSUME NEW w \in Workers, StartFails(w) PROVE Inv'
  BY <1>19, Requests DEF StartFails, progress, work, external, Inv, Shape, Lifecycle
<1>20. ASSUME NEW w \in Workers, Join(w) PROVE Inv'
  BY <1>20, Requests DEF Join, progress, work, external, Inv, Shape, Lifecycle
<1>21. ASSUME NEW w \in Workers, JoinReturns(w) PROVE Inv'
  <2>1. /\ pc[w] = "ended" /\ handle[w] = "joining" /\ handle' = [handle EXCEPT ![w] = "joined"]
        /\ DOMAIN outcome' = DOMAIN outcome
        /\ \A v \in DOMAIN outcome : v # w => outcome'[v] = outcome[v]
        /\ UNCHANGED <<registry, gen, running, stop, pc, found>>
    BY <1>21 DEF JoinReturns, progress, work, external
  <2>. QED
    BY <2>1, Requests DEF Inv, Shape, Lifecycle
<1>22. CASE OwnerDrop
  BY <1>22, Requests DEF OwnerDrop, progress, work, handles, Inv, Shape, Lifecycle, LeaseMatches
<1>23. CASE OwnerCancel
  <2>1. DOMAIN stop' = Workers /\ \A v \in Workers : stop[v] # "none" => stop'[v] = stop[v]
    <3>1. CASE found = NoWorker
      BY <1>23, <3>1 DEF OwnerCancel, Inv, Shape
    <3>2. CASE found # NoWorker
      BY <1>23, <3>2, CancelKeeps DEF OwnerCancel, Inv, Shape
    <3>. QED
      BY <3>1, <3>2
  <2>. QED
    BY <1>23, <2>1, Requests DEF OwnerCancel, work, handles, Inv, Shape, Lifecycle
<1>24. CASE OwnerGone
  <2>1. CASE \E w \in Workers : handle[w] = "automatic" /\ Dropped(w)
    <3>1. PICK w \in Workers : handle[w] = "automatic" /\ Dropped(w)
      BY <2>1
    <3>2. DOMAIN stop' = Workers /\ \A v \in Workers : stop[v] # "none" => stop'[v] = stop[v]
      BY <3>1, CancelKeeps DEF Dropped
    <3>. QED
      BY <1>24, <3>1, <3>2, Requests DEF OwnerGone, Dropped, work, Inv, Shape, Lifecycle
  <2>2. CASE UNCHANGED <<stop, bells, handle, aborted>>
    BY <1>24, <2>2, Requests DEF OwnerGone, work, Inv, Shape, Lifecycle
  <2>. QED
    BY <1>24, <2>1, <2>2 DEF OwnerGone
<1>25. CASE UNCHANGED vars
  BY <1>25
  DEF vars, registry, progress, work, handles, external, Inv, Shape, Lifecycle, LeaseMatches, Leased
<1>. QED
  BY <1>1, <1>2, <1>3, <1>4, <1>5, <1>6, <1>7, <1>8, <1>9, <1>10, <1>11,
     <1>12, <1>13, <1>14, <1>15, <1>16, <1>17, <1>18, <1>19, <1>20, <1>21, <1>22, <1>23, <1>24, <1>25
  DEF Next, WorkerStep

(*****************************************************************************)
(* One worker is registered at a time, exactly while it holds its lease, and *)
(* it is the newest one, for threads and tasks that fail to start, panic,    *)
(* are aborted or lose their runtime.                                        *)
(*****************************************************************************)
THEOREM LeaseIsRegistered == Spec => []LeaseMatches
<1>1. Inv => LeaseMatches
  BY DEF Inv
<1>. QED
  BY <1>1, InvInit, InvNext, PTL DEF Spec, Safety

(*****************************************************************************)
(* EvictionHandle::join and AsyncEvictionHandle::join return only after the  *)
(* final status is published and the registration is released.               *)
(*****************************************************************************)
THEOREM JoinWaitsForRelease == Spec => []JoinedIsReleased
<1>1. Inv => JoinedIsReleased
  BY DEF Inv, Shape, Lifecycle, LeaseMatches, Leased, JoinedIsReleased
<1>. QED
  BY <1>1, InvInit, InvNext, PTL DEF Spec, Safety

(*****************************************************************************)
(* Control::cancel and WorkerLease::finish never replace a stop reason,      *)
(* except by a panic.                                                        *)
(*****************************************************************************)
THEOREM ReasonsAreKept == Spec => FirstReasonKept
<1>1. Inv /\ [Next]_vars =>
        [\A w \in Workers : stop[w] # "none" => stop'[w] \in {stop[w], "panicked"}]_vars
  <2>. SUFFICES ASSUME Inv, Next, NEW w \in Workers, stop[w] # "none"
                PROVE  stop'[w] \in {stop[w], "panicked"}
    OBVIOUS
  <2>. USE DEF progress
  <2>1. ASSUME NEW v \in Workers, NEW reason, cancel(v, reason)
        PROVE  stop'[w] = stop[w]
    BY <2>1, CancelKeeps
  <2>2. CASE \E v \in Workers : Finish(v)
    BY <2>2 DEF Finish, FinalReason, Inv, Shape
  <2>3. CASE \E v \in Workers : CancelHandle(v) \/ DropHandle(v)
    BY <2>1, <2>3 DEF CancelHandle, DropHandle, Dropped
  <2>4. CASE OwnerCancel \/ OwnerGone
    BY <2>1, <2>4 DEF OwnerCancel, OwnerGone, Dropped, Inv, Shape
  <2>5. CASE UNCHANGED stop
    BY <2>5
  <2>. QED
    BY <2>2, <2>3, <2>4, <2>5
    DEF Next, WorkerStep, Claim, Spawn, SpawnFails, StartFails, Begin, WaitInterval,
        IntervalElapses, TickEnds, Enable, CheckStop, PollWork, Woken, TaskAborted, RuntimeStops, Release, Notify,
        Join, JoinReturns, OwnerDrop
<1>. QED
  BY <1>1, InvInit, InvNext, PTL DEF Spec, Safety, FirstReasonKept
=============================================================================
