---------------------------- MODULE Replication ----------------------------
(*****************************************************************************)
(* insert_replicated and remove_replicated of the asynchronous map           *)
(* (replication.rs): a write waits for its turn, is applied locally, and is  *)
(* then sent to the replicas by a coordinator task that answers the caller   *)
(* early and keeps the turn until the last replica call is over.             *)
(*                                                                           *)
(* A call is one operation.  Its payload does not matter here, only where it *)
(* was applied and in which order.  The returns before the queue (eviction   *)
(* configured, no quorum configured, deadline out of range) touch nothing of *)
(* this state.                                                               *)
(*****************************************************************************)
EXTENDS Integers, Sequences, FiniteSets

CONSTANTS Calls,       \* the replicated writes, numbered as they are made
          Replicas,    \* remote replicas; the primary is not one of them
          NoCall

ASSUME ReplicationAssumption ==
  /\ Calls \subseteq Nat /\ NoCall \notin Calls
  /\ IsFiniteSet(Replicas)

VARIABLES
  quorum,        \* QuorumConfig::write_quorum
  order, queue,  \* ReplicationState::order: its owner and who waits, first come first
  worker, worker_lock,  \* ReplicationState::worker and the mutex around it
  dropped,       \* the last clone of the map is gone
  pc,            \* each call
  expired,       \* the call's deadline has passed
  co,            \* its coordinator task
  task,          \* its replica calls, and which were counted
  acks,
  reply,         \* what the call is told: for most, what came through the oneshot channel
  clock, stamp,  \* history: place of each write in the primary's order, 0 if not applied
  log            \* history: what each replica applied

turn  == <<order, queue>>
start == <<worker, worker_lock>>
fan   == <<task, acks>>
past  == <<clock, stamp, log>>
vars  == <<quorum, turn, start, dropped, pc, expired, co, fan, reply, past>>

replica_count == Cardinality(Replicas) + 1

\* is_valid, validate_topology: what try_with_replication accepts.
is_valid(q) ==
  /\ q > replica_count \div 2
  /\ q <= replica_count

Init ==
  /\ quorum \in {q \in 0..replica_count + 1 : is_valid(q)}
  /\ order = NoCall /\ queue = << >>
  /\ worker = NoCall /\ worker_lock = NoCall
  /\ dropped = FALSE
  /\ pc = [c \in Calls |-> "idle"]
  /\ expired = [c \in Calls |-> FALSE]
  /\ co = [c \in Calls |-> "none"]
  /\ task = [c \in Calls |-> [r \in Replicas |-> "none"]]
  /\ acks = [c \in Calls |-> {}]
  /\ reply = [c \in Calls |-> "none"]
  /\ clock = 0 /\ stamp = [c \in Calls |-> 0]
  /\ log = [r \in Replicas |-> << >>]

Goto(c, l) == pc' = [pc EXCEPT ![c] = l]
Over == {"returned", "cancelled"}
Running == {"start", "fan", "shutdown"}
-----------------------------------------------------------------------------
(*****************************************************************************)
(* The ordering mutex (tokio::sync::Mutex) is fair: a release passes it to   *)
(* the first waiter, who owns it from then on, polled or not.                *)
(*****************************************************************************)
Enqueue(c) ==
  IF order = NoCall
  THEN order' = c /\ queue' = queue
  ELSE order' = order /\ queue' = Append(queue, c)

Release ==
  /\ order' = IF queue = << >> THEN NoCall ELSE Head(queue)
  /\ queue' = IF queue = << >> THEN << >> ELSE Tail(queue)

Leave(c) ==
  /\ order' = order
  /\ queue' = SelectSeq(queue, LAMBDA d : d # c)

\* The caller's future is dropped, and with it the guard or the place in the queue.
GiveUp(c) == IF order = c /\ co[c] = "none" THEN Release ELSE Leave(c)
-----------------------------------------------------------------------------
(*****************************************************************************)
(* The caller: insert_replicated, remove_replicated, dispatch_replication.   *)
(*****************************************************************************)
Invoke(c) ==
  /\ pc[c] = "idle" /\ ~dropped
  /\ \A d \in Calls : d < c => pc[d] # "idle"
  /\ Goto(c, "queued")
  /\ Enqueue(c)
  /\ UNCHANGED <<quorum, start, dropped, expired, co, fan, reply, past>>

\* The deadline passes.  It is one instant for the whole call, its coordinator included.
Expire(c) ==
  /\ pc[c] \notin {"idle"} \cup Over \/ co[c] \in {"start", "fan"}
  /\ ~expired[c]
  /\ expired' = [expired EXCEPT ![c] = TRUE]
  /\ UNCHANGED <<quorum, turn, start, dropped, pc, co, fan, reply, past>>

Granted(c) ==
  /\ pc[c] = "queued" /\ order = c
  /\ Goto(c, "applying")
  /\ UNCHANGED <<quorum, turn, start, dropped, expired, co, fan, reply, past>>

QueueTimeout(c) ==
  /\ pc[c] = "queued" /\ order # c /\ expired[c]
  /\ Leave(c)
  /\ Goto(c, "returned")
  /\ reply' = [reply EXCEPT ![c] = "timeout"]
  /\ UNCHANGED <<quorum, start, dropped, expired, co, fan, past>>

\* self.insert or self.remove commits at once after its last await.
ApplyLocal(c) ==
  /\ pc[c] = "applying"
  /\ clock' = clock + 1
  /\ stamp' = [stamp EXCEPT ![c] = clock + 1]
  /\ Goto(c, "applied")
  /\ UNCHANGED <<quorum, turn, start, dropped, expired, co, fan, reply, log>>

ApplyTimeout(c) ==
  /\ pc[c] = "applying" /\ expired[c]
  /\ Release
  /\ Goto(c, "returned")
  /\ reply' = [reply EXCEPT ![c] = "timeout"]
  /\ UNCHANGED <<quorum, start, dropped, expired, co, fan, past>>

\* Mutant of StartWorker: the mutex is taken only to store the handle.
StartUnlocked(c) ==
  /\ pc[c] = "applied"
  /\ co' = [co EXCEPT ![c] = "start"]
  /\ Goto(c, "register")
  /\ UNCHANGED <<quorum, turn, start, dropped, expired, fan, reply, past>>

\* start spawns and registers the coordinator under one mutex.
StartWorker(c) ==
  /\ pc[c] = "applied" /\ worker_lock = NoCall
  /\ worker_lock' = c
  /\ co' = [co EXCEPT ![c] = "start"]
  /\ Goto(c, "register")
  /\ UNCHANGED <<quorum, turn, worker, dropped, expired, fan, reply, past>>

Register(c) ==
  /\ pc[c] = "register"
  /\ worker' = c /\ worker_lock' = NoCall
  /\ Goto(c, "waiting")
  /\ UNCHANGED <<quorum, turn, dropped, expired, co, fan, reply, past>>

Return(c) ==
  /\ pc[c] = "waiting" /\ reply[c] # "none"
  /\ Goto(c, "returned")
  /\ UNCHANGED <<quorum, turn, start, dropped, expired, co, fan, reply, past>>

\* The future is dropped at an await, or key.clone() panics after a removal.
CallerGone(c) ==
  /\ pc[c] \in {"queued", "applying", "applied", "waiting"}
  /\ GiveUp(c)
  /\ Goto(c, "cancelled")
  /\ UNCHANGED <<quorum, start, dropped, expired, co, fan, reply, past>>
-----------------------------------------------------------------------------
(*****************************************************************************)
(* The coordinator: replicate_to_quorum.                                     *)
(*****************************************************************************)
acknowledge(c, res) == IF reply[c] = "none" THEN [reply EXCEPT ![c] = res] ELSE reply

Pending  == {"pending", "applied"}
Finished == {"ok", "err"}
tasks(c) == {r \in Replicas : task[c][r] \in Pending \cup Finished}

\* User data cannot be cloned: no replica is called, and the channel is closed.
ClonePanics(c) ==
  /\ co[c] = "start" /\ Replicas # {}
  /\ co' = [co EXCEPT ![c] = "done"]
  /\ reply' = acknowledge(c, "failed")
  /\ Release
  /\ UNCHANGED <<quorum, start, dropped, pc, expired, fan, past>>

Fanout(c) ==
  /\ co[c] = "start"
  /\ co' = [co EXCEPT ![c] = "fan"]
  /\ task' = [task EXCEPT ![c] = [r \in Replicas |-> "pending"]]
  /\ reply' = IF 1 >= quorum THEN acknowledge(c, "ok") ELSE reply
  /\ UNCHANGED <<quorum, turn, start, dropped, pc, expired, acks, past>>

\* Mutant of Verdict: gives up one answer too early.
VerdictHasty(c, acknowledged, left) ==
  IF acknowledged >= quorum THEN acknowledge(c, "ok")
  ELSE IF acknowledged + left <= quorum THEN acknowledge(c, "failed")
  ELSE reply

Verdict(c, acknowledged, left) ==
  IF acknowledged >= quorum THEN acknowledge(c, "ok")
  ELSE IF acknowledged + left < quorum THEN acknowledge(c, "failed")
  ELSE reply

\* Mutant of Counts: a replica that answered with an error counts as well.
CountsAll(answer) == TRUE

Counts(answer) == answer = "ok"

join_next(c, r) ==
  LET counted == IF Counts(task[c][r]) THEN acks[c] \cup {r} ELSE acks[c] IN
  /\ co[c] = "fan" /\ task[c][r] \in Finished
  /\ task' = [task EXCEPT ![c][r] = "gone"]
  /\ acks' = [acks EXCEPT ![c] = counted]
  /\ reply' = Verdict(c, Cardinality(counted) + 1, Cardinality(tasks(c) \ {r}))
  /\ UNCHANGED <<quorum, turn, start, dropped, pc, expired, co, past>>

\* Mutant of Deadline: the deadline ends only what was not acknowledged yet.
DeadlineOfCaller(c) ==
  /\ co[c] = "fan" /\ expired[c] /\ reply[c] = "none"
  /\ tasks(c) # {}
  /\ reply' = acknowledge(c, "timeout")
  /\ co' = [co EXCEPT ![c] = "shutdown"]
  /\ UNCHANGED <<quorum, turn, start, dropped, pc, expired, fan, past>>

\* Mutant of Deadline: replica calls have no deadline at all.
DeadlineNever(c) == FALSE /\ UNCHANGED vars

\* timeout_at polls join_next before the clock; a call may still finish in between.
Deadline(c) ==
  /\ co[c] = "fan" /\ expired[c]
  /\ tasks(c) # {}
  /\ reply' = acknowledge(c, "timeout")
  /\ co' = [co EXCEPT ![c] = "shutdown"]
  /\ UNCHANGED <<quorum, turn, start, dropped, pc, expired, fan, past>>

\* Mutant of Closed: the turn is passed on while aborted tasks still unwind.
ClosedAtOnce(c) == co[c] = "shutdown" \/ (co[c] = "fan" /\ tasks(c) = {})

\* shutdown aborts every task and waits until each is gone.
Closed(c) == co[c] \in {"fan", "shutdown"} /\ tasks(c) = {}

CoordinatorEnds(c) ==
  /\ Closed(c)
  /\ co' = [co EXCEPT ![c] = "done"]
  /\ reply' = acknowledge(c, "failed")
  /\ acks' = [acks EXCEPT ![c] = {}]
  /\ Release
  /\ UNCHANGED <<quorum, start, dropped, pc, expired, task, past>>

\* The last map is dropped and aborts the registered coordinator.
DropMap ==
  /\ ~dropped
  /\ \A c \in Calls : pc[c] \in Over \cup {"idle"}
  /\ dropped' = TRUE
  /\ UNCHANGED <<quorum, turn, start, pc, expired, co, fan, reply, past>>

CoordinatorAborted(c) ==
  /\ dropped /\ worker = c
  /\ co[c] \in Running
  /\ co' = [co EXCEPT ![c] = "aborted"]
  /\ reply' = acknowledge(c, "failed")
  /\ Release
  /\ UNCHANGED <<quorum, start, dropped, pc, expired, fan, past>>
-----------------------------------------------------------------------------
(*****************************************************************************)
(* A replica: Replica::replicate applies the write or does not, and answers  *)
(* or does not.  A future that is dropped does nothing more.                 *)
(*****************************************************************************)
SetTask(c, r, l) == task' = [task EXCEPT ![c][r] = l]

ReplicaApplies(c, r) ==
  /\ task[c][r] = "pending"
  /\ SetTask(c, r, "applied")
  /\ log' = [log EXCEPT ![r] = Append(@, c)]
  /\ UNCHANGED <<quorum, turn, start, dropped, pc, expired, co, acks, reply, clock, stamp>>

ReplicaAnswers(c, r) ==
  /\ task[c][r] \in Pending
  /\ \E answer \in Finished :
       /\ answer = "ok" => task[c][r] = "applied"
       /\ SetTask(c, r, answer)
  /\ UNCHANGED <<quorum, turn, start, dropped, pc, expired, co, acks, reply, past>>

\* Mutant of TaskDropped: replica calls are detached, so that only shutdown reaches them.
TaskDetached(c, r) ==
  /\ co[c] = "shutdown"
  /\ task[c][r] \in Pending \cup Finished
  /\ SetTask(c, r, "gone")
  /\ UNCHANGED <<quorum, turn, start, dropped, pc, expired, co, acks, reply, past>>

\* The JoinSet aborts its calls when it is shut down or dropped.
TaskDropped(c, r) ==
  /\ co[c] \in {"shutdown", "aborted"}
  /\ task[c][r] \in Pending \cup Finished
  /\ SetTask(c, r, "gone")
  /\ UNCHANGED <<quorum, turn, start, dropped, pc, expired, co, acks, reply, past>>
-----------------------------------------------------------------------------
CallStep(c) ==
  \/ Granted(c) \/ QueueTimeout(c) \/ ApplyLocal(c) \/ ApplyTimeout(c)
  \/ StartWorker(c) \/ Register(c) \/ Return(c)

CoordinatorStep(c) ==
  \/ ClonePanics(c) \/ Fanout(c) \/ Deadline(c) \/ CoordinatorEnds(c) \/ CoordinatorAborted(c)
  \/ \E r \in Replicas : join_next(c, r)

Next ==
  \/ \E c \in Calls :
       \/ Invoke(c) \/ Expire(c) \/ CallerGone(c)
       \/ CallStep(c) \/ CoordinatorStep(c)
       \/ \E r \in Replicas : ReplicaApplies(c, r) \/ ReplicaAnswers(c, r) \/ TaskDropped(c, r)
  \/ DropMap

(*****************************************************************************)
(* Fairness: tasks that can run do, time passes, and an aborted future is    *)
(* dropped ("replica futures must yield cooperatively").  A replica need     *)
(* never apply or answer anything.                                           *)
(*****************************************************************************)
Fairness ==
  \A c \in Calls :
    /\ WF_vars(Expire(c))
    /\ WF_vars(CallStep(c))
    /\ WF_vars(CoordinatorStep(c))
    /\ WF_vars(\E r \in Replicas : TaskDropped(c, r))

Safety == Init /\ [][Next]_vars
Spec   == Safety /\ Fairness
-----------------------------------------------------------------------------
AppliedBy(c, r) == \E i \in DOMAIN log[r] : log[r][i] = c

(*****************************************************************************)
(* "insert locally and wait for a primary-inclusive write quorum": a call    *)
(* that succeeds is applied by the primary and by enough replicas.           *)
(*****************************************************************************)
SuccessHasQuorum ==
  \A c \in Calls : reply[c] = "ok" =>
    /\ stamp[c] > 0
    /\ \E Q \in SUBSET Replicas :
         /\ Cardinality(Q) + 1 >= quorum
         /\ \A r \in Q : AppliedBy(c, r)

(*****************************************************************************)
(* A failure is final: answers that arrive after the caller was told so do   *)
(* not add up to a quorum any more.                                          *)
(*****************************************************************************)
FailureIsFinal ==
  \A c \in Calls :
    co[c] \in {"fan", "shutdown"} /\ reply[c] \in {"failed", "timeout"} =>
      Cardinality(acks[c]) + 1 < quorum

(*****************************************************************************)
(* "keeping replica calls ordered across map clones": every replica applies  *)
(* each write at most once, only writes the primary applied, and in its      *)
(* order, although callers time out, give up and are answered early.         *)
(*****************************************************************************)
ReplicasFollow ==
  \A r \in Replicas : \A i \in DOMAIN log[r] :
    /\ stamp[log[r][i]] > 0
    /\ \A j \in DOMAIN log[r] : i < j => stamp[log[r][i]] < stamp[log[r][j]]

(*****************************************************************************)
(* The handle that dropping the map aborts is that of the only coordinator   *)
(* that has work left.  While it is stored the caller still uses the map, so *)
(* the map cannot be dropped.                                                *)
(*****************************************************************************)
WorkIsTracked ==
  \A c \in Calls :
    co[c] \in Running => worker = c \/ pc[c] = "register"

\* A call ends by its deadline, whatever the replicas do.
CallEnds == \A c \in Calls : pc[c] # "idle" ~> pc[c] \in Over

\* The turn is passed on, even by a call whose replicas never answer.
TurnPasses == \A c \in Calls : order = c ~> order # c

\* "Dropping the last map cancels pending replica work."
DropCancels ==
  dropped ~> [](\A c \in Calls : \A r \in Replicas : task[c][r] \notin Pending)
=============================================================================
