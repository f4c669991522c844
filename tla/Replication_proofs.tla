------------------------- MODULE Replication_proofs -------------------------
(*****************************************************************************)
(* Proofs about replicated writes, for any number of calls and replicas and  *)
(* every quorum the constructor accepts.                                     *)
(*****************************************************************************)
EXTENDS Replication, FiniteSetTheorems, TLAPS

\* The types of the variables, as far as the other invariants need them.
Shape ==
  /\ quorum \in Nat
  /\ dropped \in BOOLEAN
  /\ pc \in [Calls -> {"idle", "queued", "applying", "applied", "register", "waiting"} \cup Over]
  /\ co \in [Calls -> {"none", "done", "aborted"} \cup Running]
  /\ task \in [Calls -> [Replicas -> {"none", "gone"} \cup Pending \cup Finished]]
  /\ acks \in [Calls -> SUBSET Replicas]
  /\ reply \in [Calls -> {"none", "ok", "timeout", "failed"}]
  /\ clock \in Nat /\ stamp \in [Calls -> Nat]
  /\ log \in [Replicas -> Seq(Calls)]

\* Whoever writes or replicates owns the ordering mutex.
Turns ==
  \A c \in Calls :
    /\ pc[c] \in {"applying", "applied"} => order = c /\ co[c] = "none"
    /\ co[c] \in Running => order = c
    /\ pc[c] \in {"idle", "queued"} => co[c] = "none"
    /\ co[c] = "aborted" => dropped
    /\ dropped => pc[c] \in Over \cup {"idle"}

\* The write that is being replicated is the primary's last one.
Stamps ==
  \A c \in Calls :
    /\ stamp[c] <= clock
    /\ \A d \in Calls : stamp[c] = stamp[d] /\ stamp[c] > 0 => c = d
    /\ pc[c] \in {"idle", "queued", "applying"} => stamp[c] = 0
    /\ pc[c] = "applied" \/ co[c] \in Running \cup {"aborted"} =>
         stamp[c] = clock /\ clock > 0

\* What a replica call and its answer say of the replica.
Fans ==
  \A c \in Calls : \A r \in Replicas :
    /\ co[c] \in {"none", "start"} => task[c][r] = "none" /\ r \notin acks[c] /\ ~AppliedBy(c, r)
    /\ co[c] = "done" => task[c][r] \in {"none", "gone"}
    /\ task[c][r] = "pending" => ~AppliedBy(c, r)
    /\ task[c][r] \in {"applied", "ok"} => AppliedBy(c, r)
    /\ r \in acks[c] => AppliedBy(c, r)

\* What the counts say of the verdict, before and after it is given.
Verdicts ==
  \A c \in Calls :
    /\ pc[c] \in {"idle", "queued", "applying", "applied"} \/ co[c] = "start" => reply[c] = "none"
    /\ co[c] = "fan" => reply[c] # "timeout"
    /\ co[c] = "fan" /\ reply[c] = "none" => Cardinality(acks[c]) + 1 < quorum
    /\ co[c] = "fan" /\ reply[c] = "failed" =>
         Cardinality(acks[c]) + 1 + Cardinality(tasks(c)) < quorum

\* While a call stores its handle no other coordinator has work left.
Registers ==
  \A c \in Calls : pc[c] = "register" =>
    /\ worker_lock = c
    /\ \A d \in Calls : co[d] \in Running => d = c

Ordered == Shape /\ Turns /\ Stamps /\ Fans /\ ReplicasFollow
Tallies == Verdicts /\ SuccessHasQuorum /\ FailureIsFinal
Counted == Ordered /\ Tallies
Tracked == Registers /\ WorkIsTracked

\* Appending adds one entry, at the end.
LEMMA AppendFacts ==
  ASSUME NEW s \in Seq(Calls), NEW c \in Calls
  PROVE  /\ DOMAIN Append(s, c) = DOMAIN s \cup {Len(s) + 1}
         /\ Append(s, c)[Len(s) + 1] = c
         /\ \A i \in DOMAIN s : i \in Nat /\ i <= Len(s) /\ Append(s, c)[i] = s[i]
         /\ Len(s) \in Nat
  OBVIOUS

(*****************************************************************************)
(* A replica applies a write after everything it applied before, because the *)
(* write in progress is the primary's last.                                  *)
(*****************************************************************************)
LEMMA AppliesInOrder ==
  ASSUME Ordered, NEW c \in Calls, NEW r \in Replicas, ReplicaApplies(c, r)
  PROVE  Ordered'
<1>0. /\ task[c][r] = "pending" /\ task' = [task EXCEPT ![c][r] = "applied"]
      /\ log' = [log EXCEPT ![r] = Append(log[r], c)]
      /\ UNCHANGED <<quorum, turn, dropped, pc, co, acks, reply, clock, stamp>>
  BY DEF ReplicaApplies, SetTask
<1>1. Shape'
  BY <1>0 DEF Ordered, Shape, Pending
<1>2. Turns' /\ Stamps'
  BY <1>0 DEF Ordered, Turns, Stamps, turn
<1>3. log[r] \in Seq(Calls)
  BY DEF Ordered, Shape
<1>4. log'[r] = Append(log[r], c) /\ \A q \in Replicas : q # r => log'[q] = log[q]
  BY <1>0 DEF Ordered, Shape
<1>5. \A d \in Calls, q \in Replicas :
        AppliedBy(d, q)' <=> AppliedBy(d, q) \/ (d = c /\ q = r)
  <2>1. /\ DOMAIN log'[r] = DOMAIN log[r] \cup {Len(log[r]) + 1}
        /\ log'[r][Len(log[r]) + 1] = c
        /\ \A i \in DOMAIN log[r] : log'[r][i] = log[r][i]
    BY <1>3, <1>4, AppendFacts
  <2>2. \A d \in Calls : AppliedBy(d, r)' <=> AppliedBy(d, r) \/ d = c
    BY <2>1, Zenon DEF AppliedBy
  <2>3. \A d \in Calls, q \in Replicas : q # r => (AppliedBy(d, q)' <=> AppliedBy(d, q))
    BY <1>4, Zenon DEF AppliedBy
  <2>. QED
    BY <2>2, <2>3
<1>6. Fans'
  <2>1. ~(co[c] \in {"none", "start", "done"})
    BY <1>0 DEF Ordered, Shape, Fans
  <2>2. /\ task'[c][r] = "applied" /\ acks' = acks /\ co' = co
        /\ \A d \in Calls, q \in Replicas : d # c \/ q # r => task'[d][q] = task[d][q]
    BY <1>0 DEF Ordered, Shape
  <2>. QED
    BY <1>5, <2>1, <2>2 DEF Ordered, Fans
<1>7. \A i \in DOMAIN log[r] : 0 < stamp[log[r][i]] /\ stamp[log[r][i]] < stamp[c]
  <2>. SUFFICES ASSUME NEW i \in DOMAIN log[r]
                PROVE  0 < stamp[log[r][i]] /\ stamp[log[r][i]] < stamp[c]
    OBVIOUS
  <2>1. log[r][i] \in Calls
    BY <1>3
  <2>2. log[r][i] # c
    BY <1>0 DEF Ordered, Fans, AppliedBy
  <2>3. co[c] \in {"fan", "shutdown", "aborted"}
    BY <1>0 DEF Ordered, Shape, Fans, Running
  <2>4. stamp[c] = clock /\ clock > 0
    BY <2>3 DEF Ordered, Stamps, Running
  <2>. QED
    BY <2>1, <2>2, <2>4 DEF Ordered, Shape, Stamps, ReplicasFollow
<1>8. ReplicasFollow'
  <2>1. stamp' = stamp /\ stamp[c] > 0
    <3>1. co[c] \in {"fan", "shutdown", "aborted"}
      BY <1>0 DEF Ordered, Shape, Fans, Running
    <3>. QED
      BY <1>0, <3>1 DEF Ordered, Stamps, Running
  <2>2. ASSUME NEW q \in Replicas, q # r, NEW i \in DOMAIN log'[q]
        PROVE  /\ stamp[log'[q][i]] > 0
               /\ \A j \in DOMAIN log'[q] : i < j => stamp[log'[q][i]] < stamp[log'[q][j]]
    BY <1>4, <2>2 DEF Ordered, ReplicasFollow
  <2>3. ASSUME NEW i \in DOMAIN log'[r]
        PROVE  /\ stamp[log'[r][i]] > 0
               /\ \A j \in DOMAIN log'[r] : i < j => stamp[log'[r][i]] < stamp[log'[r][j]]
    <3>1. CASE i \in DOMAIN log[r]
      BY <1>3, <1>4, <1>7, <3>1, AppendFacts DEF Ordered, ReplicasFollow
    <3>2. CASE i = Len(log[r]) + 1
      BY <1>3, <1>4, <2>1, <3>2, AppendFacts
    <3>. QED
      BY <1>3, <1>4, <3>1, <3>2, AppendFacts
  <2>. QED
    BY <2>1, <2>2, <2>3 DEF ReplicasFollow
<1>. QED
  BY <1>1, <1>2, <1>6, <1>8 DEF Ordered

(*****************************************************************************)
(* Every step keeps the order: the turn is handed over only when nothing of  *)
(* the write before is left to be applied.                                   *)
(*****************************************************************************)
LEMMA OrderedNext == Ordered /\ [Next]_vars => Ordered'
<1>. SUFFICES ASSUME Ordered, [Next]_vars PROVE Ordered'
  OBVIOUS
<1>. USE ReplicationAssumption
     DEF Ordered, Shape, Turns, Stamps, Fans, AppliedBy, ReplicasFollow,
         Goto, turn, start, fan, past, Over, Running, Pending, Finished
<1>1. ASSUME NEW c \in Calls, Invoke(c) PROVE Ordered'
  BY <1>1 DEF Invoke, Enqueue
<1>2. ASSUME NEW c \in Calls, Expire(c) PROVE Ordered'
  BY <1>2 DEF Expire
<1>3. ASSUME NEW c \in Calls, CallerGone(c) PROVE Ordered'
  BY <1>3 DEF CallerGone, GiveUp, Release, Leave
<1>4. ASSUME NEW c \in Calls, Granted(c) PROVE Ordered'
  BY <1>4 DEF Granted
<1>5. ASSUME NEW c \in Calls, QueueTimeout(c) PROVE Ordered'
  BY <1>5 DEF QueueTimeout, Leave
<1>6. ASSUME NEW c \in Calls, ApplyLocal(c) PROVE Ordered'
  BY <1>6, SMTT(30) DEF ApplyLocal
<1>7. ASSUME NEW c \in Calls, ApplyTimeout(c) PROVE Ordered'
  BY <1>7 DEF ApplyTimeout, Release
<1>8. ASSUME NEW c \in Calls, StartWorker(c) PROVE Ordered'
  BY <1>8 DEF StartWorker
<1>9. ASSUME NEW c \in Calls, Register(c) PROVE Ordered'
  BY <1>9 DEF Register
<1>10. ASSUME NEW c \in Calls, Return(c) PROVE Ordered'
  BY <1>10 DEF Return
<1>11. ASSUME NEW c \in Calls, ClonePanics(c) PROVE Ordered'
  BY <1>11, SMTT(30) DEF ClonePanics, acknowledge, Release
<1>12. ASSUME NEW c \in Calls, Fanout(c) PROVE Ordered'
  BY <1>12 DEF Fanout, acknowledge
<1>13. ASSUME NEW c \in Calls, Deadline(c) PROVE Ordered'
  BY <1>13 DEF Deadline, acknowledge
<1>14. ASSUME NEW c \in Calls, CoordinatorEnds(c) PROVE Ordered'
  BY <1>14 DEF CoordinatorEnds, Closed, tasks, acknowledge, Release
<1>15. ASSUME NEW c \in Calls, CoordinatorAborted(c) PROVE Ordered'
  BY <1>15 DEF CoordinatorAborted, acknowledge, Release
<1>16. ASSUME NEW c \in Calls, NEW r \in Replicas, join_next(c, r) PROVE Ordered'
  BY <1>16, SMTT(30) DEF join_next, Verdict, Counts, acknowledge
<1>17. ASSUME NEW c \in Calls, NEW r \in Replicas, ReplicaAnswers(c, r) PROVE Ordered'
  BY <1>17, SMTT(30) DEF ReplicaAnswers, SetTask
<1>18. ASSUME NEW c \in Calls, NEW r \in Replicas, TaskDropped(c, r) PROVE Ordered'
  BY <1>18, SMTT(30) DEF TaskDropped, SetTask
<1>19. ASSUME NEW c \in Calls, NEW r \in Replicas, ReplicaApplies(c, r) PROVE Ordered'
  BY <1>19, AppliesInOrder
<1>20. CASE DropMap
  BY <1>20 DEF DropMap
<1>21. CASE UNCHANGED vars
  BY <1>21 DEF vars
<1>. QED
  BY <1>1, <1>2, <1>3, <1>4, <1>5, <1>6, <1>7, <1>8, <1>9, <1>10, <1>11,
     <1>12, <1>13, <1>14, <1>15, <1>16, <1>17, <1>18, <1>19, <1>20, <1>21
  DEF Next, CallStep, CoordinatorStep

\* Replica calls and acknowledgements can be counted.
LEMMA CountFacts ==
  ASSUME Shape, NEW c \in Calls
  PROVE  /\ IsFiniteSet(acks[c]) /\ Cardinality(acks[c]) \in Nat
         /\ IsFiniteSet(tasks(c)) /\ Cardinality(tasks(c)) \in Nat
<1>1. acks[c] \in SUBSET Replicas /\ tasks(c) \in SUBSET Replicas
  BY DEF Shape, tasks
<1>. QED
  BY <1>1, FS_Subset, FS_CardinalityType, ReplicationAssumption

\* Logs only grow.
LEMMA LogsGrow ==
  ASSUME Shape, [Next]_vars, NEW c \in Calls, NEW r \in Replicas, AppliedBy(c, r)
  PROVE  AppliedBy(c, r)'
<1>1. ASSUME NEW d \in Calls, NEW q \in Replicas, ReplicaApplies(d, q)
      PROVE  AppliedBy(c, r)'
  <2>1. log[r] \in Seq(Calls) /\ log[q] \in Seq(Calls)
    BY DEF Shape
  <2>2. log' = [log EXCEPT ![q] = Append(log[q], d)] /\ DOMAIN log = Replicas
    BY <1>1 DEF ReplicaApplies, Shape
  <2>. QED
    BY <2>1, <2>2, AppendFacts DEF AppliedBy
<1>2. CASE UNCHANGED log
  BY <1>2 DEF AppliedBy
<1>. QED
  BY <1>1, <1>2, ZenonT(60) DEF Next, vars, past, CallStep, CoordinatorStep, DropMap, Invoke, Expire,
     CallerGone, Granted, QueueTimeout, ApplyLocal, ApplyTimeout, StartWorker, Register,
     Return, ClonePanics, Fanout, Deadline, CoordinatorEnds, CoordinatorAborted,
     join_next, ReplicaAnswers, TaskDropped

(*****************************************************************************)
(* The loop of replicate_to_quorum: counting one answer moves it from the    *)
(* calls that are out to the acknowledgements or to nowhere.                 *)
(*****************************************************************************)
LEMMA JoinCounted ==
  ASSUME Counted, NEW c \in Calls, NEW r \in Replicas, join_next(c, r)
  PROVE  Tallies'
<1>. DEFINE counted == IF Counts(task[c][r]) THEN acks[c] \cup {r} ELSE acks[c]
            left    == tasks(c) \ {r}
<1>. USE DEF Over, Running
<1>a. Shape /\ Ordered
  BY DEF Counted, Tallies, Ordered
<1>1. /\ co[c] = "fan" /\ task[c][r] \in Finished
      /\ acks' = [acks EXCEPT ![c] = counted]
      /\ task' = [task EXCEPT ![c][r] = "gone"]
      /\ reply' = Verdict(c, Cardinality(counted) + 1, Cardinality(left))
      /\ UNCHANGED <<quorum, pc, co, stamp, log>>
  BY DEF join_next, past
<1>2. r \in tasks(c)
  BY <1>1 DEF tasks
<1>3. /\ Cardinality(acks[c]) \in Nat /\ Cardinality(tasks(c)) \in Nat
      /\ Cardinality(counted) \in Nat /\ Cardinality(left) \in Nat
      /\ Cardinality(acks[c]) <= Cardinality(counted)
      /\ Cardinality(counted) + Cardinality(left) <= Cardinality(acks[c]) + Cardinality(tasks(c))
  <2>1. /\ IsFiniteSet(acks[c]) /\ Cardinality(acks[c]) \in Nat
        /\ IsFiniteSet(tasks(c)) /\ Cardinality(tasks(c)) \in Nat
    BY <1>a, CountFacts
  <2>2. IsFiniteSet(left) /\ Cardinality(left) = Cardinality(tasks(c)) - 1 /\ Cardinality(left) \in Nat
    BY <1>2, <2>1, FS_RemoveElement, FS_CardinalityType
  <2>3. /\ IsFiniteSet(counted) /\ Cardinality(counted) \in Nat
        /\ Cardinality(counted) \in {Cardinality(acks[c]), Cardinality(acks[c]) + 1}
    BY <2>1, FS_AddElement, FS_CardinalityType
  <2>. QED
    BY <2>1, <2>2, <2>3
<1>4. \A d \in Calls : tasks(d)' = IF d = c THEN left ELSE tasks(d)
  BY <1>a, <1>1 DEF Shape, tasks, Pending, Finished
<1>5. acks'[c] = counted /\ \A d \in Calls : d # c => acks'[d] = acks[d]
  BY <1>a, <1>1 DEF Shape
<1>6. \A q \in counted : q \in Replicas /\ AppliedBy(c, q)
  <2>1. Counts(task[c][r]) => AppliedBy(c, r)
    BY <1>a DEF Counts, Ordered, Fans
  <2>. QED
    BY <1>a, <2>1 DEF Ordered, Shape, Fans
<1>7. quorum \in Nat /\ stamp[c] > 0
  BY <1>a, <1>1 DEF Ordered, Shape, Stamps
<1>8. /\ reply'[c] = IF reply[c] # "none" THEN reply[c]
                     ELSE IF Cardinality(counted) + 1 >= quorum THEN "ok"
                     ELSE IF Cardinality(counted) + 1 + Cardinality(left) < quorum THEN "failed"
                     ELSE "none"
      /\ \A d \in Calls : d # c => reply'[d] = reply[d]
  BY <1>a, <1>1 DEF Verdict, acknowledge, Shape
<1>. HIDE DEF counted, left
<1>b. pc[c] \notin {"idle", "queued", "applying", "applied"}
  BY <1>1, <1>a DEF Ordered, Turns
<1>9. Verdicts'
  <2>1. ASSUME NEW d \in Calls, d # c
        PROVE  /\ co'[d] = co[d] /\ pc'[d] = pc[d] /\ reply'[d] = reply[d]
               /\ acks'[d] = acks[d] /\ tasks(d)' = tasks(d)
    BY <1>1, <1>4, <1>5, <1>8, <2>1
  <2>2. /\ co'[c] = "fan" /\ pc'[c] = pc[c] /\ acks'[c] = counted /\ tasks(c)' = left
        /\ reply[c] \in {"none", "ok", "failed"}
    BY <1>1, <1>4, <1>5, <1>a DEF Counted, Tallies, Verdicts, Shape
  <2>3. /\ reply'[c] = "none" => Cardinality(counted) + 1 < quorum
        /\ reply'[c] = "failed" => Cardinality(counted) + 1 + Cardinality(left) < quorum
        /\ reply'[c] # "timeout"
    BY <1>1, <1>3, <1>7, <1>8, <2>2 DEF Counted, Tallies, Verdicts
  <2>. QED
    BY <1>1, <1>b, <2>1, <2>2, <2>3 DEF Counted, Tallies, Verdicts
<1>10. SuccessHasQuorum'
  <2>1. \A d \in Calls, q \in Replicas : AppliedBy(d, q)' <=> AppliedBy(d, q)
    BY <1>1 DEF AppliedBy
  <2>2. CASE reply'[c] = "ok" /\ reply[c] = "none"
    <3>1. Cardinality(counted) + 1 >= quorum /\ counted \in SUBSET Replicas
      BY <1>6, <1>8, <2>2
    <3>. QED
      BY <1>1, <1>6, <1>7, <1>8, <2>1, <3>1 DEF Counted, Tallies, SuccessHasQuorum
  <2>3. CASE ~(reply'[c] = "ok" /\ reply[c] = "none")
    BY <1>1, <1>8, <2>1, <2>3 DEF Counted, Tallies, SuccessHasQuorum
  <2>. QED
    BY <2>2, <2>3
<1>11. FailureIsFinal'
  <2>1. reply'[c] \in {"failed", "timeout"} => Cardinality(counted) + 1 < quorum
    BY <1>1, <1>3, <1>7, <1>8, <1>a DEF Counted, Tallies, Verdicts, Shape
  <2>. QED
    BY <1>1, <1>5, <1>8, <2>1 DEF Counted, Tallies, FailureIsFinal
<1>. QED
  BY <1>9, <1>10, <1>11 DEF Tallies

(*****************************************************************************)
(* A step that gives no verdict on calls that are out, counts nothing and    *)
(* answers no caller with success keeps the counts.                          *)
(*****************************************************************************)
LEMMA QuietCounted ==
  ASSUME Counted, [Next]_vars, quorum' = quorum,
         \A d \in Calls :
           /\ pc'[d] \in {"idle", "queued", "applying", "applied"} \/ co'[d] = "start" =>
                reply'[d] = "none"
           /\ co'[d] \in {"fan", "shutdown"} =>
                co'[d] = co[d] /\ reply'[d] = reply[d] /\ acks'[d] = acks[d]
           /\ co'[d] = "fan" => tasks(d)' = tasks(d)
           /\ reply'[d] = "ok" => reply[d] = "ok"
           /\ stamp[d] > 0 => stamp'[d] > 0
  PROVE  Tallies'
<1>1. Verdicts'
  BY DEF Counted, Tallies, Verdicts
<1>2. SuccessHasQuorum'
  <2>1. \A c \in Calls, r \in Replicas : AppliedBy(c, r) => AppliedBy(c, r)'
    BY LogsGrow DEF Counted, Tallies, Ordered
  <2>. QED
    BY <2>1 DEF Counted, Tallies, SuccessHasQuorum
<1>3. FailureIsFinal'
  BY DEF Counted, Tallies, FailureIsFinal
<1>. QED
  BY <1>1, <1>2, <1>3 DEF Tallies

(*****************************************************************************)
(* The primary alone is a quorum at once or never.                           *)
(*****************************************************************************)
LEMMA FanoutCounted ==
  ASSUME Counted, NEW c \in Calls, Fanout(c)
  PROVE  Tallies'
<1>1. /\ co[c] = "start" /\ co' = [co EXCEPT ![c] = "fan"]
      /\ reply' = IF 1 >= quorum THEN [reply EXCEPT ![c] = "ok"] ELSE reply
      /\ reply[c] = "none" /\ stamp[c] > 0 /\ quorum \in Nat
      /\ UNCHANGED <<quorum, pc, acks, stamp, log>>
  BY DEF Counted, Tallies, Ordered, Shape, Verdicts, Stamps, Running, Fanout, acknowledge, past
<1>2. acks[c] = {} /\ Cardinality({}) = 0
  BY <1>1, FS_EmptySet DEF Counted, Tallies, Ordered, Shape, Fans
<1>3. pc[c] \notin {"idle", "queued", "applying", "applied"}
  BY <1>1 DEF Counted, Tallies, Ordered, Shape, Turns
<1>4. /\ co'[c] = "fan" /\ reply'[c] = IF 1 >= quorum THEN "ok" ELSE "none"
      /\ \A d \in Calls : d # c => co'[d] = co[d] /\ reply'[d] = reply[d] /\ tasks(d)' = tasks(d)
  BY <1>1 DEF Counted, Tallies, Ordered, Shape, Fanout, tasks
<1>5. Verdicts'
  <2>1. ASSUME NEW d \in Calls, d # c
        PROVE  tasks(d)' = tasks(d) /\ co'[d] = co[d] /\ reply'[d] = reply[d]
    BY <1>4, <2>1
  <2>. QED
    BY <1>1, <1>2, <1>3, <1>4, <2>1 DEF Counted, Tallies, Verdicts
<1>6. SuccessHasQuorum'
  <2>1. \A d \in Calls, q \in Replicas : AppliedBy(d, q)' <=> AppliedBy(d, q)
    BY <1>1 DEF AppliedBy
  <2>2. ASSUME reply'[c] = "ok"
        PROVE  {} \in SUBSET Replicas /\ Cardinality({}) + 1 >= quorum
    BY <1>1, <1>2, <1>4, <2>2
  <2>. QED
    BY <1>1, <1>4, <2>1, <2>2 DEF Counted, Tallies, SuccessHasQuorum
<1>7. FailureIsFinal'
  BY <1>1, <1>2, <1>4 DEF Counted, Tallies, FailureIsFinal
<1>. QED
  BY <1>5, <1>6, <1>7 DEF Tallies

(*****************************************************************************)
(* At the deadline a call that has no verdict has no quorum.                 *)
(*****************************************************************************)
LEMMA DeadlineCounted ==
  ASSUME Counted, NEW c \in Calls, Deadline(c)
  PROVE  Tallies'
<1>1. /\ co[c] = "fan" /\ co' = [co EXCEPT ![c] = "shutdown"]
      /\ reply' = IF reply[c] = "none" THEN [reply EXCEPT ![c] = "timeout"] ELSE reply
      /\ UNCHANGED <<quorum, pc, task, acks, stamp, log>>
  BY DEF Deadline, acknowledge, fan, past
<1>2. /\ co'[c] = "shutdown" /\ reply'[c] = IF reply[c] = "none" THEN "timeout" ELSE reply[c]
      /\ \A d \in Calls : d # c => co'[d] = co[d] /\ reply'[d] = reply[d]
  BY <1>1 DEF Counted, Tallies, Ordered, Shape
<1>3. \A d \in Calls :
        tasks(d)' = tasks(d) /\ \A r \in Replicas : AppliedBy(d, r)' <=> AppliedBy(d, r)
  BY <1>1 DEF tasks, AppliedBy
<1>4. /\ Cardinality(acks[c]) \in Nat /\ Cardinality(tasks(c)) \in Nat
      /\ quorum \in Nat /\ reply[c] \in {"none", "ok", "timeout", "failed"}
  BY CountFacts DEF Counted, Tallies, Ordered, Shape
<1>5. pc[c] \notin {"idle", "queued", "applying", "applied"}
  BY <1>1 DEF Counted, Tallies, Ordered, Shape, Turns
<1>6. Verdicts'
  BY <1>1, <1>2, <1>3, <1>5 DEF Counted, Tallies, Verdicts
<1>7. SuccessHasQuorum'
  BY <1>1, <1>2, <1>3 DEF Counted, Tallies, SuccessHasQuorum
<1>8. FailureIsFinal'
  BY <1>1, <1>2, <1>4 DEF Counted, Tallies, Verdicts, FailureIsFinal
<1>. QED
  BY <1>6, <1>7, <1>8 DEF Tallies

(*****************************************************************************)
(* Every step keeps the verdicts in agreement with the counts.               *)
(*****************************************************************************)
LEMMA CountedNext == Counted /\ [Next]_vars => Tallies'
<1>. SUFFICES ASSUME Counted, [Next]_vars PROVE Tallies'
  OBVIOUS
<1>1. ASSUME NEW c \in Calls, Invoke(c) PROVE Tallies'
  BY <1>1, QuietCounted
  DEF Counted, Tallies, Ordered, Shape, Turns, Verdicts, Stamps, Over, Running,
      Goto, fan, past, tasks, Invoke
<1>2. ASSUME NEW c \in Calls, Expire(c) PROVE Tallies'
  BY <1>2, QuietCounted
  DEF Counted, Tallies, Ordered, Shape, Turns, Verdicts, Stamps, Over, Running,
      Goto, fan, past, tasks, Expire
<1>3. ASSUME NEW c \in Calls, CallerGone(c) PROVE Tallies'
  BY <1>3, QuietCounted
  DEF Counted, Tallies, Ordered, Shape, Turns, Verdicts, Stamps, Over, Running,
      Goto, fan, past, tasks, CallerGone
<1>4. ASSUME NEW c \in Calls, Granted(c) PROVE Tallies'
  BY <1>4, QuietCounted
  DEF Counted, Tallies, Ordered, Shape, Turns, Verdicts, Stamps, Over, Running,
      Goto, fan, past, tasks, Granted
<1>5. ASSUME NEW c \in Calls, QueueTimeout(c) PROVE Tallies'
  BY <1>5, QuietCounted
  DEF Counted, Tallies, Ordered, Shape, Turns, Verdicts, Stamps, Over, Running,
      Goto, fan, past, tasks, QueueTimeout
<1>6. ASSUME NEW c \in Calls, ApplyLocal(c) PROVE Tallies'
  <2>1. /\ pc[c] = "applying" /\ pc' = [pc EXCEPT ![c] = "applied"]
        /\ UNCHANGED <<quorum, co, reply, task, acks>>
        /\ \A d \in Calls : stamp[d] > 0 => stamp'[d] > 0
    BY <1>6 DEF ApplyLocal, Goto, fan, Counted, Ordered, Shape
  <2>. QED
    BY <2>1, QuietCounted DEF Counted, Tallies, Ordered, Shape, Verdicts, tasks
<1>7. ASSUME NEW c \in Calls, ApplyTimeout(c) PROVE Tallies'
  BY <1>7, QuietCounted
  DEF Counted, Tallies, Ordered, Shape, Turns, Verdicts, Stamps, Over, Running,
      Goto, fan, past, tasks, ApplyTimeout
<1>8. ASSUME NEW c \in Calls, StartWorker(c) PROVE Tallies'
  BY <1>8, QuietCounted
  DEF Counted, Tallies, Ordered, Shape, Turns, Verdicts, Stamps, Over, Running,
      Goto, fan, past, tasks, StartWorker
<1>9. ASSUME NEW c \in Calls, Register(c) PROVE Tallies'
  BY <1>9, QuietCounted
  DEF Counted, Tallies, Ordered, Shape, Turns, Verdicts, Stamps, Over, Running,
      Goto, fan, past, tasks, Register
<1>10. ASSUME NEW c \in Calls, Return(c) PROVE Tallies'
  BY <1>10, QuietCounted
  DEF Counted, Tallies, Ordered, Shape, Turns, Verdicts, Stamps, Over, Running,
      Goto, fan, past, tasks, Return
<1>11. ASSUME NEW c \in Calls, ClonePanics(c) PROVE Tallies'
  BY <1>11, QuietCounted
  DEF Counted, Tallies, Ordered, Shape, Turns, Verdicts, Stamps, Over, Running,
      Goto, fan, past, tasks, ClonePanics, acknowledge
<1>12. ASSUME NEW c \in Calls, CoordinatorEnds(c) PROVE Tallies'
  <2>1. /\ co[c] \in {"fan", "shutdown"} /\ co' = [co EXCEPT ![c] = "done"]
        /\ reply' = IF reply[c] = "none" THEN [reply EXCEPT ![c] = "failed"] ELSE reply
        /\ acks' = [acks EXCEPT ![c] = {}]
        /\ UNCHANGED <<quorum, pc, task, stamp>>
    BY <1>12 DEF CoordinatorEnds, Closed, acknowledge, past
  <2>2. pc[c] \notin {"idle", "queued", "applying", "applied"}
    BY <2>1 DEF Counted, Tallies, Ordered, Turns
  <2>3. /\ co'[c] = "done" /\ reply'[c] = IF reply[c] = "none" THEN "failed" ELSE reply[c]
        /\ \A d \in Calls : d # c =>
             co'[d] = co[d] /\ reply'[d] = reply[d] /\ acks'[d] = acks[d]
    BY <2>1 DEF Counted, Tallies, Ordered, Shape
  <2>. QED
    <3>1. \A d \in Calls : tasks(d)' = tasks(d)
      BY <2>1 DEF tasks
    <3>2. \A d \in Calls :
            pc'[d] \in {"idle", "queued", "applying", "applied"} \/ co'[d] = "start" =>
              reply'[d] = "none"
      BY <2>1, <2>2, <2>3 DEF Counted, Tallies, Verdicts
    <3>3. \A d \in Calls : reply'[d] = "ok" => reply[d] = "ok"
      BY <2>3
    <3>. QED
      BY <2>1, <2>3, <3>1, <3>2, <3>3, QuietCounted
<1>13. ASSUME NEW c \in Calls, CoordinatorAborted(c) PROVE Tallies'
  BY <1>13, QuietCounted, ZenonT(60)
  DEF Counted, Tallies, Ordered, Shape, Turns, Verdicts, Stamps, Over, Running,
      Goto, fan, past, tasks, CoordinatorAborted, acknowledge
<1>14. ASSUME NEW c \in Calls, NEW r \in Replicas, ReplicaApplies(c, r)
      PROVE  Tallies'
  <2>1. \A d \in Calls : co[d] = "fan" => tasks(d)' = tasks(d)
    BY <1>14 DEF Counted, Tallies, Ordered, Shape, tasks, Pending, Finished, SetTask, ReplicaApplies
  <2>2. UNCHANGED <<quorum, pc, co, acks, reply, stamp>>
    BY <1>14 DEF ReplicaApplies
  <2>. QED
    BY <2>1, <2>2, QuietCounted DEF Counted, Tallies, Verdicts
<1>15. ASSUME NEW c \in Calls, NEW r \in Replicas, ReplicaAnswers(c, r)
      PROVE  Tallies'
  <2>1. \A d \in Calls : co[d] = "fan" => tasks(d)' = tasks(d)
    BY <1>15 DEF Counted, Tallies, Ordered, Shape, tasks, Pending, Finished, SetTask, ReplicaAnswers
  <2>2. UNCHANGED <<quorum, pc, co, acks, reply, stamp>>
    BY <1>15 DEF ReplicaAnswers, past
  <2>. QED
    BY <2>1, <2>2, QuietCounted DEF Counted, Tallies, Verdicts
<1>16. ASSUME NEW c \in Calls, NEW r \in Replicas, TaskDropped(c, r)
      PROVE  Tallies'
  <2>1. \A d \in Calls : co[d] = "fan" => tasks(d)' = tasks(d)
    BY <1>16 DEF Counted, Tallies, Ordered, Shape, tasks, Pending, Finished, SetTask, TaskDropped
  <2>2. UNCHANGED <<quorum, pc, co, acks, reply, stamp>>
    BY <1>16 DEF TaskDropped, past
  <2>. QED
    BY <2>1, <2>2, QuietCounted DEF Counted, Tallies, Verdicts
<1>17. CASE DropMap \/ UNCHANGED vars
  BY <1>17, QuietCounted DEF DropMap, vars, fan, past, Counted, Tallies, Verdicts, tasks
<1>. QED
  BY <1>1, <1>2, <1>3, <1>4, <1>5, <1>6, <1>7, <1>8, <1>9, <1>10, <1>11, <1>12,
     <1>13, <1>14, <1>15, <1>16, <1>17, FanoutCounted, DeadlineCounted, JoinCounted
  DEF Next, CallStep, CoordinatorStep

(*****************************************************************************)
(* The handle of ReplicationState follows the coordinator that has work.     *)
(*****************************************************************************)
LEMMA TrackedNext == Ordered /\ Tracked /\ [Next]_vars => Tracked'
<1>. SUFFICES ASSUME Ordered, Tracked, [Next]_vars PROVE Tracked'
  OBVIOUS
<1>. USE ReplicationAssumption
     DEF Ordered, Shape, Turns, Tracked, Registers, WorkIsTracked, Over, Running, Goto, start
<1>1. ASSUME NEW c \in Calls, Invoke(c) PROVE Tracked'
  BY <1>1 DEF Invoke
<1>2. ASSUME NEW c \in Calls, Expire(c) PROVE Tracked'
  BY <1>2 DEF Expire
<1>3. ASSUME NEW c \in Calls, CallerGone(c) PROVE Tracked'
  BY <1>3 DEF CallerGone
<1>4. ASSUME NEW c \in Calls, Granted(c) PROVE Tracked'
  BY <1>4 DEF Granted
<1>5. ASSUME NEW c \in Calls, QueueTimeout(c) PROVE Tracked'
  BY <1>5 DEF QueueTimeout
<1>6. ASSUME NEW c \in Calls, ApplyLocal(c) PROVE Tracked'
  BY <1>6 DEF ApplyLocal
<1>7. ASSUME NEW c \in Calls, ApplyTimeout(c) PROVE Tracked'
  BY <1>7 DEF ApplyTimeout
<1>8. ASSUME NEW c \in Calls, StartWorker(c) PROVE Tracked'
  BY <1>8 DEF StartWorker
<1>9. ASSUME NEW c \in Calls, Register(c) PROVE Tracked'
  BY <1>9 DEF Register
<1>10. ASSUME NEW c \in Calls, Return(c) PROVE Tracked'
  BY <1>10 DEF Return
<1>11. ASSUME NEW c \in Calls, ClonePanics(c) PROVE Tracked'
  BY <1>11 DEF ClonePanics
<1>12. ASSUME NEW c \in Calls, Fanout(c) PROVE Tracked'
  BY <1>12 DEF Fanout
<1>13. ASSUME NEW c \in Calls, Deadline(c) PROVE Tracked'
  BY <1>13 DEF Deadline
<1>14. ASSUME NEW c \in Calls, CoordinatorEnds(c) PROVE Tracked'
  BY <1>14 DEF CoordinatorEnds, Closed
<1>15. ASSUME NEW c \in Calls, CoordinatorAborted(c) PROVE Tracked'
  BY <1>15 DEF CoordinatorAborted
<1>16. ASSUME NEW c \in Calls, NEW r \in Replicas,
             join_next(c, r) \/ ReplicaApplies(c, r) \/ ReplicaAnswers(c, r) \/ TaskDropped(c, r)
      PROVE  Tracked'
  BY <1>16 DEF join_next, ReplicaApplies, ReplicaAnswers, TaskDropped
<1>17. CASE DropMap \/ UNCHANGED vars
  BY <1>17 DEF DropMap, vars
<1>. QED
  BY <1>1, <1>2, <1>3, <1>4, <1>5, <1>6, <1>7, <1>8, <1>9, <1>10, <1>11,
     <1>12, <1>13, <1>14, <1>15, <1>16, <1>17
  DEF Next, CallStep, CoordinatorStep

(*****************************************************************************)
(* A map fresh from try_with_replication satisfies the inductive invariant.  *)
(*****************************************************************************)
LEMMA InvInit == Init => Counted /\ Tracked
<1>. SUFFICES ASSUME Init PROVE Counted /\ Tracked
  OBVIOUS
<1>. USE ReplicationAssumption DEF Init, Over, Running
<1>1. Shape
  <2>1. quorum \in Nat
    <3>1. Cardinality(Replicas) \in Nat
      BY FS_CardinalityType
    <3>. QED
      BY <3>1 DEF replica_count
  <2>2. log \in [Replicas -> Seq(Calls)] /\ acks \in [Calls -> SUBSET Replicas]
    OBVIOUS
  <2>3. task \in [Calls -> [Replicas -> {"none", "gone"} \cup Pending \cup Finished]]
    OBVIOUS
  <2>. QED
    BY <2>1, <2>2, <2>3 DEF Shape
<1>2. Turns /\ Stamps
  BY DEF Turns, Stamps
<1>3. Fans /\ ReplicasFollow
  BY DEF Fans, ReplicasFollow, AppliedBy
<1>4. Verdicts /\ SuccessHasQuorum /\ FailureIsFinal
  BY DEF Verdicts, SuccessHasQuorum, FailureIsFinal
<1>5. Tracked
  BY DEF Tracked, Registers, WorkIsTracked
<1>. QED
  BY <1>1, <1>2, <1>3, <1>4, <1>5 DEF Counted, Tallies, Ordered

(*****************************************************************************)
(* The inductive invariant: turns, the primary's order, what answers say of  *)
(* replicas, counts and verdicts, and the registered handle.                 *)
(*****************************************************************************)
THEOREM ReplicationInvariant == Spec => [](Counted /\ Tracked)
<1>1. Counted /\ Tracked /\ [Next]_vars => (Counted /\ Tracked)'
  BY OrderedNext, CountedNext, TrackedNext DEF Counted, Tallies
<1>. QED
  BY <1>1, InvInit, PTL DEF Spec, Safety

(*****************************************************************************)
(* insert_replicated and remove_replicated succeed only when the primary and *)
(* enough replicas have applied the write, however many replicas there are   *)
(* and whichever of them fail, hang or answer late.                          *)
(*****************************************************************************)
THEOREM SuccessMeansQuorum == Spec => []SuccessHasQuorum
<1>1. Counted /\ Tracked => SuccessHasQuorum
  BY DEF Counted, Tallies
<1>. QED
  BY <1>1, ReplicationInvariant, PTL

(*****************************************************************************)
(* A call told that its quorum failed or timed out never reaches it later.   *)
(*****************************************************************************)
THEOREM FailuresAreFinal == Spec => []FailureIsFinal
<1>1. Counted /\ Tracked => FailureIsFinal
  BY DEF Counted, Tallies
<1>. QED
  BY <1>1, ReplicationInvariant, PTL

(*****************************************************************************)
(* Each replica applies writes at most once and in the primary's order, also *)
(* after timeouts, cancelled callers and early answers.                      *)
(*****************************************************************************)
THEOREM ReplicasKeepOrder == Spec => []ReplicasFollow
<1>1. Counted /\ Tracked => ReplicasFollow
  BY DEF Counted, Tallies, Ordered
<1>. QED
  BY <1>1, ReplicationInvariant, PTL

(*****************************************************************************)
(* ReplicationState::drop aborts the only coordinator with work left.        *)
(*****************************************************************************)
THEOREM HandleIsCurrent == Spec => []WorkIsTracked
<1>1. Counted /\ Tracked => WorkIsTracked
  BY DEF Tracked
<1>. QED
  BY <1>1, ReplicationInvariant, PTL
=============================================================================
