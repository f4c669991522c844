------------------------------- MODULE MapSpec -------------------------------
(*****************************************************************************)
(* What starshard promises its callers: one map, on which every call takes   *)
(* effect at a single instant between its invocation and its return.         *)
(* Shards, generations, locks, epochs and caches do not exist here; the      *)
(* module ShardedMap is shown to implement this one.                         *)
(*                                                                           *)
(* The calls, and what each returns, are those of the public methods of      *)
(* ShardedHashMap.  A call whose user code panics (Hash, Eq, Clone, Drop, a  *)
(* callback) ends with PanickedReply and may or may not have taken effect;   *)
(* bulk calls and transactions may then have taken effect in part, which     *)
(* README.md:301 states for transactions.                                    *)
(*****************************************************************************)
EXTENDS MapCalls

VARIABLES
  map,        \* [Keys -> OptVal]
  status,     \* of each thread: "idle", "called" or "answered"
  call,       \* its call
  answer      \* what it will return: a reply, with the items of a snapshot

specVars == <<map, status, call, answer>>

Init ==
  /\ map = [k \in Keys |-> Nil]
  /\ status = [t \in Threads |-> "idle"]
  /\ call = [t \in Threads |-> NoCall]
  /\ answer = [t \in Threads |-> NoReply]

Invoke(t, c) ==
  /\ status[t] = "idle"
  /\ status' = [status EXCEPT ![t] = "called"]
  /\ call' = [call EXCEPT ![t] = c]
  /\ UNCHANGED <<map, answer>>

Finish(t, reply) ==
  /\ status[t] = "called"
  /\ status' = [status EXCEPT ![t] = "answered"]
  /\ answer' = [answer EXCEPT ![t] = reply]
  /\ UNCHANGED call

DoKey(t) ==
  LET c == call[t] IN
  /\ c.op \in KeyOps
  /\ map' = [map EXCEPT ![c.key] = After(c, map[c.key])]
  /\ Finish(t, Answer(c, map[c.key]))

DoTxn(t) ==
  LET c == call[t] IN
  /\ c.op = "txn"
  /\ map' = AfterSteps(c.steps, Len(c.steps), map)
  /\ Finish(t, DoneReply)

DoSnapshot(t) ==
  /\ call[t].op \in {"snapshot", "view"}
  /\ Finish(t, [tag |-> "snapshot", items |-> Pairs(map)])
  /\ UNCHANGED map

Survivors(c) == IF c.op = "retain" THEN c.keep ELSE {}

DoSweep(t) ==
  LET c == call[t] IN
  /\ c.op \in {"clear", "retain"}
  /\ map' = [k \in Keys |-> IF k \in Survivors(c) THEN map[k] ELSE Nil]
  /\ Finish(t, DoneReply)

(*****************************************************************************)
(* User code panicked inside the call.                                       *)
(*****************************************************************************)
DoPanic(t) ==
  LET c == call[t] IN
  /\ \/ UNCHANGED map
     \/ c.op \in KeyOps /\ map' = [map EXCEPT ![c.key] = After(c, map[c.key])]
     \/ c.op = "txn" /\ \E n \in 0..Len(c.steps) : map' = AfterSteps(c.steps, n, map)
     \/ c.op \in {"clear", "retain"} /\ \E gone \in SUBSET (Keys \ Survivors(c)) :
           map' = [k \in Keys |-> IF k \in gone THEN Nil ELSE map[k]]
  /\ Finish(t, PanickedReply)

Return(t) ==
  /\ status[t] = "answered"
  /\ status' = [status EXCEPT ![t] = "idle"]
  /\ call' = [call EXCEPT ![t] = NoCall]
  /\ answer' = [answer EXCEPT ![t] = NoReply]
  /\ UNCHANGED map

Next ==
  \E t \in Threads :
    \/ \E c \in Calls : Invoke(t, c)
    \/ DoKey(t) \/ DoTxn(t) \/ DoSnapshot(t) \/ DoSweep(t) \/ DoPanic(t)
    \/ Return(t)

Spec == Init /\ [][Next]_specVars
=============================================================================
