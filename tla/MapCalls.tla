------------------------------ MODULE MapCalls ------------------------------
(*****************************************************************************)
(* The calls of the public interface of ShardedHashMap, and the contract of  *)
(* each: what it leaves in the map and what it returns, from what it finds.  *)
(*****************************************************************************)
EXTENDS Integers, Sequences

CONSTANTS
  Threads,    \* the callers
  Keys,
  Vals,
  Nil,        \* "no value": Option::None
  Calls       \* the calls a thread may make, a subset of AllCalls

ASSUME NilAssumption == Nil \notin Vals

OptVal == Vals \cup {Nil}

(*****************************************************************************)
(* Calls.  "exp" is the expected value of a compare-and-swap, "new" the      *)
(* value to store or the answer of the caller's callback (Nil: remove).      *)
(*****************************************************************************)
KeyOps == {"get", "insert", "remove", "get_or_insert", "compute",
           "cas", "compare_and_remove"}

KeyCalls == [op : KeyOps, key : Keys, exp : OptVal, new : OptVal]

TxnSteps == [op : {"read", "write", "remove"}, key : Keys, new : OptVal]

TxnCalls == [op : {"txn"}, steps : Seq(TxnSteps)]

SnapCalls == [op : {"snapshot", "view"}]

SweepCalls == [op : {"clear"}] \cup [op : {"retain"}, keep : SUBSET Keys]

AllCalls == KeyCalls \cup TxnCalls \cup SnapCalls \cup SweepCalls

(*****************************************************************************)
(* A key call only makes sense with the arguments its method takes: a value  *)
(* to insert, an expected value to compare with.                             *)
(*****************************************************************************)
WellFormed(c) ==
  /\ c.op \in {"insert", "get_or_insert", "cas"} => c.new # Nil
  /\ c.op \in {"cas", "compare_and_remove"} => c.exp # Nil
  /\ c.op = "txn" => \A i \in DOMAIN c.steps :
                        c.steps[i].op = "write" => c.steps[i].new # Nil

ASSUME CallsAssumption ==
  /\ Calls \subseteq AllCalls
  /\ \A c \in Calls : WellFormed(c)

(*****************************************************************************)
(* What a key call leaves under its key and what it returns, from the value  *)
(* it finds.                                                                 *)
(*****************************************************************************)
After(c, old) ==
  CASE c.op = "get"                -> old
    [] c.op = "insert"             -> c.new
    [] c.op = "remove"             -> Nil
    [] c.op = "get_or_insert"      -> IF old = Nil THEN c.new ELSE old
    [] c.op = "compute"            -> IF old = Nil THEN Nil ELSE c.new
    [] c.op = "cas"                -> IF old = c.exp THEN c.new ELSE old
    [] c.op = "compare_and_remove" -> IF old = c.exp THEN Nil ELSE old

KeyReply(hit, v) == [tag |-> "key", ok |-> hit, val |-> v]

Answer(c, old) ==
  CASE c.op \in {"get", "insert", "remove"} -> KeyReply(old # Nil, old)
    [] c.op = "get_or_insert"      -> KeyReply(TRUE, After(c, old))
    [] c.op = "compute"            -> KeyReply(After(c, old) # Nil, After(c, old))
    [] c.op = "cas"                -> KeyReply(old = c.exp,
                                               IF old \in {c.exp, Nil} THEN c.new ELSE old)
    [] c.op = "compare_and_remove" -> KeyReply(old = c.exp, Nil)

(*****************************************************************************)
(* The map after the first n steps of a transaction: under each key, what    *)
(* the last of them that writes it left there.                               *)
(*****************************************************************************)
Writes(step, k) == step.key = k /\ step.op \in {"write", "remove"}

AfterSteps(steps, n, old) ==
  [k \in Keys |->
     IF \E i \in 1..n : Writes(steps[i], k)
     THEN LET last == CHOOSE i \in 1..n :
                        /\ Writes(steps[i], k)
                        /\ \A j \in (i + 1)..n : ~Writes(steps[j], k)
          IN  IF steps[last].op = "write" THEN steps[last].new ELSE Nil
     ELSE old[k]]

Pairs(f) == {<<k, f[k]>> : k \in {j \in Keys : f[j] # Nil}}

NoReply       == [tag |-> "none"]
DoneReply     == [tag |-> "done"]
PanickedReply == [tag |-> "panicked"]
NoCall        == [op |-> "none"]
=============================================================================
