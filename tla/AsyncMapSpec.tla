---------------------------- MODULE AsyncMapSpec ----------------------------
(*****************************************************************************)
(* What the asynchronous map promises its callers, who may drop the future   *)
(* of a call at any time.  One map: a call takes effect at one instant, a    *)
(* batch a few keys at a time; a call that returns has taken effect          *)
(* completely; a call that is dropped has either taken effect or not, and    *)
(* of a batch or of retain some keys are done and the others untouched.      *)
(* Nobody sees a retain half done.  A bounded map may forget entries.        *)
(*****************************************************************************)
EXTENDS AsyncCalls

VARIABLES
  map,        \* [Keys -> OptVal]
  bounded,    \* is eviction configured?
  call,       \* each task's call
  left,       \* the keys its call has still to deal with
  answer,     \* what it will return
  drops       \* how many calls were dropped

specVars == <<map, bounded, call, left, answer, drops>>

\* A map that has been in use, with no call under way.
Init ==
  /\ map \in [Keys -> OptVal]
  /\ bounded \in BOOLEAN
  /\ call = [t \in Threads |-> NoCall]
  /\ left = [t \in Threads |-> {}]
  /\ answer = [t \in Threads |-> NoReply]
  /\ drops = 0

Invoke(t, c) ==
  /\ call[t] = NoCall
  /\ call' = [call EXCEPT ![t] = c]
  /\ left' = [left EXCEPT ![t] = Concerned(c)]
  /\ answer' = [answer EXCEPT ![t] = NoAnswer(c)]
  /\ UNCHANGED <<map, bounded, drops>>

Sweeping(t) == call[t].op = "retain" /\ left[t] \notin {{}, Keys}

TakeEffect(t, part) ==
  LET c == call[t] IN
  /\ part # {}
  /\ Whole(c) => part = left[t]
  /\ \A u \in Threads \ {t} : ~Sweeping(u)
  /\ left' = [left EXCEPT ![t] = @ \ part]
  /\ map' = [k \in Keys |-> IF k \in part THEN Leaves(c, map, k) ELSE map[k]]
  /\ answer' = [answer EXCEPT ![t] = Answered(c, @, map, part)]
  /\ UNCHANGED <<bounded, call, drops>>

Evict(K) ==
  /\ UNCHANGED <<bounded, call, left, answer, drops>>
  /\ map' = [k \in Keys |-> IF k \in K THEN Nil ELSE map[k]]

End(t) ==
  /\ call[t] # NoCall
  /\ call' = [call EXCEPT ![t] = NoCall]
  /\ left' = [left EXCEPT ![t] = {}]
  /\ answer' = [answer EXCEPT ![t] = NoReply]
  /\ UNCHANGED <<map, bounded>>

Return(t) == left[t] = {} /\ End(t) /\ UNCHANGED drops
Drop(t) == End(t) /\ drops' = drops + 1

Next ==
  \/ \E t \in Threads :
       \/ \E c \in CallsMade : Invoke(t, c)
       \/ \E part \in SUBSET left[t] : TakeEffect(t, part)
       \/ Return(t) \/ Drop(t)
  \/ bounded /\ \E K \in SUBSET Keys : Evict(K)

Spec == Init /\ [][Next]_specVars
=============================================================================
