-------------------------- MODULE Eviction_proofs --------------------------
(*****************************************************************************)
(* Capacity eviction, proved for every set of threads and keys, all weights, *)
(* limits, policies, layouts and calls.  The invariant has three layers:     *)
(* Base (types, calls, locks, epochs, stamps), Records (the length, the      *)
(* metadata, the candidates and the history agree with what is stored) and   *)
(* Limits (what every pass has achieved so far, and who still has to look).  *)
(* Each is inductive relative to the ones before.                            *)
(*****************************************************************************)
EXTENDS Eviction, FiniteSetTheorems, WellFoundedInduction, TLAPS

-----------------------------------------------------------------------------
(*****************************************************************************)
(* The invariants.                                                           *)
(*****************************************************************************)
Candidate == [key : Keys, epoch : Nat, entry : Entry]

Frame ==
  [call : Operations \cup {Commit, Nil}, from : Nat, weight : Nat, replaced : BOOLEAN,
   observed : Nat, observed_dirty : Nat, candidates : SUBSET Candidate,
   slots : SUBSET Shards, retry_exclusive : BOOLEAN]

Passing ==
  {"enforce", "glance", "share", "global", "repair", "publish", "plan", "evict"} \cup Trimming

Labels == {"idle", "mutate", "unwind", "sweep"} \cup Mutating \cup Passing

Values ==
  /\ config \in Configs /\ layout \in Layouts /\ stable \in BOOLEAN
  /\ data \in [Keys -> Nat \cup {Absent}]
  /\ meta \in [Keys -> Entry \cup {Nil}]
  /\ sequence \in Nat /\ epoch \in Nat
  /\ dirty_epoch \in Nat /\ repaired_epoch \in Nat
  /\ work_epoch \in Nat /\ maintained_epoch \in Nat
  /\ since \in [Keys -> Span \cup {Nil}]
  /\ pc \in [Threads -> Labels]

Shape == Values /\ frame \in [Threads -> Frame]

MutationCall == [op : {"insert", "remove"}, key : Keys]
SweepCall    == [op : {"retain", "clear"}]
PassCall     == [op : {"evict", "evict_lru"}, target : Nat] \cup [op : {"enforce", "commit"}]

\* A step is taken for a call that has such a step.
CallsFit ==
  \A t \in Threads :
    /\ pc[t] = "mutate" => call(t) \in MutationCall \cup SweepCall
    /\ pc[t] \in Mutating => call(t) \in MutationCall
    /\ pc[t] = "sweep" => call(t) \in SweepCall
    /\ pc[t] \in Passing => call(t) \in PassCall
    /\ pc[t] \in {"lock", "trim"} => frame[t].slots # {}
    /\ pc[t] \in {"share"} \cup Trimming =>
         config.max_entries = Nil /\ config.memory_budget = Nil

\* Who holds what excludes whom.
LocksExclude ==
  \A t, u \in Threads : t # u =>
    /\ pc[t] \in Exclusive => pc[u] \notin Mutating \cup Trimming \cup Exclusive
    /\ pc[t] \in Mutating =>
         /\ pc[u] \in Mutating => layout[call(u).key] # layout[call(t).key]
         /\ pc[u] = "trim" => shard(u) # layout[call(t).key]
    /\ pc[t] = "trim" /\ pc[u] = "trim" => shard(u) # shard(t)

\* What is repaired was dirty, what is maintained was work, what was read is past.
EpochsOrdered ==
  /\ repaired_epoch <= dirty_epoch /\ maintained_epoch <= work_epoch
  /\ \A t \in Threads :
       /\ frame[t].observed <= work_epoch
       /\ frame[t].observed_dirty <= dirty_epoch
       /\ frame[t].from <= sequence

\* Stamps are of the past, and no two entries share one.
StampsDiffer ==
  /\ \A k \in Keys : meta[k] # Nil =>
       /\ meta[k].incarnation < sequence /\ meta[k].inserted < sequence
       /\ meta[k].accessed < sequence
  /\ \A j, k \in Keys : meta[j] # Nil /\ meta[k] # Nil /\ j # k =>
       meta[j].incarnation # meta[k].incarnation /\ meta[j].accessed # meta[k].accessed

Base == Shape /\ StampsDiffer /\ CallsFit /\ LocksExclude /\ EpochsOrdered
-----------------------------------------------------------------------------
\* Somebody changed k and has neither accounted for it nor recorded it.
Unrecorded(k) == \E t \in Threads : pc[t] = "stored" /\ call(t).key = k

\* What the length counts: what is stored, or was before an unrecorded change.
Counted ==
  {k \in Keys : IF Unrecorded(k)
                THEN \E t \in Threads : pc[t] = "stored" /\ call(t).key = k /\ frame[t].replaced
                ELSE data[k] # Absent}

LengthCounts == total_len = Cardinality(Counted)

Exact(k) == IF data[k] = Absent THEN meta[k] = Nil ELSE meta[k] # Nil /\ meta[k].weight = data[k]

\* An unrecorded change: what it wrote, and what the metadata still says.
ChangesKnown ==
  \A t \in Threads : pc[t] = "stored" =>
    /\ data[call(t).key] = IF call(t).op = "insert" THEN frame[t].weight ELSE Absent
    /\ ~dirty => (frame[t].replaced <=> meta[call(t).key] # Nil)

\* So the candidates of a pass are in a strict order.
CandidatesDiffer ==
  \A t \in Threads : \A c, d \in frame[t].candidates : c # d =>
    /\ c.key # d.key
    /\ c.entry.incarnation # d.entry.incarnation /\ c.entry.accessed # d.entry.accessed

\* The locks of a pass keep its candidates what they were.
CandidatesValid ==
  \A t \in Threads :
    /\ pc[t] = "trim" => \A c \in frame[t].candidates : layout[c.key] = shard(t)
    /\ pc[t] \in {"trim", "evict"} /\ ~dirty =>
         \A c \in frame[t].candidates : c.epoch = epoch /\ meta[c.key] = c.entry

\* The stamp that a policy goes by is from the call that earned it.
Earned(e) == IF config.policy = "Fifo" THEN e.inserted ELSE e.accessed

SinceEarned ==
  \A k \in Keys : since[k] # Nil =>
    /\ data[k] # Absent \/ Unrecorded(k)
    /\ meta[k] # Nil
    /\ since[k].from <= Earned(meta[k]) /\ Earned(meta[k]) < since[k].to

Records ==
  /\ LengthCounts /\ MetadataExact /\ ChangesKnown
  /\ CandidatesDiffer /\ CandidatesValid /\ SinceEarned
-----------------------------------------------------------------------------
Candidates(t) == {c.key : c \in frame[t].candidates}

\* A shard being trimmed has all its entries among the candidates.
TrimCovers ==
  \A t \in Threads : pc[t] = "trim" /\ ~dirty => InShard(shard(t)) \subseteq Candidates(t)

\* An exclusive pass has dealt with what is not among its candidates any more, or takes one
\* candidate, the first of all, for the one entry too many.
PassCovers ==
  \A t \in Threads : pc[t] = "evict" /\ ~dirty =>
    \/ \A k \in Stored \ Candidates(t) : ~Excess(t, k)
    \/ /\ OnlyOne(t)
       /\ \E c \in frame[t].candidates :
            /\ frame[t].candidates = {c}
            /\ \A k \in Stored \ {c.key} :
                 Below(policy_rank(policy(t), c.entry), policy_rank(policy(t), meta[k]))

\* A shard within its limit that nobody is in.
Resting(i) ==
  /\ ~Over(Cardinality(InShard(i)), config.max_items_per_shard)
  /\ \A u \in Threads : pc[u] \in Mutating => layout[call(u).key] # i

\* As long as no work was begun since, the shards a pass is done with rest.
ShardsDone ==
  \A t \in Threads :
    /\ pc[t] \in {"scan", "lock", "trim"} /\ frame[t].observed = work_epoch
    /\ ~dirty /\ ~frame[t].retry_exclusive
    => \A i \in Shards \ frame[t].slots : Resting(i)

\* Where maintenance is up to date and the limits do not hold, somebody is about to look.
Looking(t) == pc[t] \in Mutating \cup {"unwind", "enforce", "glance", "share", "global"}

SomebodyLooks ==
  maintained_epoch = work_epoch /\ ~dirty => Within \/ \E t \in Threads : Looking(t)

\* Nobody finds maintenance up to date while a repair is under way.
RepairPending ==
  \A t \in Threads : pc[t] = "publish" => dirty /\ maintained_epoch < work_epoch

Limits == TrimCovers /\ PassCovers /\ ShardsDone /\ SomebodyLooks /\ RepairPending
-----------------------------------------------------------------------------
(*****************************************************************************)
(* Sums of weights: what holds of every sum is shown by a least set of keys  *)
(* for which it would fail.                                                  *)
(*****************************************************************************)
\* A set of numbers has a least one.
LEMMA LeastNatural ==
  ASSUME NEW T \in SUBSET Nat, T # {}
  PROVE  \E n \in T : \A m \in T : n <= m
<1>1. PICK n \in T : \A m \in T : ~(<<m, n>> \in OpToRel(<, Nat))
  BY NatLessThanWellFounded, WFMin
<1>2. \A m \in T : ~(m < n)
  BY <1>1 DEF OpToRel
<1>. QED
  BY <1>2

Chosen(s) == CHOOSE x \in s : TRUE

\* The recursion of Total, opened.
Summing(w, f) ==
  f = [s \in SUBSET Keys |->
        IF s = {} THEN 0 ELSE w[Chosen(s)] + f[s \ {Chosen(s)}]]

\* Total is the sum that a summing function of Keys computes.
LEMMA TotalOpened ==
  ASSUME NEW w
  PROVE  Total(w) = (CHOOSE f : Summing(w, f))[Keys]
  BY DEF Total, MapThenSumSet, MapThenFoldSet, Summing, Chosen

Small(n) == {s \in SUBSET Keys : Cardinality(s) <= n}

SummingSmall(w, n, f) ==
  f = [s \in Small(n) |->
        IF s = {} THEN 0 ELSE w[Chosen(s)] + f[s \ {Chosen(s)}]]

\* Without a chosen member a set of keys has one member less.
LEMMA OneLess ==
  ASSUME NEW s \in SUBSET Keys, s # {}
  PROVE  /\ Chosen(s) \in s
         /\ s \ {Chosen(s)} \in SUBSET Keys
         /\ Cardinality(s) \in Nat
         /\ Cardinality(s \ {Chosen(s)}) \in Nat
         /\ Cardinality(s \ {Chosen(s)}) = Cardinality(s) - 1
<1>1. IsFiniteSet(s)
  BY FS_Subset, EvictionAssumption
<1>2. PICK x \in s : x = Chosen(s)
  BY DEF Chosen
<1>3. Cardinality(s) \in Nat /\ IsFiniteSet(s \ {x}) /\ Cardinality(s \ {x}) = Cardinality(s) - 1
  BY <1>1, FS_CardinalityType, FS_RemoveElement
<1>4. Cardinality(s \ {x}) \in Nat
  BY <1>3, FS_CardinalityType
<1>. QED
  BY <1>2, <1>3, <1>4

\* A function that sums every set of at most n keys exists, for every n: no least n lacks one.
LEMMA SummingSmallExists ==
  ASSUME NEW w, NEW n \in Nat
  PROVE  \E f : SummingSmall(w, n, f)
<1>. DEFINE Bad == {m \in Nat : ~\E f : SummingSmall(w, m, f)}
<1>. SUFFICES ASSUME Bad # {} PROVE FALSE
  OBVIOUS
<1>1. PICK m \in Bad : \A j \in Bad : m <= j
  BY LeastNatural
<1>2. CASE m = 0
  <2>. DEFINE f == [s \in Small(0) |-> 0]
  <2>1. \A s \in Small(0) : s = {}
    <3>. SUFFICES ASSUME NEW s \in Small(0), s # {} PROVE FALSE
      OBVIOUS
    <3>1. s \in SUBSET Keys /\ Cardinality(s) <= 0
      BY DEF Small
    <3>2. Cardinality(s) \in Nat /\ Cardinality(s) - 1 \in Nat
      BY <3>1, OneLess
    <3>. QED
      BY <3>1, <3>2
  <2>2. SummingSmall(w, 0, f)
    BY <2>1 DEF SummingSmall
  <2>. QED
    BY <1>1, <1>2, <2>2
<1>3. CASE m # 0
  <2>1. PICK f : SummingSmall(w, m - 1, f)
    BY <1>1, <1>3
  <2>. DEFINE g == [s \in Small(m) |->
                      IF s = {} THEN 0 ELSE w[Chosen(s)] + f[s \ {Chosen(s)}]]
  <2>2. ASSUME NEW s \in Small(m), s # {}
        PROVE  /\ s \ {Chosen(s)} \in Small(m)
               /\ g[s \ {Chosen(s)}] = f[s \ {Chosen(s)}]
    <3>1. PICK r : r = s \ {Chosen(s)}
      OBVIOUS
    <3>2. r \in Small(m - 1) /\ r \in Small(m)
      BY <2>2, <3>1, <1>1, <1>3, OneLess DEF Small
    <3>3. f[r] = IF r = {} THEN 0 ELSE w[Chosen(r)] + f[r \ {Chosen(r)}]
      BY <2>1, <3>2 DEF SummingSmall
    <3>4. g[r] = IF r = {} THEN 0 ELSE w[Chosen(r)] + f[r \ {Chosen(r)}]
      BY <3>2
    <3>. QED
      BY <3>1, <3>2, <3>3, <3>4
  <2>3. g = [s \in Small(m) |->
              IF s = {} THEN 0
              ELSE w[Chosen(s)] + g[s \ {Chosen(s)}]]
    BY <2>2
  <2>4. SummingSmall(w, m, g)
    BY <2>3 DEF SummingSmall
  <2>. QED
    BY <1>1, <2>4
<1>. QED
  BY <1>2, <1>3

\* So there is one for all of Keys, and it is Total.
LEMMA TotalSums ==
  ASSUME NEW w
  PROVE  \E f : Summing(w, f) /\ Total(w) = f[Keys]
<1>1. PICK n \in Nat : n = Cardinality(Keys)
  BY EvictionAssumption, FS_CardinalityType
<1>2. Small(n) = SUBSET Keys
  BY <1>1, EvictionAssumption, FS_Subset DEF Small
<1>3. PICK f : SummingSmall(w, n, f)
  BY SummingSmallExists
<1>4. Summing(w, f)
  BY <1>2, <1>3 DEF Summing, SummingSmall
<1>5. Summing(w, CHOOSE g : Summing(w, g))
  BY <1>4
<1>. QED
  BY <1>5, TotalOpened

\* Smaller weights have a smaller total.
LEMMA TotalMonotone ==
  ASSUME NEW w \in [Keys -> Nat], NEW v \in [Keys -> Nat], \A k \in Keys : v[k] <= w[k]
  PROVE  Total(v) \in Nat /\ Total(w) \in Nat /\ Total(v) <= Total(w)
<1>1. PICK f : Summing(w, f) /\ Total(w) = f[Keys]
  BY TotalSums
<1>2. PICK g : Summing(v, g) /\ Total(v) = g[Keys]
  BY TotalSums
<1>. DEFINE Good(s) == f[s] \in Nat /\ g[s] \in Nat /\ g[s] <= f[s]
            Bad == {n \in Nat : \E s \in SUBSET Keys : n = Cardinality(s) /\ ~Good(s)}
<1>3. \A s \in SUBSET Keys : Cardinality(s) \in Nat
  BY EvictionAssumption, FS_Subset, FS_CardinalityType
<1>4. SUFFICES ASSUME Bad # {} PROVE FALSE
  BY <1>1, <1>2, <1>3
<1>5. PICK n \in Bad : \A m \in Bad : n <= m
  BY <1>4, LeastNatural
<1>6. PICK s \in SUBSET Keys : n = Cardinality(s) /\ ~Good(s)
  BY <1>5
<1>7. s # {}
  BY <1>1, <1>2, <1>6 DEF Summing
<1>8. PICK x \in s : x = Chosen(s)
  BY <1>7, OneLess
<1>9. Good(s \ {x})
  BY <1>3, <1>5, <1>6, <1>7, <1>8, OneLess
<1>10. f[s] = w[x] + f[s \ {x}] /\ g[s] = v[x] + g[s \ {x}]
  BY <1>1, <1>2, <1>7, <1>8 DEF Summing
<1>. QED
  BY <1>6, <1>9, <1>10

\* Nothing weighs nothing.
LEMMA TotalZero ==
  ASSUME NEW w \in [Keys -> Nat], \A k \in Keys : w[k] = 0
  PROVE  Total(w) = 0
<1>1. PICK f : Summing(w, f) /\ Total(w) = f[Keys]
  BY TotalSums
<1>. DEFINE Bad == {n \in Nat : \E s \in SUBSET Keys : n = Cardinality(s) /\ f[s] # 0}
<1>3. \A s \in SUBSET Keys : Cardinality(s) \in Nat
  BY EvictionAssumption, FS_Subset, FS_CardinalityType
<1>4. SUFFICES ASSUME Bad # {} PROVE FALSE
  BY <1>1, <1>3
<1>5. PICK n \in Bad : \A m \in Bad : n <= m
  BY <1>4, LeastNatural
<1>6. PICK s \in SUBSET Keys : n = Cardinality(s) /\ f[s] # 0
  BY <1>5
<1>7. s # {}
  BY <1>1, <1>6 DEF Summing
<1>8. PICK x \in s : x = Chosen(s)
  BY <1>7, OneLess
<1>9. f[s \ {x}] = 0
  BY <1>3, <1>5, <1>6, <1>7, <1>8, OneLess
<1>10. f[s] = w[x] + f[s \ {x}]
  BY <1>1, <1>7, <1>8 DEF Summing
<1>. QED
  BY <1>6, <1>9, <1>10
-----------------------------------------------------------------------------
(*****************************************************************************)
(* The order of the candidates.                                              *)
(*****************************************************************************)
LEMMA LeastRank ==
  ASSUME NEW C, NEW r \in [C -> Nat \X Nat \X Nat], C # {},
         \A c, d \in C : c # d => r[c] # r[d]
  PROVE  \E c \in C : \A d \in C \ {c} : Below(r[c], r[d])
<1>0. \A c \in C : /\ r[c] = <<r[c][1], r[c][2], r[c][3]>>
                   /\ r[c][1] \in Nat /\ r[c][2] \in Nat /\ r[c][3] \in Nat
  OBVIOUS
<1>. DEFINE N1 == {r[c][1] : c \in C}
<1>1. PICK n1 \in N1 : \A m \in N1 : n1 <= m
  <2>. N1 \in SUBSET Nat /\ N1 # {}
    BY <1>0
  <2>. QED
    BY LeastNatural
<1>. DEFINE N2 == {r[c][2] : c \in {e \in C : r[e][1] = n1}}
<1>2. PICK n2 \in N2 : \A m \in N2 : n2 <= m
  <2>1. PICK c \in C : r[c][1] = n1
    BY <1>1
  <2>2. r[c][2] \in N2
    BY <2>1
  <2>3. N2 \in SUBSET Nat
    BY <1>0
  <2>. QED
    BY <2>2, <2>3, LeastNatural
<1>. DEFINE N3 == {r[c][3] : c \in {e \in C : r[e][1] = n1 /\ r[e][2] = n2}}
<1>3. PICK n3 \in N3 : \A m \in N3 : n3 <= m
  <2>1. PICK c \in C : r[c][1] = n1 /\ r[c][2] = n2
    BY <1>2
  <2>2. r[c][3] \in N3
    BY <2>1
  <2>3. N3 \in SUBSET Nat
    BY <1>0
  <2>. QED
    BY <2>2, <2>3, LeastNatural
<1>4. PICK c \in C : r[c][1] = n1 /\ r[c][2] = n2 /\ r[c][3] = n3
  BY <1>3
<1>5. ASSUME NEW d \in C \ {c} PROVE Below(r[c], r[d])
  <2>0. /\ r[d][1] \in Nat /\ r[d][2] \in Nat /\ r[d][3] \in Nat
        /\ r[c][1] \in Nat /\ r[c][2] \in Nat /\ r[c][3] \in Nat
    BY <1>0
  <2>1. n1 <= r[d][1]
    BY <1>1
  <2>2. r[d][1] = n1 => n2 <= r[d][2]
    BY <1>2
  <2>3. r[d][1] = n1 /\ r[d][2] = n2 => n3 <= r[d][3]
    BY <1>3
  <2>4. ~(r[d][1] = n1 /\ r[d][2] = n2 /\ r[d][3] = n3)
    BY <1>0, <1>4
  <2>. QED
    BY <2>0, <2>1, <2>2, <2>3, <2>4, <1>4 DEF Below
<1>. QED
  BY <1>4, <1>5

\* Of candidates with different stamps, First is one that goes before all others.
LEMMA FirstFirst ==
  ASSUME NEW p \in {"Lru", "Lfu", "Fifo"}, NEW C \in SUBSET Candidate, C # {},
         \A c, d \in C : c # d =>
           c.entry.incarnation # d.entry.incarnation /\ c.entry.accessed # d.entry.accessed
  PROVE  /\ First(p, C) \in C
         /\ \A d \in C \ {First(p, C)} :
              Below(policy_rank(p, First(p, C).entry), policy_rank(p, d.entry))
<1>1. PICK r : r = [c \in C |-> policy_rank(p, c.entry)]
  OBVIOUS
<1>2. r \in [C -> Nat \X Nat \X Nat]
  BY <1>1 DEF policy_rank, Candidate, Entry
<1>3. \A c, d \in C : c # d => r[c] # r[d]
  <2>. SUFFICES ASSUME NEW c \in C, NEW d \in C, c # d PROVE r[c] # r[d]
    OBVIOUS
  <2>1. c.entry.incarnation # d.entry.incarnation /\ c.entry.accessed # d.entry.accessed
    OBVIOUS
  <2>2. r[c] = policy_rank(p, c.entry) /\ r[d] = policy_rank(p, d.entry)
    BY <1>1
  <2>3. CASE p = "Lru"
    BY <2>1, <2>2, <2>3 DEF policy_rank
  <2>4. CASE p = "Lfu"
    BY <2>1, <2>2, <2>4 DEF policy_rank
  <2>5. CASE p = "Fifo"
    BY <2>1, <2>2, <2>5 DEF policy_rank
  <2>. QED
    BY <2>3, <2>4, <2>5
<1>4. \E c \in C : \A d \in C \ {c} : Below(r[c], r[d])
  BY <1>2, <1>3, LeastRank
<1>5. \E c \in C : \A d \in C \ {c} : Below(policy_rank(p, c.entry), policy_rank(p, d.entry))
  BY <1>1, <1>4
<1>. QED
  BY <1>5 DEF First
-----------------------------------------------------------------------------
(*****************************************************************************)
(* Types, calls, locks and epochs.                                           *)
(*****************************************************************************)
LEMMA EmptyFrames ==
  EmptyFrame \in Frame /\ [EmptyFrame EXCEPT !.call = Commit] \in Frame
  BY DEF EmptyFrame, Frame, Commit

\* A frame's fields have their types.
LEMMA FrameFields ==
  ASSUME NEW f \in Frame
  PROVE  /\ f.call \in Operations \cup {Commit, Nil} /\ f.from \in Nat /\ f.weight \in Nat
         /\ f.replaced \in BOOLEAN /\ f.observed \in Nat /\ f.observed_dirty \in Nat
         /\ f.candidates \in SUBSET Candidate /\ f.slots \in SUBSET Shards
         /\ f.retry_exclusive \in BOOLEAN
  BY DEF Frame

\* A frame with a field replaced by a value of its type is a frame.
LEMMA FrameUpdates ==
  ASSUME NEW f \in Frame, NEW n \in Nat, NEW b \in BOOLEAN,
         NEW C \in SUBSET Candidate, NEW S \in SUBSET Shards
  PROVE  /\ \A c \in Operations : [f EXCEPT !.call = c, !.weight = n] \in Frame
         /\ [f EXCEPT !.from = n] \in Frame
         /\ [f EXCEPT !.replaced = b] \in Frame
         /\ [f EXCEPT !.observed = n] \in Frame
         /\ [f EXCEPT !.observed_dirty = n] \in Frame
         /\ [f EXCEPT !.observed = n, !.retry_exclusive = b] \in Frame
         /\ [f EXCEPT !.observed = n, !.slots = S] \in Frame
         /\ [f EXCEPT !.observed = n, !.candidates = C] \in Frame
         /\ [f EXCEPT !.slots = S] \in Frame
         /\ [f EXCEPT !.candidates = C] \in Frame
         /\ [f EXCEPT !.candidates = C, !.slots = S, !.retry_exclusive = b] \in Frame
  BY DEF Frame

\* A step that replaces one thread's frame keeps the frames typed.
LEMMA OneFrame ==
  ASSUME frame \in [Threads -> Frame], NEW t \in Threads, NEW f \in Frame,
         frame' = [frame EXCEPT ![t] = f]
  PROVE  frame' \in [Threads -> Frame]
  OBVIOUS

\* candidates and candidates_for_keys return candidates.
LEMMA CandidatesTyped ==
  ASSUME Shape, NEW K \in SUBSET Keys
  PROVE  candidates(K) \in SUBSET Candidate
  BY DEF Shape, Values, candidates, Candidate

\* Who is a candidate is one for its key alone.
LEMMA CandidatesApart ==
  ASSUME Shape, StampsDiffer, NEW K \in SUBSET Keys
  PROVE  \A c, d \in candidates(K) : c # d =>
           /\ c.key # d.key
           /\ c.entry.incarnation # d.entry.incarnation /\ c.entry.accessed # d.entry.accessed
  BY DEF Shape, Values, StampsDiffer, candidates

\* A pass goes by one of the three policies.
LEMMA PolicyKnown ==
  ASSUME Shape, NEW t \in Threads
  PROVE  policy(t) \in {"Lru", "Lfu", "Fifo"}
  BY EvictionAssumption DEF Shape, Values, policy

\* Sets of keys are finite.
LEMMA CardinalityKeys ==
  ASSUME NEW S \in SUBSET Keys
  PROVE  IsFiniteSet(S) /\ Cardinality(S) \in Nat
  BY EvictionAssumption, FS_Subset, FS_CardinalityType

\* EvictKey or nothing, whatever the candidate.
LEMMA TryEvictTyped ==
  ASSUME Values, NEW c, TryEvict(c)
  PROVE  /\ data' \in [Keys -> Nat \cup {Absent}] /\ meta' \in [Keys -> Entry \cup {Nil}]
         /\ since' \in [Keys -> Span \cup {Nil}]
  BY DEF Values, TryEvict, EvictKey, map

\* What reconcile writes: a new incarnation of everything stored, and of nothing else.
Reconciled(stamp, k) ==
  IF k \notin Stored THEN meta'[k] = Nil
  ELSE /\ meta'[k] \in Entry
       /\ meta'[k].incarnation = stamp[k] /\ meta'[k].weight = data[k]
       /\ IF meta[k] = Nil
          THEN meta'[k].inserted = stamp[k] /\ meta'[k].accessed = stamp[k]
          ELSE meta'[k].inserted = meta[k].inserted /\ meta'[k].accessed = meta[k].accessed

\* What LifecycleState::reconcile writes: metadata for what is stored, with fresh stamps.
LEMMA PublishWrites ==
  ASSUME Shape, NEW t \in Threads, Publish(t)
  PROVE  \E n \in Nat : \E stamp \in [Stored -> sequence..sequence + n - 1] :
           /\ sequence' = sequence + n
           /\ \A j, k \in Stored : stamp[j] = stamp[k] => j = k
           /\ \A k \in Keys : Reconciled(stamp, k)
           /\ meta' \in [Keys -> Entry \cup {Nil}]
<1>1. PICK n \in Nat : n = Cardinality(Stored)
  BY CardinalityKeys DEF Stored
<1>2. PICK stamp \in [Stored -> sequence..sequence + n - 1] :
        /\ \A j, k \in Stored : stamp[j] = stamp[k] => j = k
        /\ meta' = [k \in Keys |->
             IF k \notin Stored THEN Nil
             ELSE IF meta[k] = Nil
             THEN [incarnation |-> stamp[k], inserted |-> stamp[k], accessed |-> stamp[k],
                   frequency |-> 1, weight |-> data[k]]
             ELSE [meta[k] EXCEPT !.incarnation = stamp[k], !.weight = data[k]]]
  BY <1>1 DEF Publish
<1>3. ASSUME NEW k \in Keys PROVE Reconciled(stamp, k)
  <2>1. CASE k \notin Stored
    BY <1>2, <2>1 DEF Reconciled
  <2>2. CASE k \in Stored
    <3>1. stamp[k] \in Nat
      BY <2>2 DEF Shape, Values
    <3>2. data[k] \in Nat
      BY <2>2 DEF Stored, Shape, Values
    <3>3. PICK e, m : e = meta[k] /\ m = meta'[k]
      OBVIOUS
    <3>4. CASE e = Nil
      <4>1. m = [incarnation |-> stamp[k], inserted |-> stamp[k], accessed |-> stamp[k],
                 frequency |-> 1, weight |-> data[k]]
        BY <1>2, <2>2, <3>3, <3>4
      <4>2. /\ m \in Entry /\ m.incarnation = stamp[k] /\ m.weight = data[k]
            /\ m.inserted = stamp[k] /\ m.accessed = stamp[k]
        BY <3>1, <3>2, <4>1 DEF Entry
      <4>. QED
        BY <2>2, <3>3, <3>4, <4>2 DEF Reconciled
    <3>5. CASE e # Nil
      <4>1. e \in Entry
        BY <3>3, <3>5 DEF Shape, Values
      <4>2. m = [e EXCEPT !.incarnation = stamp[k], !.weight = data[k]]
        BY <1>2, <2>2, <3>3, <3>5
      <4>3. /\ m \in Entry /\ m.incarnation = stamp[k] /\ m.weight = data[k]
            /\ m.inserted = e.inserted /\ m.accessed = e.accessed
        BY <3>1, <3>2, <4>1, <4>2 DEF Entry
      <4>. QED
        BY <2>2, <3>3, <3>5, <4>3 DEF Reconciled
    <3>. QED
      BY <3>4, <3>5
  <2>. QED
    BY <2>1, <2>2
<1>4. meta' \in [Keys -> Entry \cup {Nil}]
  <2>1. \A k \in Keys : meta'[k] \in Entry \cup {Nil}
    BY <1>3 DEF Reconciled
  <2>. QED
    BY <1>2, <2>1
<1>5. sequence' = sequence + n
  BY <1>1 DEF Publish
<1>. QED
  BY <1>2, <1>3, <1>4, <1>5

\* Every step keeps the variables other than frame typed.
LEMMA ValuesNext ==
  ASSUME Base, [Next]_vars
  PROVE  Values'
<1>. USE EvictionAssumption
  DEF Base, Shape, Values, Labels, Passing, Mutating, Trimming, Exclusive,
      topology, map, ranks, epochs, bounds, Goto
<1>1. ASSUME NEW t \in Threads, Invoke(t) PROVE Values'
  BY <1>1, FrameFields DEF Invoke, weight
<1>2. ASSUME NEW t \in Threads, Begin(t) PROVE Values'
  BY <1>2, FrameFields DEF Begin, mark_pending, Committed
<1>3. ASSUME NEW t \in Threads, Store(t) PROVE Values'
  BY <1>3, FrameFields DEF Store
<1>4. ASSUME NEW t \in Threads, Record(t) PROVE Values'
  <2>. DEFINE k == call(t).key
  <2>1. pc' \in [Threads -> Labels] /\ frame[t].weight \in Nat /\ frame[t].from \in Nat
    BY <1>4, FrameFields DEF Record, Committed
  <2>2. meta' \in [Keys -> Entry \cup {Nil}] /\ sequence' \in Nat
    <3>1. CASE call(t).op = "insert"
      <4>1. meta' = [meta EXCEPT ![k] = meta'[k]] /\ sequence' = sequence + 1
        BY <1>4, <3>1 DEF Record, record_insert
      <4>2. k \in Keys => meta'[k] \in Entry
        BY <1>4, <2>1, <3>1 DEF Record, record_insert, Entry
      <4>. QED
        BY <4>1, <4>2
    <3>2. CASE call(t).op # "insert"
      BY <1>4, <3>2 DEF Record, record_remove
    <3>. QED
      BY <3>1, <3>2
  <2>3. since' \in [Keys -> Span \cup {Nil}]
    <3>1. since' = [since EXCEPT ![k] = since'[k]]
      BY <1>4 DEF Record
    <3>2. k \in Keys => since'[k] \in Span \cup {Nil}
      BY <1>4, <2>1 DEF Record, Span
    <3>. QED
      BY <3>1, <3>2
  <2>. QED
    BY <1>4, <2>1, <2>2, <2>3 DEF Record
<1>5. ASSUME NEW t \in Threads, Unwind(t) PROVE Values'
  BY <1>5, FrameFields DEF Unwind, Trouble, TicketDropped, Published, Unwinding
<1>6. ASSUME NEW t \in Threads, mark_dirty(t) PROVE Values'
  BY <1>6, FrameFields DEF mark_dirty, mark_pending, Return
<1>7. ASSUME NEW t \in Threads, BeginSweep(t) PROVE Values'
  BY <1>7, FrameFields DEF BeginSweep
<1>8. ASSUME NEW t \in Threads, SweepShard(t) PROVE Values'
  BY <1>8, FrameFields DEF SweepShard, Swept, mark_pending
<1>9. ASSUME NEW t \in Threads, SweepUnwinds(t) PROVE Values'
  BY <1>9, FrameFields DEF SweepUnwinds, Trouble, TicketDropped, Swept, mark_pending, Unwinding
<1>10. ASSUME NEW t \in Threads, EndSweep(t) PROVE Values'
  BY <1>10, FrameFields DEF EndSweep, Committed
<1>11. ASSUME NEW t \in Threads, Observe(t) PROVE Values'
  BY <1>11, FrameFields DEF Observe
<1>12. ASSUME NEW t \in Threads, Acknowledge(t) PROVE Values'
  BY <1>12, FrameFields DEF Acknowledge, Finish, mark_maintained, Return
<1>13. ASSUME NEW t \in Threads, Choose(t) PROVE Values'
  BY <1>13, FrameFields DEF Choose
<1>14. ASSUME NEW t \in Threads, Share(t) PROVE Values'
  BY <1>14, FrameFields DEF Share, mark_pending
<1>15. ASSUME NEW t \in Threads, maintenance_generation(t) PROVE Values'
  BY <1>15, FrameFields DEF maintenance_generation
<1>16. ASSUME NEW t \in Threads, Scan(t) PROVE Values'
  BY <1>16, FrameFields DEF Scan
<1>17. ASSUME NEW t \in Threads, Lock(t) PROVE Values'
  BY <1>17, FrameFields DEF Lock, candidates
<1>18. ASSUME NEW t \in Threads, Trim(t) PROVE Values'
  <2>1. pc' \in [Threads -> Labels]
    BY <1>18 DEF Trim
  <2>2. /\ data' \in [Keys -> Nat \cup {Absent}] /\ meta' \in [Keys -> Entry \cup {Nil}]
        /\ since' \in [Keys -> Span \cup {Nil}]
    BY <1>18, TryEvictTyped DEF Trim
  <2>. QED
    BY <1>18, <2>1, <2>2 DEF Trim
<1>19. ASSUME NEW t \in Threads, Trimmed(t) PROVE Values'
  BY <1>19, FrameFields DEF Trimmed, Finish, mark_maintained, Return
<1>20. ASSUME NEW t \in Threads, RetryExclusive(t) PROVE Values'
  BY <1>20, FrameFields DEF RetryExclusive
<1>21. ASSUME NEW t \in Threads, Exclude(t) PROVE Values'
  BY <1>21, FrameFields DEF Exclude, mark_pending
<1>22. ASSUME NEW t \in Threads, Repair(t) PROVE Values'
  BY <1>22, FrameFields DEF Repair, mark_pending
<1>23. ASSUME NEW t \in Threads, Publish(t) PROVE Values'
  <2>1. sequence' \in Nat /\ meta' \in [Keys -> Entry \cup {Nil}]
    <3>1. PICK n \in Nat : sequence' = sequence + n /\ meta' \in [Keys -> Entry \cup {Nil}]
      BY <1>23, PublishWrites
    <3>. QED
      BY <3>1
  <2>2. epoch' = epoch + 1 /\ repaired_epoch' \in Nat
    BY <1>23, FrameFields DEF Publish
  <2>3. pc' \in [Threads -> Labels]
    BY <1>23 DEF Publish
  <2>4. UNCHANGED <<config, layout, stable, data, dirty_epoch, work_epoch, maintained_epoch, since>>
    BY <1>23 DEF Publish
  <2>. QED
    BY <2>1, <2>2, <2>3, <2>4
<1>24. ASSUME NEW t \in Threads, Plan(t) PROVE Values'
  BY <1>24, FrameFields DEF Plan, candidates
<1>25. ASSUME NEW t \in Threads, Evict(t) PROVE Values'
  BY <1>25, FrameFields DEF Evict, TryEvict, EvictKey
<1>26. ASSUME NEW t \in Threads, Done(t) PROVE Values'
  BY <1>26, FrameFields DEF Done, Finish, mark_maintained, Return
<1>27. ASSUME NEW t \in Threads, PassUnwinds(t) PROVE Values'
  BY <1>27, FrameFields DEF PassUnwinds, Trouble, Unwinding, Return
<1>28. ASSUME NEW t \in Threads, NEW k \in Keys, Read(t, k) PROVE Values'
  <2>1. meta' \in [Keys -> Entry \cup {Nil}] /\ sequence' \in Nat
    BY <1>28 DEF Read, record_read, Entry
  <2>2. since' \in [Keys -> Span \cup {Nil}]
    BY <1>28 DEF Read, Span
  <2>. QED
    BY <1>28, <2>1, <2>2 DEF Read
<1>29. ASSUME Reshard PROVE Values'
  BY <1>29 DEF Reshard, Trouble, NewLayout, mark_pending
<1>30. ASSUME Migrated PROVE Values'
  BY <1>30 DEF Migrated
<1>31. ASSUME UNCHANGED vars PROVE Values'
  BY <1>31 DEF vars
<1>. QED
  BY <1>1, <1>2, <1>3, <1>4, <1>5, <1>6, <1>7, <1>8, <1>9, <1>10, <1>11, <1>12, <1>13, <1>14, <1>15, <1>16, <1>17, <1>18, <1>19, <1>20, <1>21, <1>22, <1>23, <1>24, <1>25, <1>26, <1>27, <1>28, <1>29, <1>30, <1>31 DEF Next, Step

\* Every step keeps the frames typed.
LEMMA FramesNext ==
  ASSUME Base, [Next]_vars
  PROVE  frame' \in [Threads -> Frame]
<1>1. ASSUME NEW t \in Threads, NEW f \in Frame, frame' = [frame EXCEPT ![t] = f]
      PROVE  frame' \in [Threads -> Frame]
  BY <1>1, OneFrame DEF Base, Shape
<1>2. frame \in [Threads -> Frame] /\ Values
  BY DEF Base, Shape
<1>3. /\ 0 \in Nat /\ work_epoch \in Nat /\ sequence \in Nat /\ dirty_epoch \in Nat
      /\ Shards \in SUBSET Shards /\ {} \in SUBSET Candidate
  BY <1>2 DEF Values
<1>4. ASSUME NEW t \in Threads, Invoke(t) PROVE frame' \in [Threads -> Frame]
  <2>1. PICK c \in Operations, w \in Nat :
          frame' = [frame EXCEPT ![t] = [frame[t] EXCEPT !.call = c, !.weight = w]]
    <3>1. PICK c \in Operations : \E w \in weight(c) :
            frame' = [frame EXCEPT ![t].call = c, ![t].weight = w]
      BY <1>4 DEF Invoke
    <3>2. PICK w \in weight(c) : frame' = [frame EXCEPT ![t].call = c, ![t].weight = w]
      BY <3>1
    <3>3. w \in Nat
      BY EvictionAssumption DEF weight
    <3>4. frame' = [frame EXCEPT ![t] = [frame[t] EXCEPT !.call = c, !.weight = w]]
      BY <1>2, <3>2
    <3>. QED
      BY <3>3, <3>4
  <2>2. [frame[t] EXCEPT !.call = c, !.weight = w] \in Frame
    BY <1>2, FrameUpdates
  <2>. QED
    BY <1>1, <2>1, <2>2
<1>5. ASSUME NEW t \in Threads, Begin(t) PROVE frame' \in [Threads -> Frame]
  BY <1>1, <1>2, <1>3, <1>5, EmptyFrames, FrameFields, FrameUpdates DEF Begin, Committed
<1>6. ASSUME NEW t \in Threads, Store(t) PROVE frame' \in [Threads -> Frame]
  <2>1. frame' = [frame EXCEPT ![t] = [frame[t] EXCEPT !.replaced = (data[call(t).key] # Absent)]]
    BY <1>2, <1>6 DEF Store
  <2>2. [frame[t] EXCEPT !.replaced = (data[call(t).key] # Absent)] \in Frame
    BY <1>2, <1>3, EmptyFrames, FrameFields, FrameUpdates
  <2>. QED
    BY <1>1, <2>1, <2>2
<1>7. ASSUME NEW t \in Threads, Record(t) PROVE frame' \in [Threads -> Frame]
  <2>1. frame' = [frame EXCEPT ![t] = [EmptyFrame EXCEPT !.call = Commit]]
    BY <1>2, <1>7 DEF Record, Committed
  <2>2. [EmptyFrame EXCEPT !.call = Commit] \in Frame
    BY <1>2, <1>3, EmptyFrames, FrameFields, FrameUpdates
  <2>. QED
    BY <1>1, <2>1, <2>2
<1>8. ASSUME NEW t \in Threads, Unwind(t) PROVE frame' \in [Threads -> Frame]
  <2>1. frame' = [frame EXCEPT ![t] = EmptyFrame]
    BY <1>2, <1>8 DEF Unwind, Unwinding
  <2>2. EmptyFrame \in Frame
    BY <1>2, <1>3, EmptyFrames, FrameFields, FrameUpdates
  <2>. QED
    BY <1>1, <2>1, <2>2
<1>9. ASSUME NEW t \in Threads, mark_dirty(t) PROVE frame' \in [Threads -> Frame]
  <2>1. frame' = [frame EXCEPT ![t] = EmptyFrame]
    BY <1>2, <1>9 DEF mark_dirty, Return
  <2>2. EmptyFrame \in Frame
    BY <1>2, <1>3, EmptyFrames, FrameFields, FrameUpdates
  <2>. QED
    BY <1>1, <2>1, <2>2
<1>10. ASSUME NEW t \in Threads, BeginSweep(t) PROVE frame' \in [Threads -> Frame]
  <2>1. frame' = [frame EXCEPT ![t] = [frame[t] EXCEPT !.slots = Shards]]
    BY <1>2, <1>10 DEF BeginSweep
  <2>2. [frame[t] EXCEPT !.slots = Shards] \in Frame
    BY <1>2, <1>3, EmptyFrames, FrameFields, FrameUpdates
  <2>. QED
    BY <1>1, <2>1, <2>2
<1>11. ASSUME NEW t \in Threads, SweepShard(t) PROVE frame' \in [Threads -> Frame]
  <2>1. frame' = [frame EXCEPT ![t] = [frame[t] EXCEPT !.slots = @ \ {shard(t)}]]
    BY <1>2, <1>11 DEF SweepShard
  <2>2. [frame[t] EXCEPT !.slots = @ \ {shard(t)}] \in Frame
    BY <1>2, <1>3, EmptyFrames, FrameFields, FrameUpdates
  <2>. QED
    BY <1>1, <2>1, <2>2
<1>12. ASSUME NEW t \in Threads, SweepUnwinds(t) PROVE frame' \in [Threads -> Frame]
  <2>1. frame' = [frame EXCEPT ![t] = EmptyFrame]
    BY <1>2, <1>12 DEF SweepUnwinds, Unwinding
  <2>2. EmptyFrame \in Frame
    BY <1>2, <1>3, EmptyFrames, FrameFields, FrameUpdates
  <2>. QED
    BY <1>1, <2>1, <2>2
<1>13. ASSUME NEW t \in Threads, EndSweep(t) PROVE frame' \in [Threads -> Frame]
  <2>1. frame' = [frame EXCEPT ![t] = [EmptyFrame EXCEPT !.call = Commit]]
    BY <1>2, <1>13 DEF EndSweep, Committed
  <2>2. [EmptyFrame EXCEPT !.call = Commit] \in Frame
    BY <1>2, <1>3, EmptyFrames, FrameFields, FrameUpdates
  <2>. QED
    BY <1>1, <2>1, <2>2
<1>14. ASSUME NEW t \in Threads, Observe(t) PROVE frame' \in [Threads -> Frame]
  <2>1. frame' = [frame EXCEPT ![t] = [frame[t] EXCEPT !.observed = work_epoch]]
    BY <1>2, <1>14 DEF Observe
  <2>2. [frame[t] EXCEPT !.observed = work_epoch] \in Frame
    BY <1>2, <1>3, EmptyFrames, FrameFields, FrameUpdates
  <2>. QED
    BY <1>1, <2>1, <2>2
<1>15. ASSUME NEW t \in Threads, Acknowledge(t) PROVE frame' \in [Threads -> Frame]
  <2>1. frame' = [frame EXCEPT ![t] = EmptyFrame]
    BY <1>2, <1>15 DEF Acknowledge, Finish, Return
  <2>2. EmptyFrame \in Frame
    BY <1>2, <1>3, EmptyFrames, FrameFields, FrameUpdates
  <2>. QED
    BY <1>1, <2>1, <2>2
<1>16. ASSUME NEW t \in Threads, Choose(t) PROVE frame' \in [Threads -> Frame]
  <2>1. frame' = [frame EXCEPT ![t] = [frame[t] EXCEPT !.observed = 0]]
    BY <1>2, <1>16 DEF Choose
  <2>2. [frame[t] EXCEPT !.observed = 0] \in Frame
    BY <1>2, <1>3, EmptyFrames, FrameFields, FrameUpdates
  <2>. QED
    BY <1>1, <2>1, <2>2
<1>17. ASSUME NEW t \in Threads, Share(t) PROVE frame' \in [Threads -> Frame]
  <2>1. frame' = [frame EXCEPT ![t] = frame[t]]
    BY <1>2, <1>17 DEF Share
  <2>2. frame[t] \in Frame
    BY <1>2, <1>3, EmptyFrames, FrameFields, FrameUpdates
  <2>. QED
    BY <1>1, <2>1, <2>2
<1>18. ASSUME NEW t \in Threads, maintenance_generation(t) PROVE frame' \in [Threads -> Frame]
  <2>1. PICK S \in SUBSET Shards :
          frame' = [frame EXCEPT ![t] = [frame[t] EXCEPT !.observed = work_epoch, !.slots = S]]
    <3>1. PICK vacant \in SUBSET (Shards \ InUse) :
            frame' = [frame EXCEPT ![t].observed = work_epoch, ![t].slots = Shards \ vacant]
      BY <1>18 DEF maintenance_generation
    <3>2. frame' = [frame EXCEPT ![t] =
                      [frame[t] EXCEPT !.observed = work_epoch, !.slots = Shards \ vacant]]
      BY <1>2, <3>1
    <3>. QED
      BY <3>2
  <2>2. [frame[t] EXCEPT !.observed = work_epoch, !.slots = S] \in Frame
    BY <1>2, <1>3, FrameUpdates
  <2>. QED
    BY <1>1, <2>1, <2>2
<1>19. ASSUME NEW t \in Threads, Scan(t) PROVE frame' \in [Threads -> Frame]
  BY <1>1, <1>2, <1>3, <1>19, EmptyFrames, FrameFields, FrameUpdates DEF Scan
<1>20. ASSUME NEW t \in Threads, Lock(t) PROVE frame' \in [Threads -> Frame]
  <2>1. frame' = [frame EXCEPT ![t] = [frame[t] EXCEPT !.candidates = candidates(InShard(shard(t)))]]
    BY <1>2, <1>20 DEF Lock
  <2>0. candidates(InShard(shard(t))) \in SUBSET Candidate
    BY CandidatesTyped DEF Base, InShard, Stored
  <2>2. [frame[t] EXCEPT !.candidates = candidates(InShard(shard(t)))] \in Frame
    BY <1>2, <1>3, <2>0, FrameUpdates
  <2>. QED
    BY <1>1, <2>1, <2>2
<1>21. ASSUME NEW t \in Threads, Trim(t) PROVE frame' \in [Threads -> Frame]
  <2>1. frame[t] \in Frame /\ frame[t].candidates \in SUBSET Candidate
        /\ frame[t].slots \in SUBSET Shards
    BY <1>2, FrameFields
  <2>2. CASE frame' = [frame EXCEPT ![t].candidates = @ \ {First(policy(t), frame[t].candidates)}]
    <3>1. frame' = [frame EXCEPT ![t] =
            [frame[t] EXCEPT !.candidates = @ \ {First(policy(t), frame[t].candidates)}]]
      BY <1>2, <2>2
    <3>2. [frame[t] EXCEPT !.candidates = @ \ {First(policy(t), frame[t].candidates)}] \in Frame
      BY <2>1, FrameUpdates
    <3>. QED
      BY <1>1, <3>1, <3>2
  <2>3. ASSUME NEW b \in BOOLEAN,
               frame' = [frame EXCEPT ![t].candidates = {}, ![t].slots = @ \ {shard(t)},
                                      ![t].retry_exclusive = b]
        PROVE  frame' \in [Threads -> Frame]
    <3>1. frame' = [frame EXCEPT ![t] = [frame[t] EXCEPT !.candidates = {}, !.slots = @ \ {shard(t)},
                                                         !.retry_exclusive = b]]
      BY <1>2, <2>3
    <3>2. [frame[t] EXCEPT !.candidates = {}, !.slots = @ \ {shard(t)}, !.retry_exclusive = b] \in Frame
      BY <1>3, <2>1, FrameUpdates
    <3>. QED
      BY <1>1, <3>1, <3>2
  <2>4. \/ frame' = [frame EXCEPT ![t].candidates = @ \ {First(policy(t), frame[t].candidates)}]
        \/ \E b \in BOOLEAN :
             frame' = [frame EXCEPT ![t].candidates = {}, ![t].slots = @ \ {shard(t)},
                                    ![t].retry_exclusive = b]
    <3>1. frame[t].retry_exclusive \in BOOLEAN
      BY <2>1, FrameFields
    <3>. QED
      BY <1>2, <1>21, <3>1 DEF Trim
  <2>. QED
    BY <2>2, <2>3, <2>4
<1>22. ASSUME NEW t \in Threads, Trimmed(t) PROVE frame' \in [Threads -> Frame]
  <2>1. frame' = [frame EXCEPT ![t] = EmptyFrame]
    BY <1>2, <1>22 DEF Trimmed, Finish, Return
  <2>2. EmptyFrame \in Frame
    BY <1>2, <1>3, EmptyFrames, FrameFields, FrameUpdates
  <2>. QED
    BY <1>1, <2>1, <2>2
<1>23. ASSUME NEW t \in Threads, RetryExclusive(t) PROVE frame' \in [Threads -> Frame]
  <2>1. frame' = [frame EXCEPT ![t] = [frame[t] EXCEPT !.observed = 0, !.retry_exclusive = FALSE]]
    BY <1>2, <1>23 DEF RetryExclusive
  <2>2. [frame[t] EXCEPT !.observed = 0, !.retry_exclusive = FALSE] \in Frame
    BY <1>2, <1>3, EmptyFrames, FrameFields, FrameUpdates
  <2>. QED
    BY <1>1, <2>1, <2>2
<1>24. ASSUME NEW t \in Threads, Exclude(t) PROVE frame' \in [Threads -> Frame]
  <2>1. frame' = [frame EXCEPT ![t] = frame[t]]
    BY <1>2, <1>24 DEF Exclude
  <2>2. frame[t] \in Frame
    BY <1>2, <1>3, EmptyFrames, FrameFields, FrameUpdates
  <2>. QED
    BY <1>1, <2>1, <2>2
<1>25. ASSUME NEW t \in Threads, Repair(t) PROVE frame' \in [Threads -> Frame]
  BY <1>1, <1>2, <1>3, <1>25, EmptyFrames, FrameFields, FrameUpdates DEF Repair
<1>26. ASSUME NEW t \in Threads, Publish(t) PROVE frame' \in [Threads -> Frame]
  <2>1. frame' = [frame EXCEPT ![t] = [frame[t] EXCEPT !.observed_dirty = 0]]
    BY <1>2, <1>26 DEF Publish
  <2>2. [frame[t] EXCEPT !.observed_dirty = 0] \in Frame
    BY <1>2, <1>3, EmptyFrames, FrameFields, FrameUpdates
  <2>. QED
    BY <1>1, <2>1, <2>2
<1>27. ASSUME NEW t \in Threads, Plan(t) PROVE frame' \in [Threads -> Frame]
  <2>0. /\ candidates(Keys) \in SUBSET Candidate
        /\ candidates(Keys) # {} => First(policy(t), candidates(Keys)) \in candidates(Keys)
    BY CandidatesTyped, CandidatesApart, PolicyKnown, FirstFirst DEF Base
  <2>1. PICK C \in SUBSET Candidate :
          frame' = [frame EXCEPT ![t].observed = work_epoch, ![t].candidates = C]
    BY <1>27, <2>0 DEF Plan
  <2>2. frame' = [frame EXCEPT ![t] = [frame[t] EXCEPT !.observed = work_epoch, !.candidates = C]]
    BY <1>2, <2>1
  <2>3. [frame[t] EXCEPT !.observed = work_epoch, !.candidates = C] \in Frame
    BY <1>2, <1>3, FrameUpdates
  <2>. QED
    BY <1>1, <2>2, <2>3
<1>28. ASSUME NEW t \in Threads, Evict(t) PROVE frame' \in [Threads -> Frame]
  <2>1. frame' = [frame EXCEPT ![t] = [frame[t] EXCEPT !.candidates = @ \ {First(policy(t), frame[t].candidates)}]]
    BY <1>2, <1>28 DEF Evict
  <2>2. [frame[t] EXCEPT !.candidates = @ \ {First(policy(t), frame[t].candidates)}] \in Frame
    BY <1>2, <1>3, EmptyFrames, FrameFields, FrameUpdates
  <2>. QED
    BY <1>1, <2>1, <2>2
<1>29. ASSUME NEW t \in Threads, Done(t) PROVE frame' \in [Threads -> Frame]
  <2>1. frame' = [frame EXCEPT ![t] = EmptyFrame]
    BY <1>2, <1>29 DEF Done, Finish, Return
  <2>2. EmptyFrame \in Frame
    BY <1>2, <1>3, EmptyFrames, FrameFields, FrameUpdates
  <2>. QED
    BY <1>1, <2>1, <2>2
<1>30. ASSUME NEW t \in Threads, PassUnwinds(t) PROVE frame' \in [Threads -> Frame]
  <2>1. frame' = [frame EXCEPT ![t] = EmptyFrame]
    BY <1>2, <1>30 DEF PassUnwinds, Unwinding, Return
  <2>2. EmptyFrame \in Frame
    BY <1>2, <1>3, EmptyFrames, FrameFields, FrameUpdates
  <2>. QED
    BY <1>1, <2>1, <2>2
<1>31. ASSUME frame' = frame PROVE frame' \in [Threads -> Frame]
  BY <1>2, <1>31
<1>. QED
  BY <1>4, <1>5, <1>6, <1>7, <1>8, <1>9, <1>10, <1>11, <1>12, <1>13, <1>14, <1>15, <1>16, <1>17, <1>18, <1>19, <1>20, <1>21, <1>22, <1>23, <1>24, <1>25, <1>26, <1>27, <1>28, <1>29, <1>30, <1>31 DEF Next, Step, Read, Reshard, Migrated, vars

\* Every step leads to one that its call has.
LEMMA CallsFitNext ==
  ASSUME Base, [Next]_vars
  PROVE  CallsFit'
<1>. USE EvictionAssumption, FrameFields
  DEF Base, Shape, Values, CallsFit, MutationCall, SweepCall, PassCall, Passing, Mutating, Trimming, Exclusive, topology, map, ranks, epochs, bounds, Goto, call, EmptyFrame, Commit, Mutation, Sweep
<1>1. ASSUME NEW t \in Threads, Invoke(t) PROVE CallsFit'
  BY <1>1 DEF Invoke, weight
<1>2. ASSUME NEW t \in Threads, Begin(t) PROVE CallsFit'
  <2>1. CASE Goto(t, "ticket") /\ mark_pending /\ frame' = [frame EXCEPT ![t].from = sequence]
    BY <1>2, <2>1 DEF Begin, mark_pending, Committed
  <2>2. CASE Committed(t) /\ work_epoch' = work_epoch
    BY <1>2, <2>2 DEF Begin, mark_pending, Committed
  <2>. QED
    BY <1>2, <2>1, <2>2 DEF Begin
<1>3. ASSUME NEW t \in Threads, Store(t) PROVE CallsFit'
  BY <1>3 DEF Store
<1>4. ASSUME NEW t \in Threads, Record(t) PROVE CallsFit'
  BY <1>4 DEF Record, record_insert, record_remove, Published, Committed
<1>5. ASSUME NEW t \in Threads, Unwind(t) PROVE CallsFit'
  BY <1>5 DEF Unwind, Trouble, TicketDropped, Published, Unwinding
<1>6. ASSUME NEW t \in Threads, mark_dirty(t) PROVE CallsFit'
  BY <1>6 DEF mark_dirty, mark_pending, Return
<1>7. ASSUME NEW t \in Threads, BeginSweep(t) PROVE CallsFit'
  BY <1>7 DEF BeginSweep
<1>8. ASSUME NEW t \in Threads, SweepShard(t) PROVE CallsFit'
  BY <1>8 DEF SweepShard, Swept, mark_pending
<1>9. ASSUME NEW t \in Threads, SweepUnwinds(t) PROVE CallsFit'
  BY <1>9 DEF SweepUnwinds, Trouble, TicketDropped, Swept, mark_pending, Unwinding
<1>10. ASSUME NEW t \in Threads, EndSweep(t) PROVE CallsFit'
  BY <1>10 DEF EndSweep, Committed
<1>11. ASSUME NEW t \in Threads, Observe(t) PROVE CallsFit'
  BY <1>11 DEF Observe
<1>12. ASSUME NEW t \in Threads, Acknowledge(t) PROVE CallsFit'
  BY <1>12 DEF Acknowledge, Finish, mark_maintained, Return
<1>13. ASSUME NEW t \in Threads, Choose(t) PROVE CallsFit'
  BY <1>13 DEF Choose
<1>14. ASSUME NEW t \in Threads, Share(t) PROVE CallsFit'
  BY <1>14 DEF Share, mark_pending
<1>15. ASSUME NEW t \in Threads, maintenance_generation(t) PROVE CallsFit'
  BY <1>15 DEF maintenance_generation
<1>16. ASSUME NEW t \in Threads, Scan(t) PROVE CallsFit'
  <2>1. CASE Goto(t, "lock") /\ frame' = frame
    BY <1>16, <2>1 DEF Scan
  <2>2. CASE pc' = pc /\ frame' = [frame EXCEPT ![t].slots = @ \ {shard(t)}]
    BY <1>16, <2>2 DEF Scan
  <2>. QED
    BY <1>16, <2>1, <2>2 DEF Scan
<1>17. ASSUME NEW t \in Threads, Lock(t) PROVE CallsFit'
  BY <1>17 DEF Lock, candidates
<1>18. ASSUME NEW t \in Threads, Trim(t) PROVE CallsFit'
  <2>1. CASE /\ frame' = [frame EXCEPT ![t].candidates = @ \ {First(policy(t), frame[t].candidates)}]
            /\ pc' = pc
    BY <1>18, <2>1 DEF Trim, TryEvict, EvictKey
  <2>2. CASE /\ \E b : frame' = [frame EXCEPT ![t].candidates = {}, ![t].slots = @ \ {shard(t)},
                                            ![t].retry_exclusive = b]
            /\ Goto(t, "scan")
    BY <1>18, <2>2 DEF Trim, TryEvict, EvictKey
  <2>. QED
    BY <1>18, <2>1, <2>2 DEF Trim
<1>19. ASSUME NEW t \in Threads, Trimmed(t) PROVE CallsFit'
  BY <1>19 DEF Trimmed, Finish, mark_maintained, Return
<1>20. ASSUME NEW t \in Threads, RetryExclusive(t) PROVE CallsFit'
  BY <1>20 DEF RetryExclusive
<1>21. ASSUME NEW t \in Threads, Exclude(t) PROVE CallsFit'
  BY <1>21 DEF Exclude, mark_pending
<1>22. ASSUME NEW t \in Threads, Repair(t) PROVE CallsFit'
  <2>1. CASE /\ mark_pending /\ Goto(t, "publish")
            /\ frame' = [frame EXCEPT ![t].observed_dirty = dirty_epoch]
    BY <1>22, <2>1 DEF Repair, mark_pending
  <2>2. CASE Goto(t, "plan") /\ UNCHANGED <<work_epoch, frame>>
    BY <1>22, <2>2 DEF Repair, mark_pending
  <2>. QED
    BY <1>22, <2>1, <2>2 DEF Repair
<1>23. ASSUME NEW t \in Threads, Publish(t) PROVE CallsFit'
  <2>1. /\ pc[t] = "publish" /\ Goto(t, "plan") /\ UNCHANGED config
        /\ frame' = [frame EXCEPT ![t].observed_dirty = 0]
    BY <1>23 DEF Publish
  <2>. QED
    BY <2>1
<1>24. ASSUME NEW t \in Threads, Plan(t) PROVE CallsFit'
  BY <1>24 DEF Plan, candidates
<1>25. ASSUME NEW t \in Threads, Evict(t) PROVE CallsFit'
  BY <1>25 DEF Evict, TryEvict, EvictKey
<1>26. ASSUME NEW t \in Threads, Done(t) PROVE CallsFit'
  BY <1>26 DEF Done, Finish, mark_maintained, Return
<1>27. ASSUME NEW t \in Threads, PassUnwinds(t) PROVE CallsFit'
  BY <1>27 DEF PassUnwinds, Trouble, Unwinding, Return
<1>28. ASSUME NEW t \in Threads, NEW k \in Keys, Read(t, k) PROVE CallsFit'
  BY <1>28 DEF Read, record_read
<1>29. ASSUME Reshard PROVE CallsFit'
  BY <1>29 DEF Reshard, Trouble, NewLayout, mark_pending
<1>30. ASSUME Migrated PROVE CallsFit'
  BY <1>30 DEF Migrated
<1>31. ASSUME UNCHANGED vars PROVE CallsFit'
  BY <1>31 DEF vars
<1>. QED
  BY <1>1, <1>2, <1>3, <1>4, <1>5, <1>6, <1>7, <1>8, <1>9, <1>10, <1>11, <1>12, <1>13, <1>14, <1>15, <1>16, <1>17, <1>18, <1>19, <1>20, <1>21, <1>22, <1>23, <1>24, <1>25, <1>26, <1>27, <1>28, <1>29, <1>30, <1>31 DEF Next, Step

\* Every step keeps the epochs ordered.
LEMMA EpochsNext ==
  ASSUME Base, [Next]_vars
  PROVE  EpochsOrdered'
<1>. USE EvictionAssumption, FrameFields
  DEF Base, Shape, Values, EpochsOrdered, topology, map, ranks, epochs, bounds, Goto, EmptyFrame
<1>1. ASSUME NEW t \in Threads, Invoke(t) PROVE EpochsOrdered'
  BY <1>1 DEF Invoke, weight
<1>2. ASSUME NEW t \in Threads, Begin(t) PROVE EpochsOrdered'
  <2>1. CASE Goto(t, "ticket") /\ mark_pending /\ frame' = [frame EXCEPT ![t].from = sequence]
    BY <1>2, <2>1 DEF Begin, mark_pending, Committed
  <2>2. CASE Committed(t) /\ work_epoch' = work_epoch
    BY <1>2, <2>2 DEF Begin, mark_pending, Committed
  <2>. QED
    BY <1>2, <2>1, <2>2 DEF Begin
<1>3. ASSUME NEW t \in Threads, Store(t) PROVE EpochsOrdered'
  BY <1>3 DEF Store
<1>4. ASSUME NEW t \in Threads, Record(t) PROVE EpochsOrdered'
  BY <1>4 DEF Record, record_insert, record_remove, Published, Committed
<1>5. ASSUME NEW t \in Threads, Unwind(t) PROVE EpochsOrdered'
  BY <1>5 DEF Unwind, Trouble, TicketDropped, Published, Unwinding
<1>6. ASSUME NEW t \in Threads, mark_dirty(t) PROVE EpochsOrdered'
  BY <1>6 DEF mark_dirty, mark_pending, Return
<1>7. ASSUME NEW t \in Threads, BeginSweep(t) PROVE EpochsOrdered'
  BY <1>7 DEF BeginSweep
<1>8. ASSUME NEW t \in Threads, SweepShard(t) PROVE EpochsOrdered'
  BY <1>8 DEF SweepShard, Swept, mark_pending
<1>9. ASSUME NEW t \in Threads, SweepUnwinds(t) PROVE EpochsOrdered'
  BY <1>9 DEF SweepUnwinds, Trouble, TicketDropped, Swept, mark_pending, Unwinding
<1>10. ASSUME NEW t \in Threads, EndSweep(t) PROVE EpochsOrdered'
  BY <1>10 DEF EndSweep, Committed
<1>11. ASSUME NEW t \in Threads, Observe(t) PROVE EpochsOrdered'
  BY <1>11 DEF Observe
<1>12. ASSUME NEW t \in Threads, Acknowledge(t) PROVE EpochsOrdered'
  BY <1>12 DEF Acknowledge, Finish, mark_maintained, Return
<1>13. ASSUME NEW t \in Threads, Choose(t) PROVE EpochsOrdered'
  BY <1>13 DEF Choose
<1>14. ASSUME NEW t \in Threads, Share(t) PROVE EpochsOrdered'
  BY <1>14 DEF Share, mark_pending
<1>15. ASSUME NEW t \in Threads, maintenance_generation(t) PROVE EpochsOrdered'
  BY <1>15 DEF maintenance_generation
<1>16. ASSUME NEW t \in Threads, Scan(t) PROVE EpochsOrdered'
  <2>1. CASE Goto(t, "lock") /\ frame' = frame
    BY <1>16, <2>1 DEF Scan
  <2>2. CASE pc' = pc /\ frame' = [frame EXCEPT ![t].slots = @ \ {shard(t)}]
    BY <1>16, <2>2 DEF Scan
  <2>. QED
    BY <1>16, <2>1, <2>2 DEF Scan
<1>17. ASSUME NEW t \in Threads, Lock(t) PROVE EpochsOrdered'
  BY <1>17 DEF Lock, candidates
<1>18. ASSUME NEW t \in Threads, Trim(t) PROVE EpochsOrdered'
  <2>1. CASE /\ frame' = [frame EXCEPT ![t].candidates = @ \ {First(policy(t), frame[t].candidates)}]
            /\ pc' = pc
    BY <1>18, <2>1 DEF Trim, TryEvict, EvictKey
  <2>2. CASE /\ \E b : frame' = [frame EXCEPT ![t].candidates = {}, ![t].slots = @ \ {shard(t)},
                                            ![t].retry_exclusive = b]
            /\ Goto(t, "scan")
    BY <1>18, <2>2 DEF Trim, TryEvict, EvictKey
  <2>. QED
    BY <1>18, <2>1, <2>2 DEF Trim
<1>19. ASSUME NEW t \in Threads, Trimmed(t) PROVE EpochsOrdered'
  BY <1>19 DEF Trimmed, Finish, mark_maintained, Return
<1>20. ASSUME NEW t \in Threads, RetryExclusive(t) PROVE EpochsOrdered'
  BY <1>20 DEF RetryExclusive
<1>21. ASSUME NEW t \in Threads, Exclude(t) PROVE EpochsOrdered'
  BY <1>21 DEF Exclude, mark_pending
<1>22. ASSUME NEW t \in Threads, Repair(t) PROVE EpochsOrdered'
  <2>1. CASE /\ mark_pending /\ Goto(t, "publish")
            /\ frame' = [frame EXCEPT ![t].observed_dirty = dirty_epoch]
    BY <1>22, <2>1 DEF Repair, mark_pending
  <2>2. CASE Goto(t, "plan") /\ UNCHANGED <<work_epoch, frame>>
    BY <1>22, <2>2 DEF Repair, mark_pending
  <2>. QED
    BY <1>22, <2>1, <2>2 DEF Repair
<1>23. ASSUME NEW t \in Threads, Publish(t) PROVE EpochsOrdered'
  <2>1. Cardinality(Stored) \in Nat
    BY CardinalityKeys DEF Stored
  <2>2. /\ frame' = [frame EXCEPT ![t].observed_dirty = 0]
        /\ repaired_epoch' = frame[t].observed_dirty /\ sequence' = sequence + Cardinality(Stored)
        /\ UNCHANGED <<dirty_epoch, work_epoch, maintained_epoch>>
    BY <1>23 DEF Publish
  <2>. QED
    BY <2>1, <2>2
<1>24. ASSUME NEW t \in Threads, Plan(t) PROVE EpochsOrdered'
  BY <1>24 DEF Plan, candidates
<1>25. ASSUME NEW t \in Threads, Evict(t) PROVE EpochsOrdered'
  BY <1>25 DEF Evict, TryEvict, EvictKey
<1>26. ASSUME NEW t \in Threads, Done(t) PROVE EpochsOrdered'
  BY <1>26 DEF Done, Finish, mark_maintained, Return
<1>27. ASSUME NEW t \in Threads, PassUnwinds(t) PROVE EpochsOrdered'
  BY <1>27 DEF PassUnwinds, Trouble, Unwinding, Return
<1>28. ASSUME NEW t \in Threads, NEW k \in Keys, Read(t, k) PROVE EpochsOrdered'
  BY <1>28 DEF Read, record_read
<1>29. ASSUME Reshard PROVE EpochsOrdered'
  BY <1>29 DEF Reshard, Trouble, NewLayout, mark_pending
<1>30. ASSUME Migrated PROVE EpochsOrdered'
  BY <1>30 DEF Migrated
<1>31. ASSUME UNCHANGED vars PROVE EpochsOrdered'
  BY <1>31 DEF vars
<1>. QED
  BY <1>1, <1>2, <1>3, <1>4, <1>5, <1>6, <1>7, <1>8, <1>9, <1>10, <1>11, <1>12, <1>13, <1>14, <1>15, <1>16, <1>17, <1>18, <1>19, <1>20, <1>21, <1>22, <1>23, <1>24, <1>25, <1>26, <1>27, <1>28, <1>29, <1>30, <1>31 DEF Next, Step

\* Every step keeps routing and the guards exclusive.
LEMMA LocksNext ==
  ASSUME Base, [Next]_vars
  PROVE  LocksExclude'
<1>. USE EvictionAssumption, FrameFields
  DEF Base, Shape, Values, CallsFit, LocksExclude, CanShare, CanExclude, CanLock, Mutating, Trimming, Exclusive, topology, map, ranks, epochs, bounds, Goto, call, shard, EmptyFrame
<1>1. ASSUME NEW t \in Threads, Invoke(t) PROVE LocksExclude'
  BY <1>1 DEF Invoke, weight
<1>2. ASSUME NEW t \in Threads, Begin(t) PROVE LocksExclude'
  <2>1. CASE Goto(t, "ticket") /\ mark_pending /\ frame' = [frame EXCEPT ![t].from = sequence]
    BY <1>2, <2>1 DEF Begin, mark_pending, Committed
  <2>2. CASE Committed(t) /\ work_epoch' = work_epoch
    BY <1>2, <2>2 DEF Begin, mark_pending, Committed
  <2>. QED
    BY <1>2, <2>1, <2>2 DEF Begin
<1>3. ASSUME NEW t \in Threads, Store(t) PROVE LocksExclude'
  BY <1>3 DEF Store
<1>4. ASSUME NEW t \in Threads, Record(t) PROVE LocksExclude'
  BY <1>4 DEF Record, record_insert, record_remove, Published, Committed
<1>5. ASSUME NEW t \in Threads, Unwind(t) PROVE LocksExclude'
  BY <1>5 DEF Unwind, Trouble, TicketDropped, Published, Unwinding
<1>6. ASSUME NEW t \in Threads, mark_dirty(t) PROVE LocksExclude'
  BY <1>6 DEF mark_dirty, mark_pending, Return
<1>7. ASSUME NEW t \in Threads, BeginSweep(t) PROVE LocksExclude'
  BY <1>7 DEF BeginSweep
<1>8. ASSUME NEW t \in Threads, SweepShard(t) PROVE LocksExclude'
  BY <1>8 DEF SweepShard, Swept, mark_pending
<1>9. ASSUME NEW t \in Threads, SweepUnwinds(t) PROVE LocksExclude'
  BY <1>9 DEF SweepUnwinds, Trouble, TicketDropped, Swept, mark_pending, Unwinding
<1>10. ASSUME NEW t \in Threads, EndSweep(t) PROVE LocksExclude'
  BY <1>10 DEF EndSweep, Committed
<1>11. ASSUME NEW t \in Threads, Observe(t) PROVE LocksExclude'
  BY <1>11 DEF Observe
<1>12. ASSUME NEW t \in Threads, Acknowledge(t) PROVE LocksExclude'
  BY <1>12 DEF Acknowledge, Finish, mark_maintained, Return
<1>13. ASSUME NEW t \in Threads, Choose(t) PROVE LocksExclude'
  BY <1>13 DEF Choose
<1>14. ASSUME NEW t \in Threads, Share(t) PROVE LocksExclude'
  BY <1>14 DEF Share, mark_pending
<1>15. ASSUME NEW t \in Threads, maintenance_generation(t) PROVE LocksExclude'
  BY <1>15 DEF maintenance_generation
<1>16. ASSUME NEW t \in Threads, Scan(t) PROVE LocksExclude'
  BY <1>16 DEF Scan
<1>17. ASSUME NEW t \in Threads, Lock(t) PROVE LocksExclude'
  BY <1>17 DEF Lock, candidates
<1>18. ASSUME NEW t \in Threads, Trim(t) PROVE LocksExclude'
  <2>1. CASE /\ frame' = [frame EXCEPT ![t].candidates = @ \ {First(policy(t), frame[t].candidates)}]
            /\ pc' = pc
    BY <1>18, <2>1 DEF Trim, TryEvict, EvictKey
  <2>2. CASE /\ \E b : frame' = [frame EXCEPT ![t].candidates = {}, ![t].slots = @ \ {shard(t)},
                                            ![t].retry_exclusive = b]
            /\ Goto(t, "scan")
    BY <1>18, <2>2 DEF Trim, TryEvict, EvictKey
  <2>. QED
    BY <1>18, <2>1, <2>2 DEF Trim
<1>19. ASSUME NEW t \in Threads, Trimmed(t) PROVE LocksExclude'
  BY <1>19 DEF Trimmed, Finish, mark_maintained, Return
<1>20. ASSUME NEW t \in Threads, RetryExclusive(t) PROVE LocksExclude'
  BY <1>20 DEF RetryExclusive
<1>21. ASSUME NEW t \in Threads, Exclude(t) PROVE LocksExclude'
  BY <1>21 DEF Exclude, mark_pending
<1>22. ASSUME NEW t \in Threads, Repair(t) PROVE LocksExclude'
  BY <1>22 DEF Repair, mark_pending
<1>23. ASSUME NEW t \in Threads, Publish(t) PROVE LocksExclude'
  <2>1. /\ pc[t] = "publish" /\ pc' = [pc EXCEPT ![t] = "plan"] /\ layout' = layout
        /\ frame' = [frame EXCEPT ![t].observed_dirty = 0]
    BY <1>23 DEF Publish
  <2>. QED
    BY <2>1
<1>24. ASSUME NEW t \in Threads, Plan(t) PROVE LocksExclude'
  BY <1>24 DEF Plan, candidates
<1>25. ASSUME NEW t \in Threads, Evict(t) PROVE LocksExclude'
  BY <1>25 DEF Evict, TryEvict, EvictKey
<1>26. ASSUME NEW t \in Threads, Done(t) PROVE LocksExclude'
  BY <1>26 DEF Done, Finish, mark_maintained, Return
<1>27. ASSUME NEW t \in Threads, PassUnwinds(t) PROVE LocksExclude'
  BY <1>27 DEF PassUnwinds, Trouble, Unwinding, Return
<1>28. ASSUME NEW t \in Threads, NEW k \in Keys, Read(t, k) PROVE LocksExclude'
  BY <1>28 DEF Read, record_read
<1>29. ASSUME Reshard PROVE LocksExclude'
  BY <1>29 DEF Reshard, Trouble, NewLayout, mark_pending
<1>30. ASSUME Migrated PROVE LocksExclude'
  BY <1>30 DEF Migrated
<1>31. ASSUME UNCHANGED vars PROVE LocksExclude'
  BY <1>31 DEF vars
<1>. QED
  BY <1>1, <1>2, <1>3, <1>4, <1>5, <1>6, <1>7, <1>8, <1>9, <1>10, <1>11, <1>12, <1>13, <1>14, <1>15, <1>16, <1>17, <1>18, <1>19, <1>20, <1>21, <1>22, <1>23, <1>24, <1>25, <1>26, <1>27, <1>28, <1>29, <1>30, <1>31 DEF Next, Step

\* Entries that go take nothing from the stamps of the others.
LEMMA StampsShrink ==
  ASSUME Base, \A k \in Keys : meta'[k] \in {meta[k], Nil}, sequence' = sequence
  PROVE  StampsDiffer'
  BY DEF Base, StampsDiffer

\* A fresh stamp for one entry.
LEMMA StampsFresh ==
  ASSUME Base, NEW k \in Keys, sequence' = sequence + 1,
         \A j \in Keys \ {k} : meta'[j] = meta[j],
         meta'[k] # Nil,
         (meta'[k].incarnation = sequence) \/ (meta[k] # Nil /\ meta'[k].incarnation = meta[k].incarnation),
         (meta'[k].inserted = sequence) \/ (meta[k] # Nil /\ meta'[k].inserted = meta[k].inserted),
         meta'[k].accessed = sequence
  PROVE  StampsDiffer'
<1>1. \A j \in Keys : meta[j] # Nil =>
        meta[j].incarnation \in Nat /\ meta[j].inserted \in Nat /\ meta[j].accessed \in Nat
  BY DEF Base, Shape, Values, Entry
<1>2. sequence \in Nat
  BY DEF Base, Shape, Values
<1>. QED
  BY <1>1, <1>2 DEF Base, StampsDiffer

\* record_read touches one entry, and of that the stamp of its last use and its frequency.
LEMMA ReadTouches ==
  ASSUME Shape, NEW t \in Threads, NEW k \in Keys, Read(t, k), meta[k] # Nil
  PROVE  /\ sequence' = sequence + 1
         /\ \A j \in Keys \ {k} : meta'[j] = meta[j]
         /\ meta'[k] # Nil /\ meta'[k].incarnation = meta[k].incarnation
         /\ meta'[k].inserted = meta[k].inserted /\ meta'[k].accessed = sequence
         /\ meta'[k].weight = meta[k].weight
<1>1. meta \in [Keys -> Entry \cup {Nil}] /\ meta[k] \in Entry /\ sequence \in Nat
  BY DEF Shape, Values
<1>2. /\ sequence' = sequence + 1
      /\ meta' = [meta EXCEPT ![k].accessed = sequence, ![k].frequency = @ + 1]
  BY DEF Read, record_read
<1>3. \A j \in Keys \ {k} : meta'[j] = meta[j]
  BY <1>1, <1>2
<1>4. meta'[k] = [meta[k] EXCEPT !.accessed = sequence, !.frequency = meta[k].frequency + 1]
  BY <1>1, <1>2 DEF Entry
<1>5. /\ meta'[k].incarnation = meta[k].incarnation /\ meta'[k].inserted = meta[k].inserted
      /\ meta'[k].accessed = sequence /\ meta'[k].weight = meta[k].weight /\ meta'[k] \in Entry
  <2>1. PICK m, e : m = meta'[k] /\ e = meta[k]
    OBVIOUS
  <2>2. m = [e EXCEPT !.accessed = sequence, !.frequency = e.frequency + 1] /\ e \in Entry
    BY <1>1, <1>4, <2>1
  <2>3. /\ m.incarnation = e.incarnation /\ m.inserted = e.inserted
        /\ m.accessed = sequence /\ m.weight = e.weight
    BY <2>2 DEF Entry
  <2>4. m \in Entry
    <3>1. PICK n \in Nat : n = e.frequency + 1
      BY <2>2 DEF Entry
    <3>2. m = [e EXCEPT !.accessed = sequence, !.frequency = n]
      BY <2>2, <3>1
    <3>. QED
      BY <1>1, <2>2, <3>2 DEF Entry
  <2>. QED
    BY <2>1, <2>3, <2>4
<1>. QED
  BY <1>2, <1>3, <1>5, EvictionAssumption

\* record_insert writes one entry.
LEMMA InsertRecords ==
  ASSUME Shape, NEW t \in Threads, Record(t), call(t).op = "insert",
         NEW k \in Keys, k = call(t).key
  PROVE  /\ sequence' = sequence + 1
         /\ \A j \in Keys \ {k} : meta'[j] = meta[j]
         /\ meta'[k] # Nil /\ meta'[k].weight = frame[t].weight
         /\ meta'[k].incarnation = sequence /\ meta'[k].accessed = sequence
         /\ \/ meta'[k].inserted = sequence
            \/ frame[t].replaced /\ meta[k] # Nil /\ meta'[k].inserted = meta[k].inserted
         /\ frame[t].replaced /\ meta[k] # Nil => meta'[k].inserted = meta[k].inserted
<1>1. record_insert(k, frame[t].weight, frame[t].replaced)
  BY DEF Record
<1>2. meta \in [Keys -> Entry \cup {Nil}]
  BY DEF Shape, Values
<1>3. sequence' = sequence + 1 /\ \A j \in Keys \ {k} : meta'[j] = meta[j]
  BY <1>1, <1>2 DEF record_insert
<1>4. PICK m : m = meta'[k]
  OBVIOUS
<1>5. \/ /\ ~frame[t].replaced \/ meta[k] = Nil
         /\ m = [incarnation |-> sequence, inserted |-> sequence, accessed |-> sequence,
                 frequency |-> 1, weight |-> frame[t].weight]
      \/ /\ frame[t].replaced /\ meta[k] # Nil
         /\ m = [incarnation |-> sequence, inserted |-> meta[k].inserted,
                 accessed |-> sequence, frequency |-> meta[k].frequency + 1,
                 weight |-> frame[t].weight]
  <2>1. frame[t].replaced \in BOOLEAN
    BY FrameFields DEF Shape
  <2>. QED
    BY <1>1, <1>2, <1>4, <2>1 DEF record_insert
<1>6. m \in Entry
  <2>1. meta[k] # Nil => meta[k].inserted \in Nat /\ meta[k].frequency + 1 \in Nat
    BY <1>2 DEF Entry
  <2>2. frame[t].weight \in Nat /\ sequence \in Nat
    BY FrameFields DEF Shape, Values
  <2>. QED
    BY <1>5, <2>1, <2>2 DEF Entry
<1>7. m # Nil
  BY <1>6, EvictionAssumption
<1>8. /\ m.weight = frame[t].weight /\ m.incarnation = sequence /\ m.accessed = sequence
      /\ m.inserted = sequence \/ frame[t].replaced
      /\ m.inserted = sequence \/ meta[k] # Nil
      /\ m.inserted = sequence \/ m.inserted = meta[k].inserted
      /\ frame[t].replaced /\ meta[k] # Nil => m.inserted = meta[k].inserted
  BY <1>5
<1>. QED
  BY <1>3, <1>4, <1>7, <1>8

\* Every step keeps the stamps of two entries apart.
LEMMA StampsNext ==
  ASSUME Base, [Next]_vars
  PROVE  StampsDiffer'
<1>1. ASSUME UNCHANGED <<meta, sequence>> PROVE StampsDiffer'
  BY <1>1, StampsShrink
<1>2. ASSUME NEW t \in Threads, Record(t) PROVE StampsDiffer'
  <2>1. call(t) \in MutationCall /\ call(t).key \in Keys
    BY <1>2 DEF Base, CallsFit, Record, Mutating, MutationCall
  <2>2. PICK k \in Keys : k = call(t).key
    BY <2>1
  <2>3. CASE call(t).op = "insert"
    <3>1. /\ sequence' = sequence + 1 /\ \A j \in Keys \ {k} : meta'[j] = meta[j]
          /\ meta'[k] # Nil /\ meta'[k].incarnation = sequence /\ meta'[k].accessed = sequence
          /\ (meta'[k].inserted = sequence) \/ (meta[k] # Nil /\ meta'[k].inserted = meta[k].inserted)
      BY <1>2, <2>2, <2>3, InsertRecords DEF Base
    <3>. QED
      BY <3>1, StampsFresh
  <2>4. CASE call(t).op # "insert"
    <3>1. sequence' = sequence /\ \A j \in Keys : meta'[j] \in {meta[j], Nil}
      BY <1>2, <2>4 DEF Record, record_remove, Base, Shape, Values
    <3>. QED
      BY <3>1, StampsShrink
  <2>. QED
    BY <2>3, <2>4
<1>3. ASSUME NEW t \in Threads, SweepShard(t) \/ SweepUnwinds(t) PROVE StampsDiffer'
  <2>1. sequence' = sequence /\ \E R, ghosts : Swept(R, ghosts)
    BY <1>3 DEF SweepShard, SweepUnwinds
  <2>2. \A k \in Keys : meta'[k] \in {meta[k], Nil}
    BY <2>1 DEF Swept
  <2>. QED
    BY <2>1, <2>2, StampsShrink
<1>4. ASSUME NEW t \in Threads, Trim(t) \/ Evict(t) PROVE StampsDiffer'
  <2>1. sequence' = sequence /\ (UNCHANGED meta \/ \E c : TryEvict(c))
    BY <1>4 DEF Trim, Evict
  <2>2. \A k \in Keys : meta'[k] \in {meta[k], Nil}
    BY <2>1 DEF TryEvict, EvictKey, Base, Shape, Values
  <2>. QED
    BY <2>1, <2>2, StampsShrink
<1>5. ASSUME NEW t \in Threads, NEW k \in Keys, Read(t, k) PROVE StampsDiffer'
  <2>1. CASE meta[k] = Nil
    BY <1>1, <1>5, <2>1 DEF Read, record_read
  <2>2. CASE meta[k] # Nil
    <3>1. /\ sequence' = sequence + 1 /\ \A j \in Keys \ {k} : meta'[j] = meta[j]
          /\ meta'[k] # Nil /\ meta'[k].incarnation = meta[k].incarnation
          /\ meta'[k].inserted = meta[k].inserted /\ meta'[k].accessed = sequence
      BY <1>5, <2>2, ReadTouches DEF Base
    <3>. QED
      BY <2>2, <3>1, StampsFresh
  <2>. QED
    BY <2>1, <2>2
<1>6. ASSUME NEW t \in Threads, Publish(t) PROVE StampsDiffer'
  <2>1. PICK n \in Nat : \E stamp \in [Stored -> sequence..sequence + n - 1] :
          /\ sequence' = sequence + n
          /\ \A j, k \in Stored : stamp[j] = stamp[k] => j = k
          /\ \A k \in Keys : Reconciled(stamp, k)
    BY <1>6, PublishWrites DEF Base
  <2>2. PICK stamp \in [Stored -> sequence..sequence + n - 1] :
          /\ sequence' = sequence + n
          /\ \A j, k \in Stored : stamp[j] = stamp[k] => j = k
          /\ \A k \in Keys : Reconciled(stamp, k)
    BY <2>1
  <2>3. sequence \in Nat /\ sequence' = sequence + n
    BY <2>2 DEF Base, Shape, Values
  <2>4. ASSUME NEW k \in Keys, meta'[k] # Nil
        PROVE  /\ k \in Stored /\ meta'[k].incarnation = stamp[k]
               /\ \/ meta[k] = Nil /\ meta'[k].inserted = stamp[k] /\ meta'[k].accessed = stamp[k]
                  \/ /\ meta[k] # Nil /\ meta'[k].inserted = meta[k].inserted
                     /\ meta'[k].accessed = meta[k].accessed
    BY <2>2, <2>4 DEF Reconciled
  <2>5. \A k \in Stored : k \in Keys /\ stamp[k] \in Nat /\ sequence <= stamp[k] /\ stamp[k] < sequence + n
    BY <2>3 DEF Stored
  <2>6. \A k \in Keys : meta[k] # Nil =>
          /\ meta[k].inserted \in Nat /\ meta[k].accessed \in Nat
          /\ meta[k].inserted < sequence /\ meta[k].accessed < sequence
    BY DEF Base, StampsDiffer, Shape, Values, Entry
  <2>7. \A k \in Keys : meta'[k] # Nil =>
          /\ meta'[k].incarnation < sequence' /\ meta'[k].inserted < sequence'
          /\ meta'[k].accessed < sequence'
    BY <2>3, <2>4, <2>5, <2>6
  <2>8. ASSUME NEW j \in Keys, NEW k \in Keys, meta'[j] # Nil, meta'[k] # Nil, j # k
        PROVE  meta'[j].incarnation # meta'[k].incarnation /\ meta'[j].accessed # meta'[k].accessed
    <3>1. stamp[j] # stamp[k]
      BY <2>2, <2>4, <2>8
    <3>2. meta[j] # Nil /\ meta[k] # Nil => meta[j].accessed # meta[k].accessed
      BY <2>8 DEF Base, StampsDiffer
    <3>. QED
      BY <2>3, <2>4, <2>5, <2>6, <2>8, <3>1, <3>2
  <2>. QED
    BY <2>7, <2>8 DEF StampsDiffer
<1>. QED
  BY <1>1, <1>2, <1>3, <1>4, <1>5, <1>6 DEF Next, Step, Invoke, Begin, Store, Unwind, mark_dirty,
     BeginSweep, EndSweep, Observe, Acknowledge, Choose, Share, maintenance_generation, Scan,
     Lock, Trimmed, RetryExclusive, Exclude, Repair, Plan, Done, PassUnwinds, Finish,
     Reshard, Migrated, vars, ranks

\* The base of the invariant holds in the beginning.
LEMMA BaseInit == Init => Base
  BY EvictionAssumption, EmptyFrames
  DEF Init, Base, Shape, Values, StampsDiffer, CallsFit, LocksExclude, EpochsOrdered,
      Labels, Passing, Mutating, Trimming, Exclusive, EmptyFrame

\* Every step preserves it.
LEMMA BaseNext == Base /\ [Next]_vars => Base'
  BY ValuesNext, FramesNext, StampsNext, CallsFitNext, LocksNext, EpochsNext DEF Base, Shape

\* The state is typed, calls and locks fit the steps of their threads, epochs and stamps are ordered.
THEOREM BaseAlways == Spec => []Base
  BY BaseInit, BaseNext, PTL DEF Spec
-----------------------------------------------------------------------------
(*****************************************************************************)
(* The length, the metadata and the candidates.                              *)
(*****************************************************************************)
LEMMA DirtyStays ==
  ASSUME Base, repaired_epoch' = repaired_epoch,
         dirty_epoch' \in {dirty_epoch, dirty_epoch + 1, dirty_epoch + 2}
  PROVE  ~dirty' => ~dirty /\ dirty_epoch' = dirty_epoch
  BY DEF Base, Shape, Values, EpochsOrdered, dirty

\* Under a shard's guard, or alone, one meets no unrecorded change of another.
LEMMA GuardedKey ==
  ASSUME Base, NEW t \in Threads, pc[t] \in Mutating
  PROVE  /\ call(t) \in MutationCall /\ call(t).key \in Keys
         /\ \A u \in Threads \ {t} : pc[u] = "stored" => call(u).key # call(t).key
  BY DEF Base, CallsFit, LocksExclude, MutationCall, Mutating

\* Under exclusive routing nobody mutates, trims or evicts.
LEMMA ExclusiveAlone ==
  ASSUME Base, NEW t \in Threads, pc[t] \in Exclusive
  PROVE  \A u \in Threads : pc[u] # "stored" /\ (u # t => pc[u] \notin {"trim", "evict"})
  BY DEF Base, LocksExclude, Exclusive, Mutating, Trimming

\* A step that changes neither map nor metadata, nor who has a change to record.
LEMMA RecordsIdle ==
  ASSUME Base, Records, NEW t \in Threads,
         \A u \in Threads \ {t} : pc'[u] = pc[u] /\ frame'[u] = frame[u],
         pc[t] # "stored", pc'[t] \notin {"stored", "trim", "evict"},
         frame'[t].candidates \in SUBSET frame[t].candidates,
         UNCHANGED <<config, layout, data, total_len, meta, epoch, since>>,
         ~dirty' => ~dirty
  PROVE  Records'
<1>1. \A k \in Keys : Unrecorded(k)' <=> Unrecorded(k)
  BY DEF Unrecorded, call
<1>2. Counted' = Counted
  BY <1>1 DEF Counted, call
<1>3. LengthCounts'
  BY <1>2 DEF Records, LengthCounts
<1>4. MetadataExact'
  BY <1>1 DEF Records, MetadataExact, Unrecorded, call
<1>5. ChangesKnown'
  BY DEF Records, ChangesKnown, call
<1>6. CandidatesDiffer'
  BY DEF Records, CandidatesDiffer
<1>7. CandidatesValid'
  BY DEF Records, CandidatesValid, shard
<1>8. SinceEarned'
  BY <1>1 DEF Records, SinceEarned, Earned
<1>. QED
  BY <1>3, <1>4, <1>5, <1>6, <1>7, <1>8 DEF Records

\* The thread that steps is the only one whose step and frame change.
LEMMA OthersStay ==
  ASSUME Base, NEW t \in Threads, Step(t)
  PROVE  \A u \in Threads \ {t} : pc'[u] = pc[u] /\ frame'[u] = frame[u]
<1>1. DOMAIN pc = Threads /\ DOMAIN frame = Threads
  BY DEF Base, Shape, Values
<1>2. SUFFICES ASSUME NEW u \in Threads \ {t} PROVE pc'[u] = pc[u] /\ frame'[u] = frame[u]
  OBVIOUS
<1>. USE <1>1 DEF Goto
<1>3. ASSUME Invoke(t) PROVE pc'[u] = pc[u] /\ frame'[u] = frame[u]
  BY <1>3 DEF Invoke
<1>4. ASSUME Begin(t) PROVE pc'[u] = pc[u] /\ frame'[u] = frame[u]
  BY <1>4 DEF Begin, Committed
<1>5. ASSUME Store(t) PROVE pc'[u] = pc[u] /\ frame'[u] = frame[u]
  BY <1>5 DEF Store
<1>6. ASSUME Record(t) PROVE pc'[u] = pc[u] /\ frame'[u] = frame[u]
  BY <1>6 DEF Record, Committed
<1>7. ASSUME Unwind(t) PROVE pc'[u] = pc[u] /\ frame'[u] = frame[u]
  BY <1>7 DEF Unwind, Unwinding
<1>8. ASSUME mark_dirty(t) PROVE pc'[u] = pc[u] /\ frame'[u] = frame[u]
  BY <1>8 DEF mark_dirty, Return
<1>9. ASSUME BeginSweep(t) PROVE pc'[u] = pc[u] /\ frame'[u] = frame[u]
  BY <1>9 DEF BeginSweep
<1>10. ASSUME SweepShard(t) PROVE pc'[u] = pc[u] /\ frame'[u] = frame[u]
  BY <1>10 DEF SweepShard
<1>11. ASSUME SweepUnwinds(t) PROVE pc'[u] = pc[u] /\ frame'[u] = frame[u]
  BY <1>11 DEF SweepUnwinds, Unwinding
<1>12. ASSUME EndSweep(t) PROVE pc'[u] = pc[u] /\ frame'[u] = frame[u]
  BY <1>12 DEF EndSweep, Committed
<1>13. ASSUME Observe(t) PROVE pc'[u] = pc[u] /\ frame'[u] = frame[u]
  BY <1>13 DEF Observe
<1>14. ASSUME Acknowledge(t) PROVE pc'[u] = pc[u] /\ frame'[u] = frame[u]
  BY <1>14 DEF Acknowledge, Finish, Return
<1>15. ASSUME Choose(t) PROVE pc'[u] = pc[u] /\ frame'[u] = frame[u]
  BY <1>15 DEF Choose
<1>16. ASSUME Share(t) PROVE pc'[u] = pc[u] /\ frame'[u] = frame[u]
  BY <1>16 DEF Share
<1>17. ASSUME maintenance_generation(t) PROVE pc'[u] = pc[u] /\ frame'[u] = frame[u]
  BY <1>17 DEF maintenance_generation
<1>18. ASSUME Scan(t) PROVE pc'[u] = pc[u] /\ frame'[u] = frame[u]
  BY <1>18 DEF Scan
<1>19. ASSUME Lock(t) PROVE pc'[u] = pc[u] /\ frame'[u] = frame[u]
  BY <1>19 DEF Lock
<1>20. ASSUME Trim(t) PROVE pc'[u] = pc[u] /\ frame'[u] = frame[u]
  BY <1>20 DEF Trim
<1>21. ASSUME Trimmed(t) PROVE pc'[u] = pc[u] /\ frame'[u] = frame[u]
  BY <1>21 DEF Trimmed, Finish, Return
<1>22. ASSUME RetryExclusive(t) PROVE pc'[u] = pc[u] /\ frame'[u] = frame[u]
  BY <1>22 DEF RetryExclusive
<1>23. ASSUME Exclude(t) PROVE pc'[u] = pc[u] /\ frame'[u] = frame[u]
  BY <1>23 DEF Exclude
<1>24. ASSUME Repair(t) PROVE pc'[u] = pc[u] /\ frame'[u] = frame[u]
  BY <1>24 DEF Repair
<1>25. ASSUME Publish(t) PROVE pc'[u] = pc[u] /\ frame'[u] = frame[u]
  BY <1>25 DEF Publish
<1>26. ASSUME Plan(t) PROVE pc'[u] = pc[u] /\ frame'[u] = frame[u]
  BY <1>26 DEF Plan
<1>27. ASSUME Evict(t) PROVE pc'[u] = pc[u] /\ frame'[u] = frame[u]
  BY <1>27 DEF Evict
<1>28. ASSUME Done(t) PROVE pc'[u] = pc[u] /\ frame'[u] = frame[u]
  BY <1>28 DEF Done, Finish, Return
<1>29. ASSUME PassUnwinds(t) PROVE pc'[u] = pc[u] /\ frame'[u] = frame[u]
  BY <1>29 DEF PassUnwinds, Unwinding, Return
<1>30. ASSUME NEW k \in Keys, Read(t, k) PROVE pc'[u] = pc[u] /\ frame'[u] = frame[u]
  BY <1>30 DEF Read
<1>. QED
  BY <1>3, <1>4, <1>5, <1>6, <1>7, <1>8, <1>9, <1>10, <1>11, <1>12, <1>13, <1>14, <1>15, <1>16, <1>17, <1>18, <1>19, <1>20, <1>21, <1>22, <1>23, <1>24, <1>25, <1>26, <1>27, <1>28, <1>29, <1>30 DEF Step

\* A change is stored and not yet recorded: what counted still counts.
LEMMA RecordsStore ==
  ASSUME Base, Records, NEW t \in Threads, Store(t)
  PROVE  Records'
<1>1. PICK k \in Keys : k = call(t).key
  BY GuardedKey DEF Store, Mutating
<1>2. \A u \in Threads \ {t} : /\ pc'[u] = pc[u] /\ frame'[u] = frame[u]
                               /\ pc[u] = "stored" => call(u).key # k
  BY <1>1, GuardedKey, OthersStay DEF Store, Mutating, Step
<1>3. /\ pc[t] = "ticket" /\ pc'[t] = "stored"
      /\ frame'[t] = [frame[t] EXCEPT !.replaced = (data[k] # Absent)]
  BY <1>1 DEF Store, Goto, Base, Shape, Values
<1>4. /\ frame'[t].call = frame[t].call /\ frame'[t].candidates = frame[t].candidates
      /\ frame'[t].weight = frame[t].weight /\ frame'[t].replaced = (data[k] # Absent)
  BY <1>3 DEF Base, Shape, Frame
<1>5. /\ \A j \in Keys \ {k} : data'[j] = data[j]
      /\ data'[k] = IF call(t).op = "insert" THEN frame[t].weight ELSE Absent
  BY <1>1 DEF Store, Base, Shape, Values
<1>6. UNCHANGED <<config, layout, total_len, meta, epoch, since>> /\ (~dirty' => ~dirty)
  BY DEF Store, topology, ranks, epochs, dirty
<1>7. ~Unrecorded(k) /\ Unrecorded(k)' /\ \A j \in Keys \ {k} : Unrecorded(j)' <=> Unrecorded(j)
  BY <1>1, <1>2, <1>3, <1>4 DEF Unrecorded, call
<1>8. Counted' = Counted
  <2>1. ASSUME NEW j \in Keys \ {k} PROVE j \in Counted' <=> j \in Counted
    <3>1. \A u \in Threads : /\ pc'[u] = "stored" /\ call(u)'.key = j <=> pc[u] = "stored" /\ call(u).key = j
                             /\ pc[u] = "stored" => frame'[u] = frame[u]
      BY <1>1, <1>2, <1>3, <1>4 DEF call
    <3>2. /\ Unrecorded(j)' <=> Unrecorded(j)
          /\ data'[j] = data[j]
      BY <1>5, <1>7
    <3>. QED
      BY <3>1, <3>2 DEF Counted
  <2>2. k \in Counted' <=> k \in Counted
    <3>1. k \in Counted <=> data[k] # Absent
      BY <1>7 DEF Counted
    <3>2. \A u \in Threads : pc'[u] = "stored" /\ call(u)'.key = k => u = t
      BY <1>2 DEF call
    <3>3. pc'[t] = "stored" /\ call(t)'.key = k /\ (frame'[t].replaced <=> data[k] # Absent)
      BY <1>1, <1>3, <1>4 DEF call
    <3>4. k \in Counted' <=> frame'[t].replaced
      BY <1>7, <3>2, <3>3 DEF Counted
    <3>. QED
      BY <3>1, <3>3, <3>4
  <2>. QED
    BY <2>1, <2>2 DEF Counted
<1>9. LengthCounts'
  BY <1>6, <1>8 DEF Records, LengthCounts
<1>10. MetadataExact'
  BY <1>5, <1>6, <1>7 DEF Records, MetadataExact, Unrecorded
<1>11. ~dirty => (data[k] # Absent <=> meta[k] # Nil)
  BY <1>7 DEF Records, MetadataExact, Unrecorded
<1>12. ChangesKnown'
  <2>1. ASSUME NEW u \in Threads, u # t, pc'[u] = "stored"
        PROVE  /\ data'[call(u)'.key] = IF call(u)'.op = "insert" THEN frame'[u].weight ELSE Absent
               /\ ~dirty' => (frame'[u].replaced <=> meta'[call(u)'.key] # Nil)
    <3>1. call(u).key \in Keys \ {k}
      BY <1>2, <2>1, GuardedKey DEF Mutating
    <3>. QED
      BY <1>2, <1>5, <1>6, <2>1, <3>1 DEF Records, ChangesKnown, call
  <2>2. /\ data'[call(t)'.key] = IF call(t)'.op = "insert" THEN frame'[t].weight ELSE Absent
        /\ ~dirty' => (frame'[t].replaced <=> meta'[call(t)'.key] # Nil)
    BY <1>1, <1>4, <1>5, <1>6, <1>11 DEF call
  <2>. QED
    BY <2>1, <2>2 DEF ChangesKnown
<1>13. CandidatesDiffer'
  BY <1>2, <1>4 DEF Records, CandidatesDiffer
<1>14. CandidatesValid'
  BY <1>2, <1>3, <1>6 DEF Records, CandidatesValid, shard
<1>15. SinceEarned'
  BY <1>5, <1>6, <1>7 DEF Records, SinceEarned, Earned
<1>. QED
  BY <1>9, <1>10, <1>12, <1>13, <1>14, <1>15 DEF Records

\* The end of an unrecorded change: ShardMutation::drop makes the length right again.
LEMMA LengthSettles ==
  ASSUME Base, LengthCounts, NEW t \in Threads, NEW k \in Keys,
         pc[t] = "stored", k = call(t).key, pc'[t] # "stored", Published(t), data' = data,
         \A u \in Threads \ {t} : pc'[u] = pc[u] /\ frame'[u] = frame[u]
  PROVE  /\ LengthCounts' /\ ~Unrecorded(k)'
         /\ \A j \in Keys \ {k} : Unrecorded(j)' <=> Unrecorded(j)
<1>1. \A u \in Threads \ {t} : pc[u] = "stored" => call(u).key # k
  BY GuardedKey DEF Mutating
<1>2. ~Unrecorded(k)' /\ Unrecorded(k) /\ \A j \in Keys \ {k} : Unrecorded(j)' <=> Unrecorded(j)
  BY <1>1 DEF Unrecorded, call
<1>3. k \in Counted <=> frame[t].replaced
  BY <1>1, <1>2 DEF Counted
<1>4. Counted' = IF data[k] # Absent THEN Counted \cup {k} ELSE Counted \ {k}
  <2>1. ASSUME NEW j \in Keys \ {k} PROVE j \in Counted' <=> j \in Counted
    BY <1>1, <1>2 DEF Counted, call
  <2>2. k \in Counted' <=> data[k] # Absent
    BY <1>2 DEF Counted
  <2>3. Counted \in SUBSET Keys /\ Counted' \in SUBSET Keys
    BY DEF Counted
  <2>. QED
    BY <2>1, <2>2, <2>3
<1>5. IsFiniteSet(Counted) /\ Cardinality(Counted) \in Nat
  BY CardinalityKeys DEF Counted
<1>6. /\ Cardinality(Counted \cup {k}) = IF k \in Counted THEN Cardinality(Counted)
                                                          ELSE Cardinality(Counted) + 1
      /\ Cardinality(Counted \ {k}) = IF k \in Counted THEN Cardinality(Counted) - 1
                                                       ELSE Cardinality(Counted)
  BY <1>5, FS_AddElement, FS_RemoveElement
<1>7. total_len = Cardinality(Counted)
  BY DEF LengthCounts
<1>8. total_len' = total_len + (IF data[k] # Absent THEN 1 ELSE 0)
                             - (IF frame[t].replaced THEN 1 ELSE 0)
  BY DEF Published
<1>9. PICK n \in Nat : n = Cardinality(Counted)
  BY <1>5
<1>10. total_len' = Cardinality(Counted')
  <2>1. CASE data[k] # Absent
    <3>1. Cardinality(Counted') = IF frame[t].replaced THEN n ELSE n + 1
      BY <1>3, <1>4, <1>6, <1>9, <2>1
    <3>2. total_len' = n + 1 - (IF frame[t].replaced THEN 1 ELSE 0)
      BY <1>7, <1>8, <1>9, <2>1
    <3>. QED
      BY <3>1, <3>2
  <2>2. CASE data[k] = Absent
    <3>1. Cardinality(Counted') = IF frame[t].replaced THEN n - 1 ELSE n
      BY <1>3, <1>4, <1>6, <1>9, <2>2
    <3>2. total_len' = n + 0 - (IF frame[t].replaced THEN 1 ELSE 0)
      BY <1>7, <1>8, <1>9, <2>2
    <3>. QED
      BY <3>1, <3>2
  <2>. QED
    BY <2>1, <2>2
<1>. QED
  BY <1>2, <1>10 DEF LengthCounts

\* What a change leaves behind is recorded, under the guard it was made under.
LEMMA RecordsRecord ==
  ASSUME Base, Records, NEW t \in Threads, Record(t)
  PROVE  Records'
<1>1. PICK k \in Keys : k = call(t).key
  BY GuardedKey DEF Record, Mutating
<1>2. \A u \in Threads \ {t} :
        /\ pc'[u] = pc[u] /\ frame'[u] = frame[u]
        /\ pc[u] = "stored" => call(u).key \in Keys \ {k}
        /\ pc[u] = "trim" => shard(u) # layout[k]
        /\ pc[u] # "evict"
  <2>1. pc[t] \in Mutating
    BY DEF Record, Mutating
  <2>2. ASSUME NEW u \in Threads \ {t}
        PROVE /\ pc[u] = "trim" => shard(u) # layout[k]
              /\ pc[u] # "evict"
    BY <1>1, <2>1, <2>2 DEF Base, LocksExclude, Exclusive
  <2>. QED
    BY <1>1, <2>1, <2>2, GuardedKey, OthersStay DEF Step, Mutating
<1>3. /\ pc[t] = "stored" /\ pc'[t] = "enforce" /\ frame'[t].candidates = {}
      /\ UNCHANGED <<config, layout, data, epoch>> /\ (~dirty' => ~dirty)
  BY EmptyFrames DEF Record, Committed, Goto, EmptyFrame, topology, epochs, dirty, Base, Shape, Values
<1>4. /\ data[k] = IF call(t).op = "insert" THEN frame[t].weight ELSE Absent
      /\ ~dirty => (frame[t].replaced <=> meta[k] # Nil)
  BY <1>1, <1>3 DEF Records, ChangesKnown
<1>5. LengthCounts' /\ ~Unrecorded(k)' /\ \A j \in Keys \ {k} : Unrecorded(j)' <=> Unrecorded(j)
  BY <1>1, <1>2, <1>3, LengthSettles DEF Records, Record
<1>6. CASE call(t).op = "insert"
  <2>1. /\ \A j \in Keys \ {k} : meta'[j] = meta[j]
        /\ meta'[k] # Nil /\ meta'[k].weight = frame[t].weight /\ meta'[k].accessed = sequence
        /\ \/ meta'[k].inserted = sequence
           \/ frame[t].replaced /\ meta[k] # Nil /\ meta'[k].inserted = meta[k].inserted
        /\ frame[t].replaced /\ meta[k] # Nil => meta'[k].inserted = meta[k].inserted
    BY <1>1, <1>6, InsertRecords DEF Base
  <2>2. frame[t].weight \in Nat /\ frame[t].from \in Nat /\ frame[t].from <= sequence /\ sequence \in Nat
    BY FrameFields DEF Base, Shape, Values, EpochsOrdered
  <2>3. /\ \A j \in Keys \ {k} : since'[j] = since[j]
        /\ since'[k] = IF config.policy = "Fifo" /\ frame[t].replaced THEN since[k]
                       ELSE [from |-> frame[t].from, to |-> sequence + 1]
    BY <1>1, <1>6 DEF Record, Base, Shape, Values
  <2>4. data[k] # Absent
    BY <1>4, <1>6, <2>2 DEF Absent
  <2>5. MetadataExact'
    BY <1>3, <1>4, <1>5, <1>6, <2>1, <2>4 DEF Records, MetadataExact, Unrecorded
  <2>6. ChangesKnown'
    BY <1>2, <1>3, <2>1 DEF Records, ChangesKnown, call
  <2>7. CandidatesDiffer'
    BY <1>2, <1>3 DEF Records, CandidatesDiffer
  <2>8. CandidatesValid'
    <3>1. ASSUME NEW u \in Threads, u # t, pc'[u] = "trim", ~dirty', NEW c \in frame'[u].candidates
          PROVE  c.epoch = epoch' /\ meta'[c.key] = c.entry
      <4>1. c \in frame[u].candidates /\ pc[u] = "trim" /\ ~dirty
        BY <1>2, <1>3, <3>1
      <4>2. c.key \in Keys
        BY <4>1, FrameFields DEF Base, Shape, Candidate
      <4>3. c.key # k /\ c.epoch = epoch /\ meta[c.key] = c.entry
        BY <1>2, <3>1, <4>1 DEF Records, CandidatesValid
      <4>. QED
        BY <1>3, <2>1, <4>2, <4>3
    <3>. QED
      BY <1>2, <1>3, <3>1 DEF Records, CandidatesValid, shard
  <2>9. SinceEarned'
    <3>1. ASSUME NEW j \in Keys \ {k}, since'[j] # Nil
          PROVE  /\ data'[j] # Absent \/ Unrecorded(j)'
                 /\ meta'[j] # Nil
                 /\ since'[j].from <= Earned(meta[j])' /\ Earned(meta[j])' < since'[j].to
      BY <1>3, <1>5, <2>1, <2>3, <3>1 DEF Records, SinceEarned, Earned
    <3>2. CASE config.policy = "Fifo" /\ frame[t].replaced
      <4>1. since'[k] = since[k]
        BY <2>3, <3>2
      <4>2. since[k] # Nil => /\ meta[k] # Nil /\ since[k].from <= meta[k].inserted
                              /\ meta[k].inserted < since[k].to
        BY <3>2 DEF Records, SinceEarned, Earned
      <4>. QED
        BY <1>3, <2>1, <2>4, <3>1, <3>2, <4>1, <4>2 DEF SinceEarned, Earned
    <3>3. CASE ~(config.policy = "Fifo" /\ frame[t].replaced)
      <4>1. since'[k].from = frame[t].from /\ since'[k].to = sequence + 1
        BY <2>3, <3>3
      <4>2. Earned(meta[k])' = sequence
        BY <1>3, <2>1, <3>3 DEF Earned
      <4>. QED
        BY <1>3, <2>1, <2>2, <2>4, <3>1, <4>1, <4>2 DEF SinceEarned
    <3>. QED
      BY <3>2, <3>3
  <2>. QED
    BY <1>5, <2>5, <2>6, <2>7, <2>8, <2>9 DEF Records
<1>7. CASE call(t).op # "insert"
  <2>1. /\ \A j \in Keys \ {k} : meta'[j] = meta[j] /\ since'[j] = since[j]
        /\ meta'[k] = IF frame[t].replaced THEN Nil ELSE meta[k]
        /\ since'[k] = Nil
    BY <1>1, <1>7 DEF Record, record_remove, Base, Shape, Values
  <2>5. MetadataExact'
    BY <1>3, <1>4, <1>5, <1>7, <2>1 DEF Records, MetadataExact, Unrecorded
  <2>6. ChangesKnown'
    BY <1>2, <1>3, <2>1 DEF Records, ChangesKnown, call
  <2>7. CandidatesDiffer'
    BY <1>2, <1>3 DEF Records, CandidatesDiffer
  <2>8. CandidatesValid'
    <3>1. ASSUME NEW u \in Threads, u # t, pc'[u] = "trim", ~dirty', NEW c \in frame'[u].candidates
          PROVE  c.epoch = epoch' /\ meta'[c.key] = c.entry
      <4>1. c \in frame[u].candidates /\ pc[u] = "trim" /\ ~dirty
        BY <1>2, <1>3, <3>1
      <4>2. c.key \in Keys
        BY <4>1, FrameFields DEF Base, Shape, Candidate
      <4>3. c.key # k /\ c.epoch = epoch /\ meta[c.key] = c.entry
        BY <1>2, <3>1, <4>1 DEF Records, CandidatesValid
      <4>. QED
        BY <1>3, <2>1, <4>2, <4>3
    <3>. QED
      BY <1>2, <1>3, <3>1 DEF Records, CandidatesValid, shard
  <2>9. SinceEarned'
    BY <1>3, <1>5, <2>1 DEF Records, SinceEarned, Earned
  <2>. QED
    BY <1>5, <2>5, <2>6, <2>7, <2>8, <2>9 DEF Records
<1>. QED
  BY <1>6, <1>7

\* A panic under the ticket makes the metadata dirty and settles the length.
LEMMA RecordsUnwind ==
  ASSUME Base, Records, NEW t \in Threads, Unwind(t)
  PROVE  Records'
<1>1. /\ \A u \in Threads \ {t} : pc'[u] = pc[u] /\ frame'[u] = frame[u]
      /\ pc'[t] = "unwind" /\ frame'[t].candidates = {}
      /\ UNCHANGED <<config, layout, data, meta, epoch>>
  BY OthersStay DEF Step, Unwind, Unwinding, Goto, EmptyFrame, topology, ranks, Base, Shape, Values
<1>2. CASE pc[t] # "stored"
  <2>1. UNCHANGED <<total_len, since>>
    BY <1>2 DEF Unwind
  <2>2. ~dirty' => ~dirty
    BY DirtyStays DEF Unwind, TicketDropped
  <2>. QED
    BY <1>1, <1>2, <2>1, <2>2, RecordsIdle
<1>3. CASE pc[t] = "stored"
  <2>1. PICK k \in Keys : k = call(t).key
    BY <1>3, GuardedKey DEF Mutating
  <2>2. dirty'
    <3>1. dirty_epoch' = dirty_epoch + 1 /\ repaired_epoch' = repaired_epoch
      BY <1>3 DEF Unwind, TicketDropped
    <3>. QED
      BY <3>1 DEF dirty, Base, Shape, Values, EpochsOrdered
  <2>3. Published(t) /\ since' = [since EXCEPT ![k] = Nil]
    BY <1>3, <2>1 DEF Unwind
  <2>4. LengthCounts' /\ ~Unrecorded(k)' /\ \A j \in Keys \ {k} : Unrecorded(j)' <=> Unrecorded(j)
    BY <1>1, <1>3, <2>1, <2>3, LengthSettles DEF Records
  <2>5. MetadataExact'
    BY <2>2 DEF MetadataExact
  <2>6. ChangesKnown'
    BY <1>1, <2>2 DEF Records, ChangesKnown, call
  <2>7. CandidatesDiffer'
    BY <1>1 DEF Records, CandidatesDiffer
  <2>8. CandidatesValid'
    BY <1>1, <2>2 DEF Records, CandidatesValid, shard
  <2>9. since'[k] = Nil /\ \A j \in Keys \ {k} : since'[j] = since[j]
    BY <2>3 DEF Base, Shape, Values
  <2>10. SinceEarned'
    BY <1>1, <2>4, <2>9 DEF Records, SinceEarned, Earned
  <2>. QED
    BY <2>4, <2>5, <2>6, <2>7, <2>8, <2>10 DEF Records
<1>. QED
  BY <1>2, <1>3

\* One candidate is dealt with: it is gone from the map and its metadata at once, or stays.
LEMMA RecordsEvict ==
  ASSUME Base, Records, NEW t \in Threads, pc[t] \in {"trim", "evict"}, pc'[t] = pc[t],
         NEW c \in frame[t].candidates, TryEvict(c) \/ UNCHANGED <<map, meta, since>>,
         \A u \in Threads \ {t} : pc'[u] = pc[u] /\ frame'[u] = frame[u],
         frame'[t].candidates = frame[t].candidates \ {c}, frame'[t].slots = frame[t].slots,
         UNCHANGED <<config, layout, epoch, dirty_epoch, repaired_epoch>>
  PROVE  Records'
<1>1. PICK k \in Keys : k = c.key
  BY FrameFields DEF Base, Shape, Candidate
<1>2. \A u \in Threads :
        /\ pc[u] = "stored" => u # t /\ call(u).key \in Keys \ {k}
        /\ pc[u] = "trim" /\ u # t => shard(u) # layout[k]
        /\ pc[u] = "evict" => u = t
  <2>1. pc[t] = "trim" => layout[k] = shard(t)
    BY <1>1 DEF Records, CandidatesValid
  <2>2. ASSUME NEW u \in Threads
        PROVE  /\ pc[u] = "stored" => u # t /\ call(u).key \in Keys \ {k}
               /\ pc[u] = "trim" /\ u # t => shard(u) # layout[k]
               /\ pc[u] = "evict" => u = t
    <3>1. pc[u] = "stored" => call(u).key \in Keys
      BY GuardedKey DEF Mutating
    <3>2. CASE pc[t] = "trim"
      BY <2>1, <3>1, <3>2 DEF Base, LocksExclude, Exclusive, Mutating, Trimming
    <3>3. CASE pc[t] = "evict"
      BY <3>1, <3>3 DEF Base, LocksExclude, Exclusive, Mutating, Trimming
    <3>. QED
      BY <3>2, <3>3
  <2>. QED
    BY <2>2
<1>3. \A u \in Threads : /\ pc'[u] = pc[u] /\ frame'[u].slots = frame[u].slots
                         /\ pc[u] = "stored" => frame'[u] = frame[u]
                         /\ frame'[u].candidates \in SUBSET frame[u].candidates
  BY <1>2
<1>4. dirty' = dirty /\ ~Unrecorded(k) /\ \A j \in Keys : Unrecorded(j)' <=> Unrecorded(j)
  BY <1>2, <1>3 DEF dirty, Unrecorded, call
<1>5. CandidatesDiffer'
  BY <1>3 DEF Records, CandidatesDiffer
<1>6. CASE UNCHANGED <<map, meta, since>>
  <2>1. UNCHANGED <<data, total_len, meta, since>>
    BY <1>6 DEF map
  <2>2. Counted' = Counted
    BY <1>3, <1>4, <2>1 DEF Counted, call
  <2>3. LengthCounts'
    BY <2>1, <2>2 DEF Records, LengthCounts
  <2>4. MetadataExact'
    BY <1>4, <2>1 DEF Records, MetadataExact, Unrecorded
  <2>5. ChangesKnown'
    BY <1>3, <1>4, <2>1 DEF Records, ChangesKnown, call
  <2>6. CandidatesValid'
    BY <1>3, <1>4, <2>1 DEF Records, CandidatesValid, shard
  <2>7. SinceEarned'
    BY <1>4, <2>1 DEF Records, SinceEarned, Earned
  <2>. QED
    BY <1>5, <2>3, <2>4, <2>5, <2>6, <2>7 DEF Records
<1>7. CASE data[k] # Absent /\ EvictKey(k)
  <2>1. /\ data'[k] = Absent /\ meta'[k] = Nil /\ since'[k] = Nil /\ total_len' = total_len - 1
        /\ \A j \in Keys \ {k} : data'[j] = data[j] /\ meta'[j] = meta[j] /\ since'[j] = since[j]
    BY <1>7 DEF EvictKey, Base, Shape, Values
  <2>2. Counted' = Counted \ {k} /\ k \in Counted
    BY <1>3, <1>4, <1>7, <2>1 DEF Counted, call
  <2>3. LengthCounts'
    <3>1. IsFiniteSet(Counted)
      BY CardinalityKeys DEF Counted
    <3>2. Cardinality(Counted \ {k}) = Cardinality(Counted) - 1
      BY <2>2, <3>1, FS_RemoveElement
    <3>. QED
      BY <2>1, <2>2, <3>2 DEF Records, LengthCounts
  <2>4. MetadataExact'
    BY <1>4, <2>1 DEF Records, MetadataExact, Unrecorded
  <2>5. ChangesKnown'
    BY <1>2, <1>3, <1>4, <2>1 DEF Records, ChangesKnown, call
  <2>6. CandidatesValid'
    <3>1. ASSUME NEW u \in Threads, pc'[u] \in {"trim", "evict"}, ~dirty', NEW d \in frame'[u].candidates
          PROVE  d.epoch = epoch' /\ meta'[d.key] = d.entry
      <4>1. d \in frame[u].candidates /\ pc[u] \in {"trim", "evict"} /\ ~dirty
        BY <1>3, <1>4, <3>1
      <4>2. d.key \in Keys
        BY <4>1, FrameFields DEF Base, Shape, Candidate
      <4>3. d.epoch = epoch /\ meta[d.key] = d.entry
        BY <4>1 DEF Records, CandidatesValid
      <4>4. CASE u = t
        <5>1. d # c /\ d \in frame[t].candidates
          BY <3>1, <4>4
        <5>2. d.key # k
          BY <1>1, <5>1 DEF Records, CandidatesDiffer
        <5>. QED
          BY <2>1, <4>2, <4>3, <5>2
      <4>5. CASE u # t
        <5>1. pc[u] = "trim" /\ shard(u) # layout[k]
          BY <1>2, <4>1, <4>5
        <5>2. d.key # k
          BY <4>1, <5>1 DEF Records, CandidatesValid
        <5>. QED
          BY <2>1, <4>2, <4>3, <5>2
      <4>. QED
        BY <4>4, <4>5
    <3>. QED
      BY <1>3, <3>1 DEF Records, CandidatesValid, shard
  <2>7. SinceEarned'
    BY <1>4, <2>1 DEF Records, SinceEarned, Earned
  <2>. QED
    BY <1>5, <2>3, <2>4, <2>5, <2>6, <2>7 DEF Records
<1>. QED
  BY <1>1, <1>6, <1>7 DEF TryEvict

\* The candidate a pass takes is one of its candidates.
LEMMA NextCandidate ==
  ASSUME Base, Records, NEW t \in Threads, frame[t].candidates # {}
  PROVE  /\ First(policy(t), frame[t].candidates) \in frame[t].candidates
         /\ \A d \in frame[t].candidates \ {First(policy(t), frame[t].candidates)} :
              Below(policy_rank(policy(t), First(policy(t), frame[t].candidates).entry),
                    policy_rank(policy(t), d.entry))
<1>1. frame[t].candidates \in SUBSET Candidate
  BY FrameFields DEF Base, Shape
<1>2. \A c, d \in frame[t].candidates : c # d =>
        c.entry.incarnation # d.entry.incarnation /\ c.entry.accessed # d.entry.accessed
  BY DEF Records, CandidatesDiffer
<1>3. policy(t) \in {"Lru", "Lfu", "Fifo"}
  BY PolicyKnown DEF Base
<1>. QED
  BY <1>1, <1>2, <1>3, FirstFirst

\* Trimming keeps the records.
LEMMA RecordsTrim ==
  ASSUME Base, Records, NEW t \in Threads, Trim(t)
  PROVE  Records'
<1>1. /\ \A u \in Threads \ {t} : pc'[u] = pc[u] /\ frame'[u] = frame[u]
      /\ pc[t] = "trim" /\ UNCHANGED <<config, layout, epoch, dirty_epoch, repaired_epoch>>
  BY OthersStay DEF Step, Trim, topology, epochs
<1>2. PICK c : c = First(policy(t), frame[t].candidates)
  OBVIOUS
<1>3. CASE /\ frame[t].candidates # {} /\ TryEvict(c) /\ pc' = pc
           /\ frame' = [frame EXCEPT ![t].candidates = @ \ {c}]
  <2>1. c \in frame[t].candidates
    BY <1>2, <1>3, NextCandidate
  <2>2. frame'[t].candidates = frame[t].candidates \ {c} /\ frame'[t].slots = frame[t].slots
    BY <1>3 DEF Base, Shape, Frame
  <2>. QED
    BY <1>1, <1>3, <2>1, <2>2, RecordsEvict
<1>4. CASE /\ \E b : frame' = [frame EXCEPT ![t].candidates = {}, ![t].slots = @ \ {shard(t)},
                                            ![t].retry_exclusive = b]
           /\ Goto(t, "scan") /\ UNCHANGED <<map, meta, since>>
  <2>1. frame'[t].candidates = {} /\ pc'[t] = "scan"
    BY <1>4 DEF Goto, Base, Shape, Values, Frame
  <2>. QED
    BY <1>1, <1>4, <2>1, RecordsIdle DEF map, dirty
<1>. QED
  BY <1>2, <1>3, <1>4 DEF Trim

\* Evicting under exclusive routing keeps the records.
LEMMA RecordsEvictStep ==
  ASSUME Base, Records, NEW t \in Threads, Evict(t)
  PROVE  Records'
<1>1. /\ \A u \in Threads \ {t} : pc'[u] = pc[u] /\ frame'[u] = frame[u]
      /\ pc[t] = "evict" /\ pc' = pc /\ UNCHANGED <<config, layout, epoch, dirty_epoch, repaired_epoch>>
  BY OthersStay DEF Step, Evict, topology, epochs
<1>2. PICK c \in frame[t].candidates :
        /\ c = First(policy(t), frame[t].candidates)
        /\ frame' = [frame EXCEPT ![t].candidates = @ \ {c}]
        /\ TryEvict(c) \/ UNCHANGED <<map, meta, since>>
  BY NextCandidate DEF Evict
<1>3. frame'[t].candidates = frame[t].candidates \ {c} /\ frame'[t].slots = frame[t].slots
  BY <1>2 DEF Base, Shape, Frame
<1>. QED
  BY <1>1, <1>2, <1>3, RecordsEvict

\* A sweep is alone: it removes R and, of the metadata, at most that of R.
LEMMA RecordsSweep ==
  ASSUME Base, Records, NEW t \in Threads, SweepShard(t) \/ SweepUnwinds(t)
  PROVE  Records'
<1>1. /\ pc[t] = "sweep" /\ pc'[t] \notin {"stored", "trim", "evict"}
      /\ \A u \in Threads \ {t} : pc'[u] = pc[u] /\ frame'[u] = frame[u]
      /\ UNCHANGED <<config, layout, epoch, repaired_epoch>>
  BY OthersStay DEF Step, SweepShard, SweepUnwinds, Unwinding, Goto, topology, Base, Shape, Values
<1>2. \A u \in Threads : /\ pc[u] \notin {"stored", "trim", "evict"}
                         /\ pc'[u] \notin {"stored", "trim", "evict"}
  BY <1>1, ExclusiveAlone DEF Exclusive
<1>3. PICK R \in SUBSET InShard(shard(t)), ghosts \in SUBSET Keys :
        /\ Swept(R, ghosts)
        /\ ~dirty' => ghosts = {} /\ ~dirty
  <2>1. CASE SweepShard(t)
    <3>1. PICK R \in SUBSET InShard(shard(t)) : Swept(R, {})
      BY <2>1 DEF SweepShard
    <3>2. dirty' = dirty
      BY <2>1 DEF SweepShard, dirty
    <3>. QED
      BY <3>1, <3>2
  <2>2. CASE SweepUnwinds(t)
    <3>0. PICK R \in SUBSET InShard(shard(t)) : \E ghosts \in SUBSET R : Swept(R, ghosts)
      BY <2>2 DEF SweepUnwinds
    <3>1. PICK ghosts \in SUBSET R : Swept(R, ghosts)
      BY <3>0
    <3>2. ghosts \in SUBSET Keys
      BY <3>0, <3>1 DEF InShard, Stored
    <3>3. dirty_epoch' = dirty_epoch + 1 /\ repaired_epoch' = repaired_epoch
      BY <2>2 DEF SweepUnwinds, TicketDropped
    <3>4. dirty'
      BY <3>3 DEF dirty, Base, Shape, Values, EpochsOrdered
    <3>. QED
      BY <3>1, <3>2, <3>4
  <2>. QED
    BY <2>1, <2>2
<1>4. /\ data' = [k \in Keys |-> IF k \in R THEN Absent ELSE data[k]]
      /\ total_len' = total_len - Cardinality(R)
      /\ meta' = [k \in Keys |-> IF k \in R \ ghosts THEN Nil ELSE meta[k]]
      /\ since' = [k \in Keys |-> IF k \in R THEN Nil ELSE since[k]]
  BY <1>3 DEF Swept
<1>5. \A k \in Keys : ~Unrecorded(k) /\ ~Unrecorded(k)'
  BY <1>2 DEF Unrecorded
<1>6. LengthCounts'
  <2>1. Counted = Stored /\ Counted' = Stored \ R /\ R \in SUBSET Stored
    BY <1>4, <1>5 DEF Counted, Stored, InShard
  <2>2. IsFiniteSet(Stored) /\ Stored \cap R = R
    BY <2>1, CardinalityKeys DEF Stored
  <2>3. Cardinality(Stored \ R) = Cardinality(Stored) - Cardinality(R)
    BY <2>2, FS_Difference
  <2>. QED
    BY <1>4, <2>1, <2>3 DEF Records, LengthCounts
<1>7. MetadataExact'
  <2>. SUFFICES ASSUME ~dirty', NEW k \in Keys PROVE Exact(k)'
    BY DEF MetadataExact, Exact
  <2>1. Exact(k) /\ ghosts = {}
    BY <1>2, <1>3 DEF Records, MetadataExact, Exact
  <2>. QED
    BY <1>4, <2>1 DEF Exact
<1>8. ChangesKnown' /\ CandidatesValid'
  BY <1>2 DEF ChangesKnown, CandidatesValid
<1>9. CandidatesDiffer'
  <2>1. frame'[t].candidates \in {frame[t].candidates, {}}
    BY DEF SweepShard, SweepUnwinds, Unwinding, EmptyFrame, Base, Shape, Frame
  <2>. QED
    BY <1>1, <2>1 DEF Records, CandidatesDiffer
<1>10. SinceEarned'
  BY <1>1, <1>4, <1>5 DEF Records, SinceEarned, Earned
<1>. QED
  BY <1>6, <1>7, <1>8, <1>9, <1>10 DEF Records

\* A pass collects its candidates under the guard or alone.
LEMMA RecordsCollect ==
  ASSUME Base, Records, NEW t \in Threads, Lock(t) \/ Plan(t)
  PROVE  Records'
<1>1. /\ \A u \in Threads \ {t} : pc'[u] = pc[u] /\ frame'[u] = frame[u]
      /\ UNCHANGED <<config, layout, data, total_len, meta, epoch, since, dirty_epoch, repaired_epoch>>
      /\ pc[t] \in {"lock", "plan"}
  BY OthersStay DEF Step, Lock, Plan, topology, map, ranks, epochs
<1>2. pc'[t] # "stored" /\ \A k \in Keys : Unrecorded(k)' <=> Unrecorded(k)
  <2>1. pc'[t] \in {"trim", "evict"}
    BY DEF Lock, Plan, Goto, Base, Shape, Values
  <2>. QED
    BY <1>1, <2>1 DEF Unrecorded, call
<1>3. PICK K \in SUBSET Keys :
        /\ frame'[t].candidates \in SUBSET candidates(K)
        /\ pc'[t] = "trim" => frame'[t].slots = frame[t].slots /\ \A k \in K : layout[k] = shard(t)
  <2>1. CASE Lock(t)
    <3>1. /\ frame'[t].candidates = candidates(InShard(shard(t)))
          /\ frame'[t].slots = frame[t].slots
      BY <2>1 DEF Lock, Base, Shape, Frame
    <3>2. InShard(shard(t)) \in SUBSET Keys /\ \A k \in InShard(shard(t)) : layout[k] = shard(t)
      BY DEF InShard, Stored
    <3>. QED
      BY <3>1, <3>2
  <2>2. CASE Plan(t)
    <3>1. candidates(Keys) # {} => First(policy(t), candidates(Keys)) \in candidates(Keys)
      BY CandidatesTyped, CandidatesApart, PolicyKnown, FirstFirst DEF Base
    <3>2. frame'[t].candidates \in {{}, {First(policy(t), candidates(Keys))}, candidates(Keys)}
          /\ (frame'[t].candidates = {First(policy(t), candidates(Keys))} => candidates(Keys) # {})
      BY <2>2 DEF Plan, Base, Shape, Frame
    <3>3. pc'[t] = "evict"
      BY <2>2 DEF Plan, Goto, Base, Shape, Values
    <3>. QED
      BY <3>1, <3>2, <3>3
  <2>. QED
    BY <2>1, <2>2
<1>4. Counted' = Counted
  BY <1>1, <1>2 DEF Counted, call
<1>5. LengthCounts'
  BY <1>1, <1>4 DEF Records, LengthCounts
<1>6. MetadataExact'
  BY <1>1, <1>2 DEF Records, MetadataExact, Unrecorded, dirty
<1>7. ChangesKnown'
  BY <1>1, <1>2 DEF Records, ChangesKnown, call, dirty
<1>8. CandidatesDiffer'
  BY <1>1, <1>3, CandidatesApart DEF Records, CandidatesDiffer, Base
<1>9. CandidatesValid'
  <2>1. \A c \in candidates(K) : c.key \in K /\ c.epoch = epoch /\ meta[c.key] = c.entry
    BY DEF candidates
  <2>. QED
    BY <1>1, <1>3, <2>1 DEF Records, CandidatesValid, shard, dirty
<1>10. SinceEarned'
  BY <1>1, <1>2 DEF Records, SinceEarned, Earned
<1>. QED
  BY <1>5, <1>6, <1>7, <1>8, <1>9, <1>10 DEF Records

\* reconcile makes the metadata exact.
LEMMA RecordsPublish ==
  ASSUME Base, Records, NEW t \in Threads, Publish(t)
  PROVE  Records'
<1>1. /\ \A u \in Threads \ {t} : pc'[u] = pc[u] /\ frame'[u] = frame[u]
      /\ UNCHANGED <<config, layout, data, total_len, since>>
      /\ pc[t] = "publish" /\ pc'[t] = "plan" /\ frame'[t].candidates = frame[t].candidates
  <2>1. \A u \in Threads \ {t} : pc'[u] = pc[u] /\ frame'[u] = frame[u]
    BY OthersStay DEF Step
  <2>2. /\ UNCHANGED <<config, layout, data, total_len, since>>
        /\ pc[t] = "publish" /\ Goto(t, "plan")
        /\ frame' = [frame EXCEPT ![t].observed_dirty = 0]
    BY DEF Publish, topology, map
  <2>3. pc'[t] = "plan" /\ frame'[t].candidates = frame[t].candidates
    BY <2>2 DEF Goto, Base, Shape, Values, Frame
  <2>. QED
    BY <2>1, <2>2, <2>3
<1>2. \A u \in Threads : /\ pc[u] \notin {"stored", "trim", "evict"}
                         /\ pc'[u] \notin {"stored", "trim", "evict"}
  BY <1>1, ExclusiveAlone DEF Exclusive
<1>3. \A k \in Keys : ~Unrecorded(k) /\ ~Unrecorded(k)'
  BY <1>2 DEF Unrecorded
<1>4. PICK stamp : \A k \in Keys : Reconciled(stamp, k)
  BY PublishWrites DEF Base
<1>5. Counted = Stored /\ Counted' = Stored
  BY <1>1, <1>3 DEF Counted, Stored
<1>6. LengthCounts'
  BY <1>1, <1>5 DEF Records, LengthCounts
<1>7. Nil \notin Entry
  BY EvictionAssumption
<1>8. MetadataExact'
  BY <1>1, <1>4, <1>7 DEF MetadataExact, Reconciled, Stored
<1>9. ChangesKnown' /\ CandidatesValid'
  BY <1>2 DEF ChangesKnown, CandidatesValid
<1>10. CandidatesDiffer'
  BY <1>1 DEF Records, CandidatesDiffer
<1>11. SinceEarned'
  <2>. SUFFICES ASSUME NEW k \in Keys, since[k] # Nil
                PROVE  /\ data[k] # Absent /\ meta'[k] # Nil
                       /\ Earned(meta[k])' = Earned(meta[k])
    BY <1>1 DEF Records, SinceEarned
  <2>1. data[k] # Absent /\ meta[k] # Nil
    BY <1>3 DEF Records, SinceEarned
  <2>2. /\ meta'[k] # Nil /\ meta'[k].inserted = meta[k].inserted
        /\ meta'[k].accessed = meta[k].accessed
    BY <1>4, <1>7, <2>1 DEF Reconciled, Stored
  <2>. QED
    BY <1>1, <2>1, <2>2 DEF Earned
<1>. QED
  BY <1>6, <1>8, <1>9, <1>10, <1>11 DEF Records

\* A tracked read moves the stamps of its key alone.
LEMMA RecordsRead ==
  ASSUME Base, Records, NEW t \in Threads, NEW k \in Keys, Read(t, k)
  PROVE  Records'
<1>1. /\ UNCHANGED <<config, layout, data, total_len, epoch, dirty_epoch, repaired_epoch, pc, frame>>
      /\ data[k] # Absent
  BY DEF Read, topology, map, epochs
<1>2. /\ \A j \in Keys : (meta'[j] = Nil) <=> (meta[j] = Nil)
      /\ \A j \in Keys : meta[j] # Nil => meta'[j].weight = meta[j].weight
      /\ \A j \in Keys : meta[j] # Nil => meta'[j].inserted = meta[j].inserted
      /\ \A j \in Keys \ {k} : meta'[j] = meta[j]
      /\ meta[k] # Nil => meta'[k].accessed = sequence
  <2>1. CASE meta[k] = Nil
    BY <2>1 DEF Read, record_read
  <2>2. CASE meta[k] # Nil
    BY <2>2, ReadTouches DEF Base
  <2>. QED
    BY <2>1, <2>2
<1>3. \A u \in Threads :
        /\ pc[u] = "stored" => call(u).key \in Keys \ {k}
        /\ pc[u] = "trim" => shard(u) # layout[k]
        /\ pc[u] # "evict"
  <2>1. \A u \in Threads : pc[u] = "stored" => call(u).key \in Keys
    BY GuardedKey DEF Mutating
  <2>2. pc[t] = "idle" /\ CanShare(t) /\ CanLock(t, layout[k])
    BY DEF Read
  <2>. QED
    BY <2>1, <2>2 DEF CanShare, CanLock, Exclusive, Mutating
<1>4. dirty' = dirty /\ \A j \in Keys : Unrecorded(j)' <=> Unrecorded(j)
  BY <1>1 DEF dirty, Unrecorded, call
<1>5. Counted' = Counted
  BY <1>1, <1>4 DEF Counted, call
<1>6. LengthCounts'
  BY <1>1, <1>5 DEF Records, LengthCounts
<1>7. MetadataExact'
  BY <1>1, <1>2, <1>4 DEF Records, MetadataExact, Unrecorded
<1>8. ChangesKnown'
  BY <1>1, <1>2, <1>3, <1>4 DEF Records, ChangesKnown, call
<1>9. CandidatesDiffer'
  BY <1>1 DEF Records, CandidatesDiffer
<1>10. CandidatesValid'
  <2>1. ASSUME NEW u \in Threads, pc[u] = "trim", ~dirty, NEW c \in frame[u].candidates
        PROVE  c.epoch = epoch /\ meta'[c.key] = c.entry
    <3>1. c.key \in Keys
      BY <2>1, FrameFields DEF Base, Shape, Candidate
    <3>2. c.key # k /\ c.epoch = epoch /\ meta[c.key] = c.entry
      BY <1>3, <2>1 DEF Records, CandidatesValid
    <3>. QED
      BY <1>2, <3>1, <3>2
  <2>. QED
    BY <1>1, <1>3, <1>4, <2>1 DEF Records, CandidatesValid, shard
<1>11. SinceEarned'
  <2>0. /\ \A j \in Keys \ {k} : since'[j] = since[j]
        /\ since'[k] = IF config.policy = "Fifo" THEN since[k]
                       ELSE IF meta[k] = Nil THEN Nil ELSE [from |-> sequence, to |-> sequence + 1]
    BY DEF Read, Base, Shape, Values
  <2>1. ASSUME NEW j \in Keys \ {k}, since'[j] # Nil
        PROVE  /\ data'[j] # Absent \/ Unrecorded(j)'
               /\ meta'[j] # Nil
               /\ since'[j].from <= Earned(meta[j])' /\ Earned(meta[j])' < since'[j].to
    BY <1>1, <1>2, <1>4, <2>0, <2>1 DEF Records, SinceEarned, Earned
  <2>2. CASE config.policy = "Fifo"
    BY <1>1, <1>2, <2>0, <2>1, <2>2 DEF Records, SinceEarned, Earned
  <2>3. CASE config.policy # "Fifo" /\ meta[k] = Nil
    BY <2>0, <2>1, <2>3 DEF SinceEarned
  <2>4. CASE config.policy # "Fifo" /\ meta[k] # Nil
    <3>1. since'[k].from = sequence /\ since'[k].to = sequence + 1 /\ sequence \in Nat
      BY <2>0, <2>4 DEF Base, Shape, Values
    <3>2. Earned(meta[k])' = sequence /\ meta'[k] # Nil
      BY <1>1, <1>2, <2>4 DEF Earned
    <3>. QED
      BY <1>1, <2>1, <3>1, <3>2 DEF SinceEarned
  <2>. QED
    BY <2>2, <2>3, <2>4
<1>. QED
  BY <1>6, <1>7, <1>8, <1>9, <1>10, <1>11 DEF Records

\* A new layout, when nobody is in the map.
LEMMA RecordsReshard ==
  ASSUME Base, Records, Reshard \/ Migrated
  PROVE  Records'
<1>1. /\ UNCHANGED <<config, data, total_len, meta, epoch, since, dirty_epoch, repaired_epoch, pc, frame>>
      /\ \A t \in Threads : pc[t] \notin {"stored", "trim", "evict"}
  BY DEF Reshard, Migrated, map, ranks, epochs, Mutating, Trimming, Exclusive
<1>2. dirty' = dirty /\ \A k \in Keys : ~Unrecorded(k) /\ ~Unrecorded(k)'
  BY <1>1 DEF dirty, Unrecorded
<1>3. Counted' = Counted
  BY <1>1, <1>2 DEF Counted
<1>4. LengthCounts'
  BY <1>1, <1>3 DEF Records, LengthCounts
<1>5. MetadataExact'
  BY <1>1, <1>2 DEF Records, MetadataExact
<1>6. ChangesKnown' /\ CandidatesValid'
  BY <1>1 DEF ChangesKnown, CandidatesValid
<1>7. CandidatesDiffer'
  BY <1>1 DEF Records, CandidatesDiffer
<1>8. SinceEarned'
  BY <1>1, <1>2 DEF Records, SinceEarned, Earned
<1>. QED
  BY <1>4, <1>5, <1>6, <1>7, <1>8 DEF Records

\* Every step keeps the records.
LEMMA RecordsNext ==
  ASSUME Base, Records, [Next]_vars
  PROVE  Records'
<1>1. ASSUME NEW t \in Threads, Step(t),
             pc[t] # "stored", pc'[t] \notin {"stored", "trim", "evict"},
             frame'[t].candidates \in SUBSET frame[t].candidates,
             UNCHANGED <<config, layout, data, total_len, meta, epoch, since>>,
             repaired_epoch' = repaired_epoch,
             dirty_epoch' \in {dirty_epoch, dirty_epoch + 1, dirty_epoch + 2}
      PROVE  Records'
  BY <1>1, RecordsIdle, OthersStay, DirtyStays
<1>. DEFINE Idle(t) ==
       /\ pc[t] # "stored" /\ pc'[t] \notin {"stored", "trim", "evict"}
       /\ frame'[t].candidates \in SUBSET frame[t].candidates
       /\ UNCHANGED <<config, layout, data, total_len, meta, epoch, since>>
       /\ repaired_epoch' = repaired_epoch
       /\ dirty_epoch' \in {dirty_epoch, dirty_epoch + 1, dirty_epoch + 2}
<1>2. ASSUME NEW t \in Threads PROVE Step(t) => Records'
  <2>. USE DEF Base, Shape, Values, Frame, Goto, topology, map, ranks, epochs, EmptyFrame
  <2>1. ASSUME Invoke(t) PROVE Idle(t)
    BY <2>1 DEF Invoke
  <2>2. ASSUME Begin(t) PROVE Idle(t)
    BY <2>2 DEF Begin, mark_pending, Committed
  <2>3. ASSUME mark_dirty(t) PROVE Idle(t)
    BY <2>3 DEF mark_dirty, Return
  <2>4. ASSUME BeginSweep(t) PROVE Idle(t)
    BY <2>4 DEF BeginSweep
  <2>5. ASSUME EndSweep(t) PROVE Idle(t)
    BY <2>5 DEF EndSweep, Committed
  <2>6. ASSUME Observe(t) PROVE Idle(t)
    BY <2>6 DEF Observe
  <2>7. ASSUME Acknowledge(t) PROVE Idle(t)
    BY <2>7 DEF Acknowledge, Finish, Return
  <2>8. ASSUME Choose(t) PROVE Idle(t)
    BY <2>8 DEF Choose
  <2>9. ASSUME Share(t) PROVE Idle(t)
    BY <2>9 DEF Share
  <2>10. ASSUME maintenance_generation(t) PROVE Idle(t)
    BY <2>10 DEF maintenance_generation
  <2>11. ASSUME Scan(t) PROVE Idle(t)
    BY <2>11 DEF Scan
  <2>12. ASSUME Trimmed(t) PROVE Idle(t)
    BY <2>12 DEF Trimmed, Finish, Return
  <2>13. ASSUME RetryExclusive(t) PROVE Idle(t)
    BY <2>13 DEF RetryExclusive
  <2>14. ASSUME Exclude(t) PROVE Idle(t)
    BY <2>14 DEF Exclude
  <2>15. ASSUME Repair(t) PROVE Idle(t)
    BY <2>15 DEF Repair
  <2>16. ASSUME Done(t) PROVE Idle(t)
    BY <2>16 DEF Done, Finish, Return
  <2>17. ASSUME PassUnwinds(t) PROVE Idle(t)
    BY <2>17 DEF PassUnwinds, Unwinding, Return
  <2>. QED
    BY <1>1, <2>1, <2>2, <2>3, <2>4, <2>5, <2>6, <2>7, <2>8, <2>9, <2>10, <2>11, <2>12, <2>13, <2>14, <2>15, <2>16, <2>17,
       RecordsStore, RecordsRecord, RecordsUnwind, RecordsSweep, RecordsCollect, RecordsTrim,
       RecordsPublish, RecordsEvictStep, RecordsRead DEF Step
<1>3. ASSUME UNCHANGED vars PROVE Records'
  BY <1>3 DEF vars, topology, map, ranks, epochs, Records, LengthCounts, MetadataExact, ChangesKnown,
     CandidatesDiffer, CandidatesValid, SinceEarned, Earned, Counted, Unrecorded, dirty, call, shard
<1>. QED
  BY <1>2, <1>3, RecordsReshard DEF Next

\* The records are right in the beginning.
LEMMA RecordsInit == Init => Records
<1>. SUFFICES ASSUME Init PROVE Records
  OBVIOUS
<1>1. Counted = {}
  BY DEF Init, Counted, Unrecorded
<1>2. LengthCounts
  BY <1>1, FS_EmptySet DEF Init, LengthCounts
<1>3. MetadataExact /\ ChangesKnown /\ CandidatesDiffer /\ CandidatesValid /\ SinceEarned
  BY DEF Init, EmptyFrame, MetadataExact, ChangesKnown, CandidatesDiffer, CandidatesValid, SinceEarned
<1>. QED
  BY <1>2, <1>3 DEF Records

\* The length, the metadata, the candidates and the history agree with what is stored.
THEOREM RecordsAlways == Spec => [](Base /\ Records)
<1>1. Init => Base /\ Records
  BY BaseInit, RecordsInit
<1>2. Base /\ Records /\ [Next]_vars => (Base /\ Records)'
  BY BaseNext, RecordsNext
<1>. QED
  BY <1>1, <1>2, PTL DEF Spec

(*****************************************************************************)
(* Clean metadata names exactly what is stored, with its weight: whatever    *)
(* panicked, and wherever, for any number of threads and keys.               *)
(*****************************************************************************)
THEOREM MetadataNeverLies == Spec => []MetadataExact
<1>1. Base /\ Records => MetadataExact
  BY DEF Records
<1>. QED
  BY <1>1, RecordsAlways, PTL

(*****************************************************************************)
(* The types of everything, and between calls the length counts the entries. *)
(*****************************************************************************)
THEOREM TypesCorrect == Spec => []TypeOK
<1>1. Base /\ Records => TypeOK
  <2>. SUFFICES ASSUME Base, Records PROVE TypeOK
    OBVIOUS
  <2>1. IsFiniteSet(Counted) /\ Cardinality(Counted) \in Nat
    BY CardinalityKeys DEF Counted
  <2>2. total_len \in Nat
    BY <2>1 DEF Records, LengthCounts
  <2>3. Quiet => Counted = Stored
    BY DEF Quiet, Counted, Unrecorded, Stored
  <2>4. Quiet => total_len = Cardinality(Stored)
    BY <2>3 DEF Records, LengthCounts
  <2>5. \A t \in Threads :
          /\ frame[t].observed <= work_epoch
          /\ frame[t].candidates \subseteq [key : Keys, epoch : Nat, entry : Entry]
          /\ frame[t].slots \subseteq Shards
    BY FrameFields DEF Base, Shape, EpochsOrdered, Candidate
  <2>. QED
    BY <2>2, <2>4, <2>5 DEF TypeOK, Base, Shape, Values
<1>. QED
  BY <1>1, RecordsAlways, PTL
-----------------------------------------------------------------------------
(*****************************************************************************)
(* The limits.                                                               *)
(*****************************************************************************)
WeightStored == [k \in Keys |-> IF data[k] = Absent THEN 0 ELSE data[k]]
WeightKnown  == [k \in Keys |-> IF meta[k] = Nil THEN 0 ELSE meta[k].weight]

\* The limits are numbers or absent, and never max_entries with max_items_per_shard.
LEMMA ConfigTyped ==
  ASSUME Shape
  PROVE  /\ config.max_entries \in Nat \cup {Nil} /\ config.max_items_per_shard \in Nat \cup {Nil}
         /\ config.memory_budget \in Nat \cup {Nil} /\ Nil \notin Nat
         /\ config.max_entries = Nil \/ config.max_items_per_shard = Nil
         /\ layout \in [Keys -> Shards]
  BY EvictionAssumption DEF Shape, Values

\* A caller's target only sharpens max_entries.
LEMMA TargetSharpens ==
  ASSUME Base, NEW t \in Threads, pc[t] \in Passing
  PROVE  /\ target_count(t) \in Nat \cup {Nil}
         /\ config.max_entries # Nil => target_count(t) # Nil /\ target_count(t) <= config.max_entries
         /\ target_count(t) = Nil => config.max_entries = Nil
  BY ConfigTyped DEF Base, CallsFit, PassCall, target_count

\* Less is not over a limit either.
LEMMA OverShrinks ==
  ASSUME NEW m \in Nat, NEW n \in Nat, m <= n, NEW limit \in Nat \cup {Nil}, ~Over(n, limit)
  PROVE  ~Over(m, limit)
  BY DEF Over

\* Nothing is over no limit.
LEMMA OverNothing ==
  ASSUME NEW limit \in Nat \cup {Nil}
  PROVE  ~Over(0, limit)
  BY DEF Over

\* A part of a set of keys has at most as many members.
LEMMA SubsetCounts ==
  ASSUME NEW S \in SUBSET Keys, NEW T \in SUBSET S
  PROVE  /\ IsFiniteSet(S) /\ Cardinality(S) \in Nat /\ Cardinality(T) \in Nat
         /\ Cardinality(T) <= Cardinality(S)
  BY CardinalityKeys, FS_Subset

\* Weights are numbers.
LEMMA WeightsTyped ==
  ASSUME Shape
  PROVE  WeightStored \in [Keys -> Nat] /\ WeightKnown \in [Keys -> Nat]
  BY DEF Shape, Values, WeightStored, WeightKnown, Entry

\* Where nothing is unrecorded, the length and the clean metadata say what is stored.
LEMMA Settled ==
  ASSUME Base, Records, \A t \in Threads : pc[t] # "stored"
  PROVE  /\ total_len = Cardinality(Stored)
         /\ ~dirty => \A k \in Keys : Exact(k)
         /\ ~dirty => exact_weight = Total(WeightStored)
<1>1. Counted = Stored
  BY DEF Counted, Unrecorded, Stored
<1>2. ~dirty => \A k \in Keys : Exact(k)
  BY DEF Records, MetadataExact, Exact
<1>3. ~dirty => WeightKnown = WeightStored
  BY <1>2 DEF WeightKnown, WeightStored, Exact
<1>4. exact_weight = Total(WeightKnown)
  BY DEF exact_weight, WeightKnown
<1>. QED
  BY <1>1, <1>2, <1>3, <1>4 DEF Records, LengthCounts

\* Entries that go never exceed a limit.
LEMMA WithinShrinks ==
  ASSUME Shape, Shape', UNCHANGED <<config, layout>>, \A k \in Keys : data'[k] \in {data[k], Absent},
         Within
  PROVE  Within'
<1>1. Stored \in SUBSET Keys /\ Stored' \in SUBSET Stored
  BY DEF Stored
<1>2. ~Over(Cardinality(Stored), config.max_entries)'
  <2>1. /\ Cardinality(Stored) \in Nat /\ Cardinality(Stored') \in Nat
        /\ Cardinality(Stored') <= Cardinality(Stored)
    BY <1>1, SubsetCounts
  <2>. QED
    BY <2>1, OverShrinks, ConfigTyped DEF Within
<1>3. ~Over(Total([k \in Keys |-> IF data[k] = Absent THEN 0 ELSE data[k]]), config.memory_budget)'
  <2>1. \A k \in Keys : WeightStored'[k] <= WeightStored[k]
    BY DEF WeightStored, Shape, Values
  <2>2. WeightStored \in [Keys -> Nat] /\ WeightStored' \in [Keys -> Nat]
    BY WeightsTyped DEF WeightStored, Shape, Values
  <2>3. PICK v, w : v = WeightStored' /\ w = WeightStored
    OBVIOUS
  <2>4. Total(v) \in Nat /\ Total(w) \in Nat /\ Total(v) <= Total(w)
    BY <2>1, <2>2, <2>3, TotalMonotone
  <2>5. ~Over(Total(w), config.memory_budget)
    BY <2>3 DEF Within, WeightStored
  <2>6. ~Over(Total(v), config.memory_budget)
    BY <2>4, <2>5, OverShrinks, ConfigTyped
  <2>. QED
    BY <2>3, <2>6 DEF WeightStored
<1>4. ASSUME NEW i \in Shards PROVE ~Over(Cardinality(InShard(i)), config.max_items_per_shard)'
  <2>1. InShard(i) \in SUBSET Keys /\ InShard(i)' \in SUBSET InShard(i)
    BY <1>1 DEF InShard
  <2>2. /\ Cardinality(InShard(i)) \in Nat /\ Cardinality(InShard(i)') \in Nat
        /\ Cardinality(InShard(i)') <= Cardinality(InShard(i))
    BY <2>1, SubsetCounts
  <2>. QED
    BY <2>2, OverShrinks, ConfigTyped DEF Within
<1>. QED
  BY <1>2, <1>3, <1>4 DEF Within

\* A pass that finds nothing in excess, and nothing unrecorded, has the limits and its target.
LEMMA NoExcessWithin ==
  ASSUME Base, Records, NEW t \in Threads, pc[t] \in Passing,
         \A u \in Threads : pc[u] # "stored", ~dirty,
         ~Over(total_len, target_count(t)), ~over_memory_budget,
         \A i \in Shards : ~Over(Cardinality(InShard(i)), config.max_items_per_shard)
  PROVE  Within /\ ~Over(Cardinality(Stored), target_count(t))
<1>1. total_len = Cardinality(Stored) /\ exact_weight = Total(WeightStored) /\ total_len \in Nat
  BY Settled, CardinalityKeys DEF Stored
<1>2. ~Over(Cardinality(Stored), target_count(t))
  BY <1>1
<1>3. ~Over(Cardinality(Stored), config.max_entries)
  BY <1>1, <1>2, TargetSharpens, ConfigTyped DEF Over, Base
<1>4. ~Over(Total(WeightStored), config.memory_budget)
  BY <1>1 DEF over_memory_budget
<1>. QED
  BY <1>2, <1>3, <1>4 DEF Within, WeightStored

\* The stored entries change where a mutation stores, and shrink elsewhere.
LEMMA DataShrinks ==
  ASSUME Base, NEW t \in Threads, Step(t), ~Store(t)
  PROVE  UNCHANGED <<config, layout>> /\ \A k \in Keys : data'[k] \in {data[k], Absent}
<1>. DEFINE P == UNCHANGED <<config, layout>> /\ \A k \in Keys : data'[k] \in {data[k], Absent}
<1>. USE DEF Base, Shape, Values, topology, map
<1>1. ASSUME NEW c, TryEvict(c) PROVE \A k \in Keys : data'[k] \in {data[k], Absent}
  BY <1>1 DEF TryEvict, EvictKey
<1>2. ASSUME NEW R, NEW ghosts, Swept(R, ghosts) PROVE \A k \in Keys : data'[k] \in {data[k], Absent}
  BY <1>2 DEF Swept
<1>3. ASSUME Invoke(t) PROVE P
  BY <1>1, <1>2, <1>3 DEF Invoke
<1>4. ASSUME Begin(t) PROVE P
  BY <1>1, <1>2, <1>4 DEF Begin
<1>5. ASSUME Record(t) PROVE P
  BY <1>1, <1>2, <1>5 DEF Record
<1>6. ASSUME Unwind(t) PROVE P
  BY <1>1, <1>2, <1>6 DEF Unwind
<1>7. ASSUME mark_dirty(t) PROVE P
  BY <1>1, <1>2, <1>7 DEF mark_dirty
<1>8. ASSUME BeginSweep(t) PROVE P
  BY <1>1, <1>2, <1>8 DEF BeginSweep
<1>9. ASSUME SweepShard(t) PROVE P
  BY <1>1, <1>2, <1>9 DEF SweepShard
<1>10. ASSUME SweepUnwinds(t) PROVE P
  BY <1>1, <1>2, <1>10 DEF SweepUnwinds
<1>11. ASSUME EndSweep(t) PROVE P
  BY <1>1, <1>2, <1>11 DEF EndSweep
<1>12. ASSUME Observe(t) PROVE P
  BY <1>1, <1>2, <1>12 DEF Observe
<1>13. ASSUME Acknowledge(t) PROVE P
  BY <1>1, <1>2, <1>13 DEF Acknowledge, Finish
<1>14. ASSUME Choose(t) PROVE P
  BY <1>1, <1>2, <1>14 DEF Choose
<1>15. ASSUME Share(t) PROVE P
  BY <1>1, <1>2, <1>15 DEF Share
<1>16. ASSUME maintenance_generation(t) PROVE P
  BY <1>1, <1>2, <1>16 DEF maintenance_generation
<1>17. ASSUME Scan(t) PROVE P
  BY <1>1, <1>2, <1>17 DEF Scan
<1>18. ASSUME Lock(t) PROVE P
  BY <1>1, <1>2, <1>18 DEF Lock
<1>19. ASSUME Trim(t) PROVE P
  BY <1>1, <1>2, <1>19 DEF Trim
<1>20. ASSUME Trimmed(t) PROVE P
  BY <1>1, <1>2, <1>20 DEF Trimmed, Finish
<1>21. ASSUME RetryExclusive(t) PROVE P
  BY <1>1, <1>2, <1>21 DEF RetryExclusive
<1>22. ASSUME Exclude(t) PROVE P
  BY <1>1, <1>2, <1>22 DEF Exclude
<1>23. ASSUME Repair(t) PROVE P
  BY <1>1, <1>2, <1>23 DEF Repair
<1>24. ASSUME Publish(t) PROVE P
  BY <1>1, <1>2, <1>24 DEF Publish
<1>25. ASSUME Plan(t) PROVE P
  BY <1>1, <1>2, <1>25 DEF Plan
<1>26. ASSUME Evict(t) PROVE P
  BY <1>1, <1>2, <1>26 DEF Evict
<1>27. ASSUME Done(t) PROVE P
  BY <1>1, <1>2, <1>27 DEF Done, Finish
<1>28. ASSUME PassUnwinds(t) PROVE P
  BY <1>1, <1>2, <1>28 DEF PassUnwinds
<1>29. ASSUME NEW k \in Keys, Read(t, k) PROVE P
  BY <1>29 DEF Read
<1>. QED
  BY <1>3, <1>4, <1>5, <1>6, <1>7, <1>8, <1>9, <1>10, <1>11, <1>12, <1>13, <1>14, <1>15, <1>16, <1>17, <1>18, <1>19, <1>20, <1>21, <1>22, <1>23, <1>24, <1>25, <1>26, <1>27, <1>28, <1>29 DEF Step

\* Only a repair makes the metadata clean.
LEMMA CleanStays ==
  ASSUME Base, NEW t \in Threads, Step(t), ~Publish(t)
  PROVE  repaired_epoch' = repaired_epoch /\ (~dirty' => ~dirty /\ dirty_epoch' = dirty_epoch)
<1>1. ASSUME repaired_epoch' = repaired_epoch,
             dirty_epoch' \in {dirty_epoch, dirty_epoch + 1, dirty_epoch + 2}
      PROVE  repaired_epoch' = repaired_epoch /\ (~dirty' => ~dirty /\ dirty_epoch' = dirty_epoch)
  BY <1>1, DirtyStays
<1>2. /\ repaired_epoch' = repaired_epoch
      /\ dirty_epoch' \in {dirty_epoch, dirty_epoch + 1, dirty_epoch + 2}
  <2>. DEFINE P == /\ repaired_epoch' = repaired_epoch
                   /\ dirty_epoch' \in {dirty_epoch, dirty_epoch + 1, dirty_epoch + 2}
  <2>1. ASSUME Invoke(t) PROVE P
    BY <2>1 DEF Invoke, epochs
  <2>2. ASSUME Begin(t) PROVE P
    BY <2>2 DEF Begin, epochs
  <2>3. ASSUME Store(t) PROVE P
    BY <2>3 DEF Store, epochs
  <2>4. ASSUME Record(t) PROVE P
    BY <2>4 DEF Record, epochs
  <2>5. ASSUME Unwind(t) PROVE P
    BY <2>5 DEF Unwind, TicketDropped, epochs
  <2>6. ASSUME mark_dirty(t) PROVE P
    BY <2>6 DEF mark_dirty, epochs
  <2>7. ASSUME BeginSweep(t) PROVE P
    BY <2>7 DEF BeginSweep, epochs
  <2>8. ASSUME SweepShard(t) PROVE P
    BY <2>8 DEF SweepShard, epochs
  <2>9. ASSUME SweepUnwinds(t) PROVE P
    BY <2>9 DEF SweepUnwinds, TicketDropped, epochs
  <2>10. ASSUME EndSweep(t) PROVE P
    BY <2>10 DEF EndSweep, epochs
  <2>11. ASSUME Observe(t) PROVE P
    BY <2>11 DEF Observe, epochs
  <2>12. ASSUME Acknowledge(t) PROVE P
    BY <2>12 DEF Acknowledge, Finish, epochs
  <2>13. ASSUME Choose(t) PROVE P
    BY <2>13 DEF Choose, epochs
  <2>14. ASSUME Share(t) PROVE P
    BY <2>14 DEF Share, epochs
  <2>15. ASSUME maintenance_generation(t) PROVE P
    BY <2>15 DEF maintenance_generation, epochs
  <2>16. ASSUME Scan(t) PROVE P
    BY <2>16 DEF Scan, epochs
  <2>17. ASSUME Lock(t) PROVE P
    BY <2>17 DEF Lock, epochs
  <2>18. ASSUME Trim(t) PROVE P
    BY <2>18 DEF Trim, epochs
  <2>19. ASSUME Trimmed(t) PROVE P
    BY <2>19 DEF Trimmed, Finish, epochs
  <2>20. ASSUME RetryExclusive(t) PROVE P
    BY <2>20 DEF RetryExclusive, epochs
  <2>21. ASSUME Exclude(t) PROVE P
    BY <2>21 DEF Exclude, epochs
  <2>22. ASSUME Repair(t) PROVE P
    BY <2>22 DEF Repair, epochs
  <2>23. ASSUME Plan(t) PROVE P
    BY <2>23 DEF Plan, epochs
  <2>24. ASSUME Evict(t) PROVE P
    BY <2>24 DEF Evict, epochs
  <2>25. ASSUME Done(t) PROVE P
    BY <2>25 DEF Done, Finish, epochs
  <2>26. ASSUME PassUnwinds(t) PROVE P
    BY <2>26 DEF PassUnwinds, TicketDropped, epochs
  <2>27. ASSUME NEW k \in Keys, Read(t, k) PROVE P
    BY <2>27 DEF Read, epochs
  <2>. QED
    BY <2>1, <2>2, <2>3, <2>4, <2>5, <2>6, <2>7, <2>8, <2>9, <2>10, <2>11, <2>12, <2>13, <2>14, <2>15, <2>16, <2>17, <2>18, <2>19, <2>20, <2>21, <2>22, <2>23, <2>24, <2>25, <2>26, <2>27 DEF Step
<1>. QED
  BY <1>1, <1>2

\* Under exclusive routing the others can change neither map nor metadata.
LEMMA Undisturbed ==
  ASSUME Base, NEW u \in Threads, pc[u] \in Exclusive, NEW t \in Threads \ {u}, Step(t)
  PROVE  UNCHANGED <<config, layout, data, total_len, meta, epoch>> /\ (~dirty' => ~dirty)
<1>1. pc[t] \notin Mutating \cup Trimming \cup Exclusive /\ ~CanShare(t)
  BY DEF Base, LocksExclude, CanShare
<1>. DEFINE P == UNCHANGED <<config, layout, data, total_len, meta, epoch>>
<1>. USE DEF Mutating, Trimming, Exclusive, topology, map, ranks
<1>2. ASSUME Invoke(t) PROVE P
  BY <1>1, <1>2 DEF Invoke
<1>3. ASSUME Begin(t) PROVE P
  BY <1>1, <1>3 DEF Begin
<1>4. ASSUME Store(t) PROVE P
  BY <1>1, <1>4 DEF Store
<1>5. ASSUME Record(t) PROVE P
  BY <1>1, <1>5 DEF Record
<1>6. ASSUME Unwind(t) PROVE P
  BY <1>1, <1>6 DEF Unwind
<1>7. ASSUME mark_dirty(t) PROVE P
  BY <1>1, <1>7 DEF mark_dirty
<1>8. ASSUME BeginSweep(t) PROVE P
  BY <1>1, <1>8 DEF BeginSweep
<1>9. ASSUME SweepShard(t) PROVE P
  BY <1>1, <1>9 DEF SweepShard
<1>10. ASSUME SweepUnwinds(t) PROVE P
  BY <1>1, <1>10 DEF SweepUnwinds
<1>11. ASSUME EndSweep(t) PROVE P
  BY <1>1, <1>11 DEF EndSweep
<1>12. ASSUME Observe(t) PROVE P
  BY <1>1, <1>12 DEF Observe
<1>13. ASSUME Acknowledge(t) PROVE P
  BY <1>1, <1>13 DEF Acknowledge, Finish
<1>14. ASSUME Choose(t) PROVE P
  BY <1>1, <1>14 DEF Choose
<1>15. ASSUME Share(t) PROVE P
  BY <1>1, <1>15 DEF Share
<1>16. ASSUME maintenance_generation(t) PROVE P
  BY <1>1, <1>16 DEF maintenance_generation
<1>17. ASSUME Scan(t) PROVE P
  BY <1>1, <1>17 DEF Scan
<1>18. ASSUME Lock(t) PROVE P
  BY <1>1, <1>18 DEF Lock
<1>19. ASSUME Trim(t) PROVE P
  BY <1>1, <1>19 DEF Trim
<1>20. ASSUME Trimmed(t) PROVE P
  BY <1>1, <1>20 DEF Trimmed, Finish
<1>21. ASSUME RetryExclusive(t) PROVE P
  BY <1>1, <1>21 DEF RetryExclusive
<1>22. ASSUME Exclude(t) PROVE P
  BY <1>1, <1>22 DEF Exclude
<1>23. ASSUME Repair(t) PROVE P
  BY <1>1, <1>23 DEF Repair
<1>24. ASSUME Publish(t) PROVE P
  BY <1>1, <1>24 DEF Publish
<1>25. ASSUME Plan(t) PROVE P
  BY <1>1, <1>25 DEF Plan
<1>26. ASSUME Evict(t) PROVE P
  BY <1>1, <1>26 DEF Evict
<1>27. ASSUME Done(t) PROVE P
  BY <1>1, <1>27 DEF Done, Finish
<1>28. ASSUME PassUnwinds(t) PROVE P
  BY <1>1, <1>28 DEF PassUnwinds
<1>29. ASSUME NEW k \in Keys, Read(t, k) PROVE P
  BY <1>1, <1>29 DEF Read
<1>30. ~Publish(t)
  BY <1>1 DEF Publish
<1>. QED
  BY <1>2, <1>3, <1>4, <1>5, <1>6, <1>7, <1>8, <1>9, <1>10, <1>11, <1>12, <1>13, <1>14, <1>15, <1>16, <1>17, <1>18, <1>19, <1>20, <1>21, <1>22, <1>23, <1>24, <1>25, <1>26, <1>27, <1>28, <1>29, <1>30, CleanStays DEF Step

\* With clean metadata a candidate is valid: it goes.
LEMMA CandidateGoes ==
  ASSUME Base, Records, NEW t \in Threads, pc[t] \in {"trim", "evict"}, ~dirty,
         NEW c \in frame[t].candidates, TryEvict(c)
  PROVE  /\ c.key \in Stored /\ meta[c.key] = c.entry /\ c.entry \in Entry
         /\ data'[c.key] = Absent /\ meta'[c.key] = Nil /\ total_len' = total_len - 1
         /\ \A j \in Keys \ {c.key} : data'[j] = data[j] /\ meta'[j] = meta[j]
         /\ Stored' = Stored \ {c.key}
<1>1. c \in Candidate
  BY FrameFields DEF Base, Shape
<1>2. PICK k \in Keys : k = c.key
  BY <1>1 DEF Candidate
<1>3. c.epoch = epoch /\ meta[k] = c.entry /\ c.entry \in Entry /\ meta[k] # Nil
  BY <1>1, <1>2, EvictionAssumption DEF Records, CandidatesValid, Candidate
<1>4. validate(c)
  BY <1>2, <1>3 DEF validate
<1>5. ~Unrecorded(k)
  <2>1. CASE pc[t] = "trim"
    <3>1. layout[k] = shard(t)
      BY <1>2, <2>1 DEF Records, CandidatesValid
    <3>. QED
      BY <2>1, <3>1 DEF Base, LocksExclude, Unrecorded, Mutating
  <2>2. CASE pc[t] = "evict"
    BY <2>2, ExclusiveAlone DEF Unrecorded, Exclusive
  <2>. QED
    BY <2>1, <2>2
<1>6. data[k] # Absent
  BY <1>3, <1>5 DEF Records, MetadataExact, Unrecorded
<1>7. EvictKey(k)
  BY <1>2, <1>4, <1>6 DEF TryEvict
<1>8. /\ data'[k] = Absent /\ meta'[k] = Nil /\ total_len' = total_len - 1
      /\ \A j \in Keys \ {k} : data'[j] = data[j] /\ meta'[j] = meta[j]
  BY <1>7 DEF EvictKey, Base, Shape, Values
<1>9. Stored' = Stored \ {k} /\ k \in Stored
  BY <1>6, <1>8 DEF Stored
<1>. QED
  BY <1>2, <1>3, <1>8, <1>9

\* The keys of the candidates left, when one is dealt with.
LEMMA CandidatesLeft ==
  ASSUME Base, Records, NEW t \in Threads, NEW c \in frame[t].candidates,
         frame'[t].candidates = frame[t].candidates \ {c}
  PROVE  Candidates(t)' = Candidates(t) \ {c.key}
  BY DEF Records, CandidatesDiffer, Candidates

\* With clean metadata candidates has one for every key that has metadata.
LEMMA CandidateFor ==
  ASSUME ~dirty, NEW K, NEW k \in K, meta[k] # Nil
  PROVE  \E c \in candidates(K) : c.key = k /\ c.entry = meta[k]
<1>1. PICK c : c = [key |-> k, epoch |-> epoch, entry |-> meta[k]]
  OBVIOUS
<1>2. c \in candidates(K)
  BY <1>1 DEF candidates
<1>3. c.key = k /\ c.entry = meta[k]
  BY <1>1
<1>. QED
  BY <1>2, <1>3

\* Every step keeps the entries of a shard being trimmed among the candidates.
LEMMA TrimCoversNext ==
  ASSUME Base, Records, Limits, [Next]_vars
  PROVE  TrimCovers'
<1>. SUFFICES ASSUME NEW u \in Threads, pc'[u] = "trim", ~dirty'
              PROVE  InShard(shard(u))' \subseteq Candidates(u)'
  BY DEF TrimCovers
<1>1. ASSUME pc[u] = "trim", frame'[u] = frame[u], layout' = layout, ~dirty,
             \A k \in Keys : layout[k] = shard(u) => data'[k] \in {data[k], Absent}
      PROVE  InShard(shard(u))' \subseteq Candidates(u)'
  <2>1. InShard(shard(u))' \subseteq InShard(shard(u))
    BY <1>1 DEF InShard, Stored, shard
  <2>2. Candidates(u)' = Candidates(u)
    BY <1>1 DEF Candidates
  <2>. QED
    BY <1>1, <2>1, <2>2 DEF Limits, TrimCovers
<1>2. ASSUME NEW t \in Threads, t # u, Step(t)
      PROVE  InShard(shard(u))' \subseteq Candidates(u)'
  <2>1. pc[u] = "trim" /\ frame'[u] = frame[u]
    BY <1>2, OthersStay
  <2>2. ~Publish(t)
    BY <1>2, <2>1 DEF Publish, Base, LocksExclude, Exclusive, Trimming
  <2>3. ~dirty
    BY <1>2, <2>2, CleanStays
  <2>4. CASE Store(t)
    <3>1. PICK k \in Keys : k = call(t).key
      BY <2>4, GuardedKey DEF Store, Mutating
    <3>2. layout[k] # shard(u)
      BY <1>2, <2>1, <2>4, <3>1 DEF Store, Mutating, Base, LocksExclude
    <3>3. layout' = layout /\ \A j \in Keys \ {k} : data'[j] = data[j]
      BY <2>4, <3>1 DEF Store, topology, Base, Shape, Values
    <3>. QED
      BY <1>1, <2>1, <2>3, <3>2, <3>3
  <2>5. CASE ~Store(t)
    BY <1>1, <1>2, <2>1, <2>3, <2>5, DataShrinks
  <2>. QED
    BY <2>4, <2>5
<1>3. ASSUME Lock(u) PROVE InShard(shard(u))' \subseteq Candidates(u)'
  <2>1. /\ frame'[u].candidates = candidates(InShard(shard(u))) /\ frame'[u].slots = frame[u].slots
        /\ UNCHANGED <<layout, data, dirty_epoch, repaired_epoch>>
    BY <1>3 DEF Lock, topology, map, epochs, Base, Shape, Frame
  <2>2. ~dirty
    BY <2>1 DEF dirty
  <2>3. InShard(shard(u))' = InShard(shard(u))
    BY <2>1 DEF InShard, Stored, shard
  <2>4. ASSUME NEW k \in InShard(shard(u)) PROVE meta[k] # Nil
    <3>1. k \in Keys /\ layout[k] = shard(u) /\ data[k] # Absent
      BY DEF InShard, Stored
    <3>2. \A t \in Threads : pc[t] = "stored" => call(t).key # k
      BY <1>3, <3>1 DEF Lock, CanLock, Mutating
    <3>. QED
      BY <2>2, <3>1, <3>2 DEF Records, MetadataExact
  <2>5. \A k \in InShard(shard(u)) : \E c \in candidates(InShard(shard(u))) : c.key = k
    BY <2>2, <2>4, CandidateFor
  <2>. QED
    BY <2>1, <2>3, <2>5 DEF Candidates
<1>4. ASSUME Trim(u) PROVE InShard(shard(u))' \subseteq Candidates(u)'
  <2>1. PICK c \in frame[u].candidates :
          /\ TryEvict(c) /\ frame' = [frame EXCEPT ![u].candidates = @ \ {c}]
          /\ UNCHANGED <<layout, dirty_epoch, repaired_epoch>> /\ pc[u] = "trim"
    <3>1. ~Goto(u, "scan")
      BY DEF Goto, Base, Shape, Values
    <3>. QED
      BY <1>4, <3>1, NextCandidate DEF Trim, topology, epochs
  <2>2. frame'[u].candidates = frame[u].candidates \ {c} /\ frame'[u].slots = frame[u].slots
    BY <2>1 DEF Base, Shape, Frame
  <2>3. ~dirty
    BY <2>1 DEF dirty
  <2>4. Stored' = Stored \ {c.key}
    BY <2>1, <2>3, CandidateGoes
  <2>5. InShard(shard(u))' = InShard(shard(u)) \ {c.key}
    BY <2>1, <2>2, <2>4 DEF InShard, shard
  <2>6. Candidates(u)' = Candidates(u) \ {c.key}
    BY <2>2, CandidatesLeft
  <2>. QED
    BY <2>1, <2>3, <2>5, <2>6 DEF Limits, TrimCovers
<1>5. ASSUME Step(u) PROVE Lock(u) \/ Trim(u)
  <2>. DEFINE P == pc'[u] # "trim"
  <2>. USE DEF Goto, Base, Shape, Values
  <2>1. ASSUME Invoke(u) PROVE P
    BY <2>1 DEF Invoke
  <2>2. ASSUME Begin(u) PROVE P
    BY <2>2 DEF Begin, Committed
  <2>3. ASSUME Store(u) PROVE P
    BY <2>3 DEF Store
  <2>4. ASSUME Record(u) PROVE P
    BY <2>4 DEF Record, Committed
  <2>5. ASSUME Unwind(u) PROVE P
    BY <2>5 DEF Unwind, Unwinding
  <2>6. ASSUME mark_dirty(u) PROVE P
    BY <2>6 DEF mark_dirty, Return
  <2>7. ASSUME BeginSweep(u) PROVE P
    BY <2>7 DEF BeginSweep
  <2>8. ASSUME SweepShard(u) PROVE P
    BY <2>8 DEF SweepShard
  <2>9. ASSUME SweepUnwinds(u) PROVE P
    BY <2>9 DEF SweepUnwinds, Unwinding
  <2>10. ASSUME EndSweep(u) PROVE P
    BY <2>10 DEF EndSweep, Committed
  <2>11. ASSUME Observe(u) PROVE P
    BY <2>11 DEF Observe
  <2>12. ASSUME Acknowledge(u) PROVE P
    BY <2>12 DEF Acknowledge, Finish, Return
  <2>13. ASSUME Choose(u) PROVE P
    BY <2>13 DEF Choose
  <2>14. ASSUME Share(u) PROVE P
    BY <2>14 DEF Share
  <2>15. ASSUME maintenance_generation(u) PROVE P
    BY <2>15 DEF maintenance_generation
  <2>16. ASSUME Scan(u) PROVE P
    BY <2>16 DEF Scan
  <2>17. ASSUME Trimmed(u) PROVE P
    BY <2>17 DEF Trimmed, Finish, Return
  <2>18. ASSUME RetryExclusive(u) PROVE P
    BY <2>18 DEF RetryExclusive
  <2>19. ASSUME Exclude(u) PROVE P
    BY <2>19 DEF Exclude
  <2>20. ASSUME Repair(u) PROVE P
    BY <2>20 DEF Repair
  <2>21. ASSUME Publish(u) PROVE P
    BY <2>21 DEF Publish
  <2>22. ASSUME Plan(u) PROVE P
    BY <2>22 DEF Plan
  <2>23. ASSUME Evict(u) PROVE P
    BY <2>23 DEF Evict
  <2>24. ASSUME Done(u) PROVE P
    BY <2>24 DEF Done, Finish, Return
  <2>25. ASSUME PassUnwinds(u) PROVE P
    BY <2>25 DEF PassUnwinds, Unwinding, Return
  <2>26. ASSUME NEW k \in Keys, Read(u, k) PROVE P
    BY <2>26 DEF Read
  <2>. QED
    BY <1>5, <2>1, <2>2, <2>3, <2>4, <2>5, <2>6, <2>7, <2>8, <2>9, <2>10, <2>11, <2>12, <2>13, <2>14, <2>15, <2>16, <2>17, <2>18, <2>19, <2>20, <2>21, <2>22, <2>23, <2>24, <2>25, <2>26 DEF Step
<1>6. ASSUME Reshard \/ Migrated PROVE FALSE
  BY <1>6 DEF Reshard, Migrated, Trimming
<1>7. ASSUME UNCHANGED vars PROVE InShard(shard(u))' \subseteq Candidates(u)'
  BY <1>1, <1>7 DEF vars, topology, map, epochs, dirty
<1>. QED
  BY <1>2, <1>3, <1>4, <1>5, <1>6, <1>7 DEF Next

\* Excess of a pass goes by its call, the configuration and what is stored; it never grows
\* when entries go.
LEMMA ExcessShrinks ==
  ASSUME Base, Base', Records, NEW t \in Threads, pc[t] = "evict", frame'[t].call = frame[t].call,
         UNCHANGED <<config, layout>>, NEW k \in Keys,
         \A j \in Keys : data'[j] \in {data[j], Absent} /\ meta'[j] \in {meta[j], Nil},
         total_len' \in {total_len, total_len - 1}, ~Excess(t, k)
  PROVE  ~Excess(t, k)'
<1>0. target_count(t)' = target_count(t) /\ target_count(t) \in Nat \cup {Nil}
  BY TargetSharpens DEF target_count, call, Passing
<1>1. total_len \in Nat /\ (total_len' \in Nat \/ total_len = 0)
  BY CardinalityKeys DEF Records, LengthCounts, Counted
<1>2. ~Over(total_len, target_count(t))'
  BY <1>0, <1>1 DEF Excess, Over
<1>3. ~Over(Cardinality(InShard(layout[k])), config.max_items_per_shard)'
  <2>1. InShard(layout[k]) \in SUBSET Keys /\ InShard(layout[k])' \in SUBSET InShard(layout[k])
    BY DEF InShard, Stored
  <2>2. /\ Cardinality(InShard(layout[k])) \in Nat /\ Cardinality(InShard(layout[k])') \in Nat
        /\ Cardinality(InShard(layout[k])') <= Cardinality(InShard(layout[k]))
    BY <2>1, SubsetCounts
  <2>. QED
    BY <2>2, OverShrinks, ConfigTyped DEF Excess, Base
<1>4. ~over_memory_budget'
  <2>1. \A j \in Keys : WeightKnown'[j] <= WeightKnown[j]
    BY DEF WeightKnown, Base, Shape, Values, Entry
  <2>2. WeightKnown \in [Keys -> Nat] /\ WeightKnown' \in [Keys -> Nat]
    BY WeightsTyped DEF WeightKnown, Base, Shape, Values, Entry
  <2>3. PICK v, w : v = WeightKnown' /\ w = WeightKnown
    OBVIOUS
  <2>4. Total(v) \in Nat /\ Total(w) \in Nat /\ Total(v) <= Total(w)
    BY <2>1, <2>2, <2>3, TotalMonotone
  <2>5. ~Over(Total(w), config.memory_budget)
    BY <2>3 DEF Excess, over_memory_budget, exact_weight, WeightKnown
  <2>6. ~Over(Total(v), config.memory_budget)
    BY <2>4, <2>5, OverShrinks, ConfigTyped DEF Base
  <2>. QED
    BY <2>3, <2>6 DEF over_memory_budget, exact_weight, WeightKnown
<1>. QED
  BY <1>2, <1>3, <1>4 DEF Excess

Covered(t) == \A k \in Stored \ Candidates(t) : ~Excess(t, k)

Single(t) ==
  /\ OnlyOne(t)
  /\ \E c \in frame[t].candidates :
       /\ frame[t].candidates = {c}
       /\ \A k \in Stored \ {c.key} :
            Below(policy_rank(policy(t), c.entry), policy_rank(policy(t), meta[k]))

\* PassCovers, by its two cases.
LEMMA PassCoversIs ==
  PassCovers <=> \A t \in Threads : pc[t] = "evict" /\ ~dirty => Covered(t) \/ Single(t)
  BY DEF PassCovers, Covered, Single

\* What is planned covers what is stored.
LEMMA PlanCovers ==
  ASSUME Base, Records, NEW t \in Threads, Plan(t), ~dirty
  PROVE  Covered(t)' \/ Single(t)'
<1>1. PICK all : all = candidates(Keys)
  OBVIOUS
<1>2. /\ pc[t] = "plan" /\ UNCHANGED <<config, layout, data, total_len, meta>>
      /\ frame'[t].call = frame[t].call
  BY DEF Plan, topology, map, ranks, Base, Shape, Frame
<1>3. Stored' = Stored /\ target_count(t)' = target_count(t) /\ policy(t)' = policy(t)
  BY <1>2 DEF Stored, target_count, policy, call
<1>4. \A u \in Threads : pc[u] # "stored"
  BY <1>2, ExclusiveAlone DEF Exclusive
<1>5. \A k \in Keys : Exact(k)
  BY <1>4, Settled
<1>6. \A k \in Stored : \E c \in all : c.key = k /\ c.entry = meta[k]
  <2>1. ASSUME NEW k \in Stored PROVE \E c \in all : c.key = k /\ c.entry = meta[k]
    <3>1. k \in Keys /\ meta[k] # Nil
      BY <1>5 DEF Stored, Exact
    <3>. QED
      BY <1>1, <3>1, CandidateFor
  <2>. QED
    BY <2>1
<1>7. CASE frame'[t].candidates = all
  <2>1. Stored' \subseteq Candidates(t)'
    BY <1>3, <1>6, <1>7 DEF Candidates
  <2>. QED
    BY <2>1 DEF Covered
<1>8. CASE all # {} /\ OnlyOne(t) /\ frame'[t].candidates = {First(policy(t), all)}
  <2>1. PICK c : c = First(policy(t), all)
    OBVIOUS
  <2>2. c \in all /\ \A d \in all \ {c} : Below(policy_rank(policy(t), c.entry), policy_rank(policy(t), d.entry))
    BY <1>1, <1>8, <2>1, CandidatesTyped, CandidatesApart, PolicyKnown, FirstFirst DEF Base
  <2>3. \A k \in Stored \ {c.key} :
          Below(policy_rank(policy(t), c.entry), policy_rank(policy(t), meta[k]))
    BY <1>6, <2>2
  <2>4. OnlyOne(t)'
    BY <1>2, <1>3, <1>8 DEF OnlyOne
  <2>5. frame'[t].candidates = {c}
    BY <1>8, <2>1
  <2>. QED
    BY <1>2, <1>3, <2>3, <2>4, <2>5 DEF Single
<1>9. CASE /\ frame'[t].candidates = {}
           /\ ~Over(total_len, target_count(t)) /\ config.max_items_per_shard = Nil
           /\ ~over_memory_budget
  <2>1. ~over_memory_budget'
    BY <1>2, <1>9 DEF over_memory_budget, exact_weight
  <2>. QED
    BY <1>2, <1>3, <1>9, <2>1 DEF Covered, Excess, Over
<1>. QED
  <2>1. frame'[t].candidates =
          IF ~(\/ Over(total_len, target_count(t)) \/ config.max_items_per_shard # Nil
               \/ over_memory_budget) THEN {}
          ELSE IF OnlyOne(t) /\ all # {} THEN {First(policy(t), all)} ELSE all
    BY <1>1 DEF Plan, Base, Shape, Frame
  <2>. QED
    BY <1>7, <1>8, <1>9, <2>1

\* The next candidate goes, or nothing requires it.
LEMMA EvictCovers ==
  ASSUME Base, Base', Records, NEW t \in Threads, Evict(t), ~dirty, Covered(t) \/ Single(t)
  PROVE  Covered(t)'
<1>1. PICK c \in frame[t].candidates :
        /\ c = First(policy(t), frame[t].candidates)
        /\ frame' = [frame EXCEPT ![t].candidates = @ \ {c}]
        /\ IF Excess(t, c.key) THEN TryEvict(c) ELSE UNCHANGED <<map, meta, since>>
  BY NextCandidate DEF Evict
<1>2. /\ frame'[t].candidates = frame[t].candidates \ {c} /\ frame'[t].call = frame[t].call
      /\ UNCHANGED <<config, layout>> /\ pc[t] = "evict"
  BY <1>1 DEF Evict, topology, Base, Shape, Frame
<1>3. Candidates(t)' = Candidates(t) \ {c.key} /\ c.key \in Keys
  BY <1>2, CandidatesLeft, FrameFields DEF Base, Shape, Candidate
<1>4. CASE Covered(t) /\ Excess(t, c.key)
  <2>1. /\ data'[c.key] = Absent /\ meta'[c.key] = Nil /\ total_len' = total_len - 1
        /\ \A j \in Keys \ {c.key} : data'[j] = data[j] /\ meta'[j] = meta[j]
        /\ Stored' = Stored \ {c.key}
    BY <1>1, <1>2, <1>4, CandidateGoes
  <2>2. ASSUME NEW k \in Stored' \ Candidates(t)' PROVE ~Excess(t, k)'
    <3>1. k \in Keys /\ k \in Stored \ Candidates(t)
      BY <1>3, <2>1 DEF Stored
    <3>2. ~Excess(t, k)
      BY <1>4, <3>1 DEF Covered
    <3>3. \A j \in Keys : data'[j] \in {data[j], Absent} /\ meta'[j] \in {meta[j], Nil}
      BY <2>1
    <3>. QED
      BY <1>2, <2>1, <3>1, <3>2, <3>3, ExcessShrinks
  <2>. QED
    BY <2>2 DEF Covered
<1>5. CASE Covered(t) /\ ~Excess(t, c.key)
  <2>1. UNCHANGED <<data, total_len, meta>>
    BY <1>1, <1>5 DEF map
  <2>2. ASSUME NEW k \in Stored' \ Candidates(t)' PROVE ~Excess(t, k)'
    <3>1. k \in Keys /\ ~Excess(t, k)
      BY <1>3, <1>5, <2>1 DEF Stored, Covered
    <3>. QED
      BY <1>2, <2>1, <3>1, ExcessShrinks
  <2>. QED
    BY <2>2 DEF Covered
<1>6. CASE Single(t)
  <2>1. target_count(t) \in Nat /\ total_len = target_count(t) + 1
        /\ config.max_items_per_shard = Nil /\ config.memory_budget = Nil
    BY <1>2, <1>6, TargetSharpens DEF Single, OnlyOne, Passing
  <2>2. Excess(t, c.key)
    BY <2>1, ConfigTyped DEF Excess, Over, Base
  <2>3. total_len' = total_len - 1
    BY <1>1, <1>2, <2>2, CandidateGoes
  <2>4. target_count(t)' = target_count(t)
    BY <1>2 DEF target_count, call
  <2>. QED
    BY <1>2, <2>1, <2>3, <2>4 DEF Covered, Excess, Over, over_memory_budget
<1>. QED
  BY <1>4, <1>5, <1>6

\* The steps that lead into the parts of a pass.
LEMMA StepsInto ==
  ASSUME Base, NEW u \in Threads, Step(u)
  PROVE  /\ pc'[u] = "evict" => Plan(u) \/ Evict(u)
         /\ pc'[u] = "publish" => Repair(u)
         /\ pc'[u] \in {"scan", "lock", "trim"} =>
              maintenance_generation(u) \/ Scan(u) \/ Lock(u) \/ Trim(u)
<1>. DEFINE P == pc'[u] \notin {"scan", "lock", "trim", "evict", "publish"}
<1>. USE DEF Goto, Base, Shape, Values
<1>1. ASSUME Invoke(u) PROVE P
  BY <1>1 DEF Invoke
<1>2. ASSUME Begin(u) PROVE P
  BY <1>2 DEF Begin, Committed
<1>3. ASSUME Store(u) PROVE P
  BY <1>3 DEF Store
<1>4. ASSUME Record(u) PROVE P
  BY <1>4 DEF Record, Committed
<1>5. ASSUME Unwind(u) PROVE P
  BY <1>5 DEF Unwind, Unwinding
<1>6. ASSUME mark_dirty(u) PROVE P
  BY <1>6 DEF mark_dirty, Return
<1>7. ASSUME BeginSweep(u) PROVE P
  BY <1>7 DEF BeginSweep
<1>8. ASSUME SweepShard(u) PROVE P
  BY <1>8 DEF SweepShard
<1>9. ASSUME SweepUnwinds(u) PROVE P
  BY <1>9 DEF SweepUnwinds, Unwinding
<1>10. ASSUME EndSweep(u) PROVE P
  BY <1>10 DEF EndSweep, Committed
<1>11. ASSUME Observe(u) PROVE P
  BY <1>11 DEF Observe
<1>12. ASSUME Acknowledge(u) PROVE P
  BY <1>12 DEF Acknowledge, Finish, Return
<1>13. ASSUME Choose(u) PROVE P
  BY <1>13 DEF Choose
<1>14. ASSUME Share(u) PROVE P
  BY <1>14 DEF Share
<1>15. ASSUME maintenance_generation(u) PROVE pc'[u] = "scan"
  BY <1>15 DEF maintenance_generation
<1>16. ASSUME Scan(u) PROVE pc'[u] \in {"scan", "lock"}
  BY <1>16 DEF Scan
<1>17. ASSUME Lock(u) PROVE pc'[u] = "trim"
  BY <1>17 DEF Lock
<1>18. ASSUME Trim(u) PROVE pc'[u] \in {"scan", "trim"}
  BY <1>18 DEF Trim
<1>19. ASSUME Trimmed(u) PROVE P
  BY <1>19 DEF Trimmed, Finish, Return
<1>20. ASSUME RetryExclusive(u) PROVE P
  BY <1>20 DEF RetryExclusive
<1>21. ASSUME Exclude(u) PROVE P
  BY <1>21 DEF Exclude
<1>22. ASSUME Repair(u) PROVE pc'[u] \in {"publish", "plan"}
  BY <1>22 DEF Repair
<1>23. ASSUME Publish(u) PROVE P
  BY <1>23 DEF Publish
<1>24. ASSUME Plan(u) PROVE pc'[u] = "evict"
  BY <1>24 DEF Plan
<1>25. ASSUME Evict(u) PROVE pc'[u] = "evict"
  BY <1>25 DEF Evict
<1>26. ASSUME Done(u) PROVE P
  BY <1>26 DEF Done, Finish, Return
<1>27. ASSUME PassUnwinds(u) PROVE P
  BY <1>27 DEF PassUnwinds, Unwinding, Return
<1>28. ASSUME NEW k \in Keys, Read(u, k) PROVE P
  BY <1>28 DEF Read
<1>. QED
  BY <1>1, <1>2, <1>3, <1>4, <1>5, <1>6, <1>7, <1>8, <1>9, <1>10, <1>11, <1>12, <1>13, <1>14, <1>15, <1>16, <1>17, <1>18, <1>19, <1>20, <1>21, <1>22, <1>23, <1>24, <1>25, <1>26, <1>27, <1>28 DEF Step

\* Every step keeps what an exclusive pass has dealt with out of excess.
LEMMA PassCoversNext ==
  ASSUME Base, Base', Records, Limits, [Next]_vars
  PROVE  PassCovers'
<1>. SUFFICES ASSUME NEW u \in Threads, pc'[u] = "evict", ~dirty'
              PROVE  Covered(u)' \/ Single(u)'
  BY DEF PassCovers, Covered, Single
<1>1. ASSUME pc[u] = "evict", frame'[u] = frame[u], ~dirty,
             UNCHANGED <<config, layout, data, total_len, meta>>
      PROVE  Covered(u)' \/ Single(u)'
  <2>1. /\ Stored' = Stored /\ target_count(u)' = target_count(u) /\ policy(u)' = policy(u)
        /\ Candidates(u)' = Candidates(u)
    BY <1>1 DEF Stored, target_count, policy, call, Candidates
  <2>2. \A k \in Stored : Excess(u, k)' <=> Excess(u, k)
    BY <1>1, <2>1 DEF Excess, InShard, over_memory_budget, exact_weight
  <2>3. Covered(u) \/ Single(u)
    BY <1>1 DEF Limits, PassCovers, Covered, Single
  <2>4. Covered(u) => Covered(u)'
    BY <2>1, <2>2 DEF Covered
  <2>5. Single(u) => Single(u)'
    BY <1>1, <2>1 DEF Single, OnlyOne
  <2>. QED
    BY <2>3, <2>4, <2>5
<1>2. ASSUME NEW t \in Threads \ {u}, Step(t) PROVE Covered(u)' \/ Single(u)'
  <2>1. pc[u] = "evict" /\ frame'[u] = frame[u]
    BY <1>2, OthersStay
  <2>. QED
    BY <1>1, <1>2, <2>1, Undisturbed DEF Exclusive
<1>3. ASSUME Plan(u) PROVE Covered(u)' \/ Single(u)'
  <2>1. ~dirty
    BY <1>3 DEF Plan, epochs, dirty
  <2>. QED
    BY <1>3, <2>1, PlanCovers
<1>4. ASSUME Evict(u) PROVE Covered(u)' \/ Single(u)'
  <2>1. ~dirty /\ pc[u] = "evict"
    BY <1>4 DEF Evict, epochs, dirty
  <2>2. Covered(u) \/ Single(u)
    BY <2>1 DEF Limits, PassCovers, Covered, Single
  <2>. QED
    BY <1>4, <2>1, <2>2, EvictCovers
<1>5. ASSUME Reshard \/ Migrated PROVE FALSE
  BY <1>5 DEF Reshard, Migrated, Exclusive
<1>6. ASSUME UNCHANGED vars PROVE Covered(u)' \/ Single(u)'
  BY <1>1, <1>6 DEF vars, topology, map, ranks, epochs, dirty
<1>. QED
  BY <1>2, <1>3, <1>4, <1>5, <1>6, StepsInto DEF Next

\* Work is only ever begun; maintenance catches up where a pass ends.
LEMMA WorkGrows ==
  ASSUME Base, NEW t \in Threads, Step(t)
  PROVE  /\ work_epoch' \in {work_epoch, work_epoch + 1}
         /\ ~Acknowledge(t) /\ ~Trimmed(t) /\ ~Done(t) => maintained_epoch' = maintained_epoch
<1>. DEFINE W == work_epoch' \in {work_epoch, work_epoch + 1}
            P == W /\ maintained_epoch' = maintained_epoch
<1>. USE DEF epochs
<1>1. ASSUME Invoke(t) PROVE P
  BY <1>1 DEF Invoke
<1>2. ASSUME Begin(t) PROVE P
  BY <1>2 DEF Begin, mark_pending
<1>3. ASSUME Store(t) PROVE P
  BY <1>3 DEF Store
<1>4. ASSUME Record(t) PROVE P
  BY <1>4 DEF Record
<1>5. ASSUME Unwind(t) PROVE P
  BY <1>5 DEF Unwind
<1>6. ASSUME mark_dirty(t) PROVE P
  BY <1>6 DEF mark_dirty, mark_pending
<1>7. ASSUME BeginSweep(t) PROVE P
  BY <1>7 DEF BeginSweep
<1>8. ASSUME SweepShard(t) PROVE P
  BY <1>8 DEF SweepShard, Swept, mark_pending
<1>9. ASSUME SweepUnwinds(t) PROVE P
  BY <1>9 DEF SweepUnwinds, Swept, mark_pending
<1>10. ASSUME EndSweep(t) PROVE P
  BY <1>10 DEF EndSweep
<1>11. ASSUME Observe(t) PROVE P
  BY <1>11 DEF Observe
<1>12. ASSUME Acknowledge(t) PROVE W
  BY <1>12 DEF Acknowledge, Finish
<1>13. ASSUME Choose(t) PROVE P
  BY <1>13 DEF Choose
<1>14. ASSUME Share(t) PROVE P
  BY <1>14 DEF Share, mark_pending
<1>15. ASSUME maintenance_generation(t) PROVE P
  BY <1>15 DEF maintenance_generation
<1>16. ASSUME Scan(t) PROVE P
  BY <1>16 DEF Scan
<1>17. ASSUME Lock(t) PROVE P
  BY <1>17 DEF Lock
<1>18. ASSUME Trim(t) PROVE P
  BY <1>18 DEF Trim
<1>19. ASSUME Trimmed(t) PROVE W
  BY <1>19 DEF Trimmed, Finish
<1>20. ASSUME RetryExclusive(t) PROVE P
  BY <1>20 DEF RetryExclusive
<1>21. ASSUME Exclude(t) PROVE P
  BY <1>21 DEF Exclude, mark_pending
<1>22. ASSUME Repair(t) PROVE P
  BY <1>22 DEF Repair, mark_pending
<1>23. ASSUME Publish(t) PROVE P
  BY <1>23 DEF Publish
<1>24. ASSUME Plan(t) PROVE P
  BY <1>24 DEF Plan
<1>25. ASSUME Evict(t) PROVE P
  BY <1>25 DEF Evict
<1>26. ASSUME Done(t) PROVE W
  BY <1>26 DEF Done, Finish
<1>27. ASSUME PassUnwinds(t) PROVE P
  BY <1>27 DEF PassUnwinds
<1>28. ASSUME NEW k \in Keys, Read(t, k) PROVE P
  BY <1>28 DEF Read
<1>. QED
  BY <1>1, <1>2, <1>3, <1>4, <1>5, <1>6, <1>7, <1>8, <1>9, <1>10, <1>11, <1>12, <1>13, <1>14, <1>15, <1>16, <1>17, <1>18, <1>19, <1>20, <1>21, <1>22, <1>23, <1>24, <1>25, <1>26, <1>27, <1>28 DEF Step

\* Every step keeps work pending while a repair is under way.
LEMMA RepairPendingNext ==
  ASSUME Base, Base', Records, Limits, [Next]_vars
  PROVE  RepairPending'
<1>. SUFFICES ASSUME NEW u \in Threads, pc'[u] = "publish"
              PROVE  dirty' /\ maintained_epoch' < work_epoch'
  BY DEF RepairPending
<1>1. ASSUME NEW t \in Threads \ {u}, Step(t) PROVE dirty' /\ maintained_epoch' < work_epoch'
  <2>1. pc[u] = "publish" /\ dirty /\ maintained_epoch < work_epoch
    BY <1>1, OthersStay DEF Limits, RepairPending
  <2>2. dirty'
    BY <1>1, <2>1, Undisturbed DEF Exclusive
  <2>3. pc[t] \notin {"scan", "evict"} /\ ~Acknowledge(t)
    BY <2>1 DEF Base, LocksExclude, Exclusive, Trimming, Acknowledge, Needed
  <2>4. maintained_epoch' = maintained_epoch /\ work_epoch' \in {work_epoch, work_epoch + 1}
    BY <1>1, <2>3, WorkGrows DEF Trimmed, Done
  <2>. QED
    BY <2>1, <2>2, <2>4 DEF Base, Shape, Values
<1>2. ASSUME Repair(u) PROVE dirty' /\ maintained_epoch' < work_epoch'
  <2>1. /\ dirty /\ work_epoch' = work_epoch + 1
        /\ UNCHANGED <<dirty_epoch, repaired_epoch, maintained_epoch>>
    BY <1>2 DEF Repair, mark_pending, Goto, Base, Shape, Values
  <2>. QED
    BY <2>1 DEF dirty, Base, Shape, Values, EpochsOrdered
<1>3. ASSUME Reshard \/ Migrated PROVE FALSE
  BY <1>3 DEF Reshard, Migrated, Exclusive
<1>4. ASSUME UNCHANGED vars PROVE dirty' /\ maintained_epoch' < work_epoch'
  BY <1>4 DEF vars, epochs, dirty, Limits, RepairPending
<1>. QED
  BY <1>1, <1>2, <1>3, <1>4, StepsInto DEF Next

\* To be in a mutation is to begin work, or to go on with a mutation.
LEMMA MutatingBefore ==
  ASSUME Base, NEW t \in Threads, Step(t), pc'[t] \in Mutating, work_epoch' = work_epoch
  PROVE  Store(t)
<1>. DEFINE P == pc'[t] \notin Mutating
<1>. USE DEF Goto, Base, Shape, Values, Mutating
<1>1. ASSUME Invoke(t) PROVE P
  BY <1>1 DEF Invoke
<1>2. ASSUME Begin(t) PROVE P
  BY <1>2 DEF Begin, Committed, mark_pending
<1>3. ASSUME Record(t) PROVE P
  BY <1>3 DEF Record, Committed
<1>4. ASSUME Unwind(t) PROVE P
  BY <1>4 DEF Unwind, Unwinding
<1>5. ASSUME mark_dirty(t) PROVE P
  BY <1>5 DEF mark_dirty, Return
<1>6. ASSUME BeginSweep(t) PROVE P
  BY <1>6 DEF BeginSweep
<1>7. ASSUME SweepShard(t) PROVE P
  BY <1>7 DEF SweepShard
<1>8. ASSUME SweepUnwinds(t) PROVE P
  BY <1>8 DEF SweepUnwinds, Unwinding
<1>9. ASSUME EndSweep(t) PROVE P
  BY <1>9 DEF EndSweep, Committed
<1>10. ASSUME Observe(t) PROVE P
  BY <1>10 DEF Observe
<1>11. ASSUME Acknowledge(t) PROVE P
  BY <1>11 DEF Acknowledge, Finish, Return
<1>12. ASSUME Choose(t) PROVE P
  BY <1>12 DEF Choose
<1>13. ASSUME Share(t) PROVE P
  BY <1>13 DEF Share
<1>14. ASSUME maintenance_generation(t) PROVE P
  BY <1>14 DEF maintenance_generation
<1>15. ASSUME Scan(t) PROVE P
  BY <1>15 DEF Scan
<1>16. ASSUME Lock(t) PROVE P
  BY <1>16 DEF Lock
<1>17. ASSUME Trim(t) PROVE P
  BY <1>17 DEF Trim
<1>18. ASSUME Trimmed(t) PROVE P
  BY <1>18 DEF Trimmed, Finish, Return
<1>19. ASSUME RetryExclusive(t) PROVE P
  BY <1>19 DEF RetryExclusive
<1>20. ASSUME Exclude(t) PROVE P
  BY <1>20 DEF Exclude
<1>21. ASSUME Repair(t) PROVE P
  BY <1>21 DEF Repair
<1>22. ASSUME Publish(t) PROVE P
  BY <1>22 DEF Publish
<1>23. ASSUME Plan(t) PROVE P
  BY <1>23 DEF Plan
<1>24. ASSUME Evict(t) PROVE P
  BY <1>24 DEF Evict
<1>25. ASSUME Done(t) PROVE P
  BY <1>25 DEF Done, Finish, Return
<1>26. ASSUME PassUnwinds(t) PROVE P
  BY <1>26 DEF PassUnwinds, Unwinding, Return
<1>27. ASSUME NEW k \in Keys, Read(t, k) PROVE P
  BY <1>27 DEF Read
<1>. QED
  BY <1>1, <1>2, <1>3, <1>4, <1>5, <1>6, <1>7, <1>8, <1>9, <1>10, <1>11, <1>12, <1>13, <1>14, <1>15, <1>16, <1>17, <1>18, <1>19, <1>20, <1>21, <1>22, <1>23, <1>24, <1>25, <1>26, <1>27 DEF Step

\* A resting shard rests until work is begun.
LEMMA RestingStays ==
  ASSUME Base, Base', NEW i \in Shards, Resting(i), NEW t \in Threads, Step(t),
         work_epoch' = work_epoch
  PROVE  Resting(i)'
<1>1. CASE Store(t)
  <2>1. PICK k \in Keys : k = call(t).key
    BY <1>1, GuardedKey DEF Store, Mutating
  <2>2. pc[t] = "ticket" /\ UNCHANGED <<config, layout>> /\ frame'[t].call = frame[t].call
    BY <1>1 DEF Store, topology, Base, Shape, Frame
  <2>3. layout[k] # i
    BY <2>1, <2>2 DEF Resting, Mutating
  <2>4. \A j \in Keys \ {k} : data'[j] = data[j]
    BY <1>1, <2>1 DEF Store, Base, Shape, Values
  <2>5. InShard(i)' = InShard(i)
    BY <2>2, <2>3, <2>4 DEF InShard, Stored
  <2>6. \A u \in Threads : pc'[u] \in Mutating => pc[u] \in Mutating /\ call(u)' = call(u)
    BY <2>2, OthersStay DEF call, Mutating
  <2>. QED
    BY <2>2, <2>5, <2>6 DEF Resting
<1>2. CASE ~Store(t)
  <2>1. UNCHANGED <<config, layout>> /\ \A k \in Keys : data'[k] \in {data[k], Absent}
    BY <1>2, DataShrinks
  <2>2. InShard(i) \in SUBSET Keys /\ InShard(i)' \in SUBSET InShard(i)
    BY <2>1 DEF InShard, Stored
  <2>3. /\ Cardinality(InShard(i)) \in Nat /\ Cardinality(InShard(i)') \in Nat
        /\ Cardinality(InShard(i)') <= Cardinality(InShard(i))
    BY <2>2, SubsetCounts
  <2>4. ~Over(Cardinality(InShard(i)), config.max_items_per_shard)'
    BY <2>1, <2>3, OverShrinks, ConfigTyped DEF Resting, Base
  <2>5. \A u \in Threads : pc'[u] \in Mutating => pc[u] \in Mutating /\ call(u)' = call(u)
    BY <1>2, OthersStay, MutatingBefore DEF call
  <2>. QED
    BY <2>1, <2>4, <2>5 DEF Resting
<1>. QED
  BY <1>1, <1>2

\* Every step keeps the shards that a pass is done with at rest, or begins work.
LEMMA ShardsDoneNext ==
  ASSUME Base, Base', Records, Limits, [Next]_vars
  PROVE  ShardsDone'
<1>. SUFFICES ASSUME NEW u \in Threads, pc'[u] \in {"scan", "lock", "trim"},
                     frame'[u].observed = work_epoch', ~dirty', ~frame'[u].retry_exclusive,
                     NEW i \in Shards \ frame'[u].slots
              PROVE  Resting(i)'
  BY DEF ShardsDone
<1>1. ASSUME NEW t \in Threads \ {u}, Step(t) PROVE Resting(i)'
  <2>1. pc[u] = pc'[u] /\ frame'[u] = frame[u]
    BY <1>1, OthersStay
  <2>2. ~Publish(t)
    BY <1>1, <2>1 DEF Publish, Base, LocksExclude, Exclusive, Trimming
  <2>3. ~dirty
    BY <1>1, <2>2, CleanStays
  <2>4. work_epoch' = work_epoch
    BY <1>1, <2>1, WorkGrows DEF Base, EpochsOrdered, Shape, Values
  <2>5. Resting(i)
    BY <2>1, <2>3, <2>4 DEF Limits, ShardsDone
  <2>. QED
    BY <1>1, <2>4, <2>5, RestingStays
<1>2. ASSUME Step(u), UNCHANGED <<work_epoch, dirty_epoch, repaired_epoch>>,
             pc[u] \in {"scan", "lock", "trim"}, frame'[u].observed = frame[u].observed,
             ~frame[u].retry_exclusive, i \in Shards \ frame[u].slots
      PROVE  Resting(i)'
  <2>1. Resting(i)
    BY <1>2 DEF Limits, ShardsDone, dirty
  <2>. QED
    BY <1>2, <2>1, RestingStays
<1>3. ASSUME Step(u), UNCHANGED work_epoch, Resting(i) PROVE Resting(i)'
  BY <1>3, RestingStays
<1>4. ASSUME maintenance_generation(u) PROVE Resting(i)'
  <2>1. PICK vacant \in SUBSET (Shards \ InUse) :
          frame' = [frame EXCEPT ![u].observed = work_epoch, ![u].slots = Shards \ vacant]
    BY <1>4 DEF maintenance_generation
  <2>2. frame'[u].slots = Shards \ vacant
    BY <2>1 DEF Base, Shape, Frame
  <2>3. i \notin InUse
    BY <2>2
  <2>4. InShard(i) = {} /\ \A v \in Threads : pc[v] \in Mutating => layout[call(v).key] # i
    BY <2>3 DEF InUse
  <2>5. Resting(i)
    BY <2>4, FS_EmptySet, OverNothing, ConfigTyped DEF Resting, Base
  <2>6. work_epoch' = work_epoch /\ Step(u)
    BY <1>4 DEF maintenance_generation, epochs, Step
  <2>. QED
    BY <1>3, <2>5, <2>6
<1>5. ASSUME Scan(u) PROVE Resting(i)'
  <2>1. /\ Step(u) /\ pc[u] = "scan" /\ CanLock(u, shard(u))
        /\ UNCHANGED <<work_epoch, dirty_epoch, repaired_epoch>>
    BY <1>5 DEF Scan, epochs, Step
  <2>2. CASE frame' = frame
    BY <1>2, <2>1, <2>2
  <2>3. CASE /\ ~Over(Cardinality(InShard(shard(u))), config.max_items_per_shard)
             /\ frame' = [frame EXCEPT ![u].slots = @ \ {shard(u)}]
    <3>1. /\ frame'[u].slots = frame[u].slots \ {shard(u)} /\ frame'[u].observed = frame[u].observed
          /\ frame'[u].retry_exclusive = frame[u].retry_exclusive
      BY <2>3 DEF Base, Shape, Frame
    <3>2. CASE i = shard(u)
      <4>1. Resting(i)
        BY <2>1, <2>3, <3>2 DEF Resting, CanLock, Mutating
      <4>. QED
        BY <1>3, <2>1, <4>1
    <3>3. CASE i # shard(u)
      BY <1>2, <2>1, <3>1, <3>3
    <3>. QED
      BY <3>2, <3>3
  <2>. QED
    BY <1>5, <2>2, <2>3 DEF Scan
<1>6. ASSUME Lock(u) PROVE Resting(i)'
  <2>1. /\ Step(u) /\ pc[u] = "lock" /\ UNCHANGED <<work_epoch, dirty_epoch, repaired_epoch>>
    BY <1>6 DEF Lock, epochs, Step
  <2>2. /\ frame'[u].slots = frame[u].slots /\ frame'[u].observed = frame[u].observed
        /\ frame'[u].retry_exclusive = frame[u].retry_exclusive
    BY <1>6 DEF Lock, Base, Shape, Frame
  <2>. QED
    BY <1>2, <2>1, <2>2
<1>7. ASSUME Trim(u) PROVE Resting(i)'
  <2>1. /\ Step(u) /\ pc[u] = "trim" /\ UNCHANGED <<work_epoch, dirty_epoch, repaired_epoch>>
    BY <1>7 DEF Trim, epochs, Step
  <2>2. PICK over \in BOOLEAN :
          over = Over(Cardinality(InShard(shard(u))), config.max_items_per_shard)
    BY DEF Over
  <2>3. CASE \E c : frame' = [frame EXCEPT ![u].candidates = @ \ {c}]
    <3>1. /\ frame'[u].slots = frame[u].slots /\ frame'[u].observed = frame[u].observed
          /\ frame'[u].retry_exclusive = frame[u].retry_exclusive
      BY <2>3 DEF Base, Shape, Frame
    <3>. QED
      BY <1>2, <2>1, <3>1
  <2>4. CASE frame' = [frame EXCEPT ![u].candidates = {}, ![u].slots = @ \ {shard(u)},
                                    ![u].retry_exclusive = @ \/ over]
    <3>1. /\ frame'[u].slots = frame[u].slots \ {shard(u)} /\ frame'[u].observed = frame[u].observed
          /\ frame'[u].retry_exclusive = (frame[u].retry_exclusive \/ over)
      BY <2>4 DEF Base, Shape, Frame
    <3>2. CASE i = shard(u)
      <4>1. ~Over(Cardinality(InShard(i)), config.max_items_per_shard)
        BY <2>2, <3>1, <3>2
      <4>2. \A v \in Threads : pc[v] \in Mutating => layout[call(v).key] # i
        BY <2>1, <3>2 DEF Base, LocksExclude, Mutating
      <4>. QED
        BY <1>3, <2>1, <4>1, <4>2 DEF Resting
    <3>3. CASE i # shard(u)
      BY <1>2, <2>1, <3>1, <3>3
    <3>. QED
      BY <3>2, <3>3
  <2>. QED
    BY <1>7, <2>2, <2>3, <2>4 DEF Trim
<1>8. ASSUME Reshard \/ Migrated PROVE FALSE
  BY <1>8 DEF Reshard, Migrated, Trimming
<1>9. ASSUME UNCHANGED vars PROVE Resting(i)'
  <2>1. Resting(i)
    BY <1>9 DEF vars, epochs, dirty, Limits, ShardsDone
  <2>. QED
    BY <1>9, <2>1 DEF vars, topology, map, Resting, InShard, Stored, call
<1>. QED
  BY <1>1, <1>4, <1>5, <1>6, <1>7, <1>8, <1>9, StepsInto DEF Next

\* Who looks goes on looking until it begins work or acknowledges that there is none.
LEMMA LookingStays ==
  ASSUME Base, NEW t \in Threads, Step(t), Looking(t), work_epoch' = work_epoch, ~Acknowledge(t)
  PROVE  Looking(t)'
<1>. USE DEF Goto, Base, Shape, Values, Mutating, Trimming, Looking
<1>1. ASSUME Invoke(t) PROVE Looking(t)'
  BY <1>1 DEF Invoke
<1>2. ASSUME Begin(t) PROVE Looking(t)'
  BY <1>2 DEF Begin, mark_pending, Committed
<1>3. ASSUME Store(t) PROVE Looking(t)'
  BY <1>3 DEF Store
<1>4. ASSUME Record(t) PROVE Looking(t)'
  BY <1>4 DEF Record, Committed
<1>5. ASSUME Unwind(t) PROVE Looking(t)'
  BY <1>5 DEF Unwind, Unwinding
<1>6. ASSUME mark_dirty(t) PROVE Looking(t)'
  BY <1>6 DEF mark_dirty, mark_pending, Return
<1>7. ASSUME BeginSweep(t) PROVE Looking(t)'
  BY <1>7 DEF BeginSweep
<1>8. ASSUME SweepShard(t) PROVE Looking(t)'
  BY <1>8 DEF SweepShard
<1>9. ASSUME SweepUnwinds(t) PROVE Looking(t)'
  BY <1>9 DEF SweepUnwinds
<1>10. ASSUME EndSweep(t) PROVE Looking(t)'
  BY <1>10 DEF EndSweep, Committed
<1>11. ASSUME Observe(t) PROVE Looking(t)'
  BY <1>11 DEF Observe
<1>12. ASSUME Choose(t) PROVE Looking(t)'
  BY <1>12 DEF Choose
<1>13. ASSUME Share(t) PROVE Looking(t)'
  BY <1>13 DEF Share, mark_pending
<1>14. ASSUME maintenance_generation(t) PROVE Looking(t)'
  BY <1>14 DEF maintenance_generation
<1>15. ASSUME Scan(t) PROVE Looking(t)'
  BY <1>15 DEF Scan
<1>16. ASSUME Lock(t) PROVE Looking(t)'
  BY <1>16 DEF Lock
<1>17. ASSUME Trim(t) PROVE Looking(t)'
  BY <1>17 DEF Trim
<1>18. ASSUME Trimmed(t) PROVE Looking(t)'
  BY <1>18 DEF Trimmed, Finish, Return
<1>19. ASSUME RetryExclusive(t) PROVE Looking(t)'
  BY <1>19 DEF RetryExclusive
<1>20. ASSUME Exclude(t) PROVE Looking(t)'
  BY <1>20 DEF Exclude, mark_pending
<1>21. ASSUME Repair(t) PROVE Looking(t)'
  BY <1>21 DEF Repair, mark_pending
<1>22. ASSUME Publish(t) PROVE Looking(t)'
  BY <1>22 DEF Publish
<1>23. ASSUME Plan(t) PROVE Looking(t)'
  BY <1>23 DEF Plan
<1>24. ASSUME Evict(t) PROVE Looking(t)'
  BY <1>24 DEF Evict
<1>25. ASSUME Done(t) PROVE Looking(t)'
  BY <1>25 DEF Done, Finish, Return
<1>26. ASSUME PassUnwinds(t) PROVE Looking(t)'
  BY <1>26 DEF PassUnwinds, Unwinding, Return
<1>27. ASSUME NEW k \in Keys, Read(t, k) PROVE Looking(t)'
  BY <1>27 DEF Read
<1>. QED
  BY <1>1, <1>2, <1>3, <1>4, <1>5, <1>6, <1>7, <1>8, <1>9, <1>10, <1>11, <1>12, <1>13, <1>14, <1>15, <1>16, <1>17, <1>18, <1>19, <1>20, <1>21, <1>22, <1>23, <1>24, <1>25, <1>26, <1>27 DEF Step

\* The end of an exclusive pass with clean metadata: whatever is stored is not in excess.
LEMMA PassEnds ==
  ASSUME Base, Records, Limits, NEW t \in Threads, pc[t] = "evict", frame[t].candidates = {}, ~dirty
  PROVE  Within /\ ~Over(Cardinality(Stored), target_count(t))
<1>1. \A u \in Threads : pc[u] # "stored"
  BY ExclusiveAlone DEF Exclusive
<1>2. total_len = Cardinality(Stored) /\ exact_weight = Total(WeightStored)
  BY <1>1, Settled
<1>3. \A k \in Stored : ~Excess(t, k)
  BY DEF Limits, PassCovers, Candidates
<1>4. target_count(t) \in Nat \cup {Nil}
  BY TargetSharpens DEF Passing
<1>5. ~Over(total_len, target_count(t)) /\ ~over_memory_budget
  <2>1. CASE Stored = {}
    <3>1. total_len = 0
      BY <1>2, <2>1, FS_EmptySet
    <3>2. \A k \in Keys : WeightStored[k] = 0
      BY <2>1 DEF WeightStored, Stored
    <3>3. exact_weight = 0
      BY <1>2, <3>2, TotalZero, WeightsTyped DEF Base
    <3>. QED
      BY <1>4, <3>1, <3>3, OverNothing, ConfigTyped DEF over_memory_budget, Base
  <2>2. CASE Stored # {}
    BY <1>3, <2>2 DEF Excess
  <2>. QED
    BY <2>1, <2>2
<1>6. ASSUME NEW i \in Shards PROVE ~Over(Cardinality(InShard(i)), config.max_items_per_shard)
  <2>1. CASE InShard(i) = {}
    BY <2>1, FS_EmptySet, OverNothing, ConfigTyped DEF Base
  <2>2. CASE InShard(i) # {}
    <3>1. PICK k \in Stored : layout[k] = i
      BY <2>2 DEF InShard
    <3>. QED
      BY <1>3, <3>1 DEF Excess
  <2>. QED
    BY <2>1, <2>2
<1>. QED
  BY <1>1, <1>5, <1>6, NoExcessWithin DEF Passing

\* No step leaves a map over its limits with maintenance up to date and nobody looking.
LEMMA SomebodyLooksNext ==
  ASSUME Base, Base', Records, Limits, [Next]_vars
  PROVE  SomebodyLooks'
<1>. SUFFICES ASSUME maintained_epoch' = work_epoch', ~dirty'
              PROVE  Within' \/ \E t \in Threads : Looking(t)'
  BY DEF SomebodyLooks
<1>0. work_epoch \in Nat /\ maintained_epoch \in Nat /\ maintained_epoch <= work_epoch
  BY DEF Base, Shape, Values, EpochsOrdered
<1>1. ASSUME UNCHANGED <<config, layout, data>>, Within PROVE Within'
  BY <1>1, WithinShrinks DEF Base
<1>2. ASSUME UNCHANGED <<config, layout, data, pc, dirty_epoch, repaired_epoch>>,
             UNCHANGED <<work_epoch, maintained_epoch>>
      PROVE  Within' \/ \E t \in Threads : Looking(t)'
  <2>1. Within \/ \E t \in Threads : Looking(t)
    BY <1>2 DEF Limits, SomebodyLooks, dirty
  <2>. QED
    BY <1>1, <1>2, <2>1 DEF Looking
<1>3. ASSUME NEW t \in Threads, Step(t) PROVE Within' \/ \E u \in Threads : Looking(u)'
  <2>1. ASSUME NEW v \in Threads \ {t}, Looking(v) PROVE Looking(v)'
    BY <1>3, <2>1, OthersStay DEF Looking
  <2>2. CASE ~Acknowledge(t) /\ ~Trimmed(t) /\ ~Done(t)
    <3>1. maintained_epoch' = maintained_epoch /\ work_epoch' = work_epoch
      BY <1>0, <1>3, <2>2, WorkGrows
    <3>2. ~Publish(t)
      <4>1. Publish(t) => pc[t] = "publish"
        BY DEF Publish
      <4>2. RepairPending
        BY DEF Limits
      <4>3. maintained_epoch = work_epoch
        BY <3>1
      <4>4. pc[t] # "publish"
        BY <1>0, <4>2, <4>3 DEF RepairPending
      <4>. QED
        BY <4>1, <4>4
    <3>3. ~dirty
      BY <1>3, <3>2, CleanStays
    <3>4. ASSUME NEW v \in Threads, Looking(v) PROVE Looking(v)'
      <4>1. CASE v = t
        <5>1. Looking(t)
          BY <3>4, <4>1
        <5>2. Looking(t)'
          BY <1>3, <2>2, <3>1, <5>1, LookingStays
        <5>. QED
          BY <4>1, <5>2 DEF Looking
      <4>2. CASE v # t
        BY <2>1, <3>4, <4>2
      <4>. QED
        BY <4>1, <4>2
    <3>5. CASE Store(t)
      BY <3>5 DEF Store, Goto, Looking, Mutating, Base, Shape, Values
    <3>6. CASE Within /\ ~Store(t)
      BY <1>3, <3>6, DataShrinks, WithinShrinks DEF Base
    <3>. QED
      BY <3>1, <3>3, <3>4, <3>5, <3>6 DEF Limits, SomebodyLooks
  <2>3. ASSUME Finish(t)
        PROVE  /\ UNCHANGED <<config, layout, data, dirty_epoch, repaired_epoch, work_epoch>> /\ ~dirty
               /\ maintained_epoch' \in {maintained_epoch, frame[t].observed}
    BY <2>3 DEF Finish, mark_maintained, topology, map, dirty
  <2>4. CASE Acknowledge(t)
    <3>1. pc[t] = "glance" /\ ~Needed(t) /\ Finish(t)
      BY <2>4 DEF Acknowledge
    <3>2. CASE \E v \in Threads : pc[v] = "stored"
      BY <2>1, <3>1, <3>2 DEF Looking, Mutating
    <3>3. CASE \A v \in Threads : pc[v] # "stored"
      <4>1. \A i \in Shards : ~Over(Cardinality(InShard(i)), config.max_items_per_shard)
        BY <3>1 DEF Needed, Over
      <4>2. Within
        BY <2>3, <3>1, <3>3, <4>1, NoExcessWithin DEF Needed, Passing
      <4>. QED
        BY <1>1, <2>3, <3>1, <4>2
    <3>. QED
      BY <3>2, <3>3
  <2>5. CASE Done(t)
    <3>1. pc[t] = "evict" /\ frame[t].candidates = {} /\ Finish(t)
      BY <2>5 DEF Done
    <3>. QED
      BY <1>1, <2>3, <3>1, PassEnds
  <2>6. CASE Trimmed(t)
    <3>1. pc[t] = "scan" /\ frame[t].slots = {} /\ ~frame[t].retry_exclusive /\ Finish(t)
      BY <2>6 DEF Trimmed
    <3>2. CASE maintained_epoch = work_epoch
      <4>1. Within \/ \E v \in Threads \ {t} : Looking(v)
        BY <2>3, <3>1, <3>2 DEF Limits, SomebodyLooks, Looking, Mutating
      <4>. QED
        BY <1>1, <2>1, <2>3, <3>1, <4>1
    <3>3. CASE frame[t].observed = work_epoch
      <4>1. \A i \in Shards : ~Over(Cardinality(InShard(i)), config.max_items_per_shard)
        BY <2>3, <3>1, <3>3 DEF Limits, ShardsDone, Resting
      <4>2. config.max_entries = Nil /\ config.memory_budget = Nil
        BY <3>1 DEF Base, CallsFit, Trimming
      <4>3. Within
        BY <4>1, <4>2 DEF Within, Over
      <4>. QED
        BY <1>1, <2>3, <3>1, <4>3
    <3>. QED
      BY <2>3, <3>1, <3>2, <3>3
  <2>. QED
    BY <2>2, <2>4, <2>5, <2>6
<1>4. ASSUME Reshard PROVE FALSE
  BY <1>0, <1>4 DEF Reshard, NewLayout, mark_pending
<1>5. ASSUME Migrated PROVE Within' \/ \E t \in Threads : Looking(t)'
  BY <1>2, <1>5 DEF Migrated, map, epochs
<1>6. ASSUME UNCHANGED vars PROVE Within' \/ \E t \in Threads : Looking(t)'
  BY <1>2, <1>6 DEF vars, topology, map, epochs
<1>. QED
  BY <1>3, <1>4, <1>5, <1>6 DEF Next

\* An empty map is within its limits.
LEMMA LimitsInit == Init => Limits
<1>. SUFFICES ASSUME Init PROVE Limits
  OBVIOUS
<1>1. Base
  BY BaseInit
<1>2. Stored = {} /\ \A t \in Threads : pc[t] = "idle"
  BY DEF Init, Stored
<1>3. \A k \in Keys : WeightStored[k] = 0
  BY DEF Init, WeightStored
<1>4. Total(WeightStored) = 0
  BY <1>1, <1>3, TotalZero, WeightsTyped DEF Base
<1>5. \A i \in Shards : InShard(i) = {}
  BY <1>2 DEF InShard
<1>6. Within
  BY <1>1, <1>2, <1>4, <1>5, FS_EmptySet, OverNothing, ConfigTyped DEF Within, WeightStored, Base
<1>. QED
  BY <1>2, <1>6 DEF Limits, TrimCovers, PassCovers, ShardsDone, SomebodyLooks, RepairPending

\* What every pass has achieved so far, and who still has to look.
THEOREM LimitsAlways == Spec => [](Base /\ Records /\ Limits)
<1>1. Base /\ Base' /\ Records /\ Limits /\ [Next]_vars => Limits'
  BY TrimCoversNext, PassCoversNext, ShardsDoneNext, SomebodyLooksNext, RepairPendingNext DEF Limits
<1>. QED
  BY <1>1, LimitsInit, RecordsAlways, PTL DEF Spec

\* LimitsOrPending: when nobody is in a call, the map is within its limits or pending says that
\* work is left, whatever interleaved, panicked or changed the shard count.
THEOREM LimitsKept == Spec => []LimitsOrPending
<1>1. Limits => LimitsOrPending
  BY DEF Limits, SomebodyLooks, LimitsOrPending, Quiet, Looking, Mutating, pending
<1>. QED
  BY <1>1, LimitsAlways, PTL

\* PassEnforces: an exclusive pass of run_eviction that ends with clean metadata leaves the map
\* within its limits and its target.
THEOREM PassesEnforce == Spec => []PassEnforces
<1>1. Base /\ Records /\ Limits => PassEnforces
  BY PassEnds DEF PassEnforces
<1>. QED
  BY <1>1, LimitsAlways, PTL

\* The first of the candidates of a pass that is over its limits earned its rank before every
\* rival: rivals are candidates as long as the pass has a use for them.
LEMMA RivalsFollow ==
  ASSUME Base, Records, Limits, NEW t \in Threads, ~dirty, NEW c \in frame[t].candidates,
         c = First(policy(t), frame[t].candidates),
         \/ /\ pc[t] = "trim"
            /\ Over(Cardinality(InShard(shard(t))), config.max_items_per_shard)
         \/ pc[t] = "evict" /\ Excess(t, c.key),
         NEW j \in Rivals(c.key) \ {c.key}
  PROVE  j \in Stored /\ Below(policy_rank(policy(t), c.entry), policy_rank(policy(t), meta[j]))
<1>1. j \in Stored
  BY DEF Rivals, InShard
<1>2. /\ pc[t] = "trim" => layout[c.key] = shard(t)
      /\ \A d \in frame[t].candidates : meta[d.key] = d.entry
  BY DEF Records, CandidatesValid
<1>3. ASSUME j \in Candidates(t)
      PROVE  Below(policy_rank(policy(t), c.entry), policy_rank(policy(t), meta[j]))
  <2>1. PICK d \in frame[t].candidates : d.key = j
    BY <1>3 DEF Candidates
  <2>2. d # c
    BY <2>1
  <2>3. Below(policy_rank(policy(t), c.entry), policy_rank(policy(t), d.entry))
    BY <2>2, NextCandidate
  <2>. QED
    BY <1>2, <2>1, <2>3
<1>4. CASE pc[t] = "trim" /\ Over(Cardinality(InShard(shard(t))), config.max_items_per_shard)
  <2>1. j \in InShard(shard(t))
    BY <1>2, <1>4 DEF Rivals, Over
  <2>2. TrimCovers
    BY DEF Limits
  <2>. QED
    BY <1>1, <1>3, <1>4, <2>1, <2>2 DEF TrimCovers
<1>5. CASE pc[t] = "evict" /\ Excess(t, c.key)
  <2>1. Excess(t, j)
    <3>1. config.max_items_per_shard # Nil => layout[j] = layout[c.key]
      BY DEF Rivals, InShard
    <3>. QED
      BY <1>5, <3>1 DEF Excess, Over
  <2>2. Covered(t) \/ Single(t)
    BY <1>5, PassCoversIs DEF Limits
  <2>3. CASE Covered(t)
    BY <1>1, <1>3, <2>1, <2>3 DEF Covered
  <2>4. CASE Single(t)
    BY <1>1, <2>4 DEF Single
  <2>. QED
    BY <1>1, <2>2, <2>3, <2>4
<1>. QED
  BY <1>4, <1>5

\* A lower rank was earned no later.
LEMMA BelowEarned ==
  ASSUME NEW a \in Entry, NEW b \in Entry, config.policy \in {"Lru", "Fifo"},
         Below(policy_rank(config.policy, a), policy_rank(config.policy, b))
  PROVE  Earned(a) <= Earned(b)
<1>1. CASE config.policy = "Lru"
  <2>1. policy_rank("Lru", a)[1] = a.accessed /\ policy_rank("Lru", b)[1] = b.accessed
    BY DEF policy_rank
  <2>2. a.accessed <= b.accessed
    BY <1>1, <2>1 DEF Below, Entry
  <2>. QED
    BY <1>1, <2>2 DEF Earned
<1>2. CASE config.policy = "Fifo"
  <2>1. policy_rank("Fifo", a)[1] = a.inserted /\ policy_rank("Fifo", b)[1] = b.inserted
    BY DEF policy_rank
  <2>2. a.inserted <= b.inserted
    BY <1>2, <2>1 DEF Below, Entry
  <2>. QED
    BY <1>2, <2>2 DEF Earned
<1>. QED
  BY <1>1, <1>2

\* What a pass removes is the next of its candidates, for being over a limit, with clean metadata.
LEMMA PassRemoves ==
  ASSUME Base, Records, NEW t \in Threads, pc[t] \in {"trim", "evict"}, Step(t), data' # data
  PROVE  \E c \in frame[t].candidates :
           /\ c = First(policy(t), frame[t].candidates) /\ ~dirty /\ TryEvict(c)
           /\ \/ /\ pc[t] = "trim"
                 /\ Over(Cardinality(InShard(shard(t))), config.max_items_per_shard)
              \/ pc[t] = "evict" /\ Excess(t, c.key)
<1>1. ~Invoke(t)
  BY DEF Invoke, map, Mutating
<1>2. ~Begin(t)
  BY DEF Begin, map, Mutating
<1>3. ~Store(t)
  BY DEF Store, map, Mutating
<1>4. ~Record(t)
  BY DEF Record, map, Mutating
<1>5. ~Unwind(t)
  BY DEF Unwind, map, Mutating
<1>6. ~mark_dirty(t)
  BY DEF mark_dirty, map, Mutating
<1>7. ~BeginSweep(t)
  BY DEF BeginSweep, map, Mutating
<1>8. ~SweepShard(t)
  BY DEF SweepShard, map, Mutating
<1>9. ~SweepUnwinds(t)
  BY DEF SweepUnwinds, map, Mutating
<1>10. ~EndSweep(t)
  BY DEF EndSweep, map, Mutating
<1>11. ~Observe(t)
  BY DEF Observe, map, Mutating
<1>12. ~Acknowledge(t)
  BY DEF Acknowledge, Finish, map, Mutating
<1>13. ~Choose(t)
  BY DEF Choose, map, Mutating
<1>14. ~Share(t)
  BY DEF Share, map, Mutating
<1>15. ~maintenance_generation(t)
  BY DEF maintenance_generation, map, Mutating
<1>16. ~Scan(t)
  BY DEF Scan, map, Mutating
<1>17. ~Lock(t)
  BY DEF Lock, map, Mutating
<1>18. ~Trimmed(t)
  BY DEF Trimmed, Finish, map, Mutating
<1>19. ~RetryExclusive(t)
  BY DEF RetryExclusive, map, Mutating
<1>20. ~Exclude(t)
  BY DEF Exclude, map, Mutating
<1>21. ~Repair(t)
  BY DEF Repair, map, Mutating
<1>22. ~Publish(t)
  BY DEF Publish, map, Mutating
<1>23. ~Plan(t)
  BY DEF Plan, map, Mutating
<1>24. ~Done(t)
  BY DEF Done, Finish, map, Mutating
<1>25. ~PassUnwinds(t)
  BY DEF PassUnwinds, map, Mutating
<1>26. \A k \in Keys : ~Read(t, k)
  BY DEF Read
<1>27. TryEvict(First(policy(t), frame[t].candidates)) => ~dirty
  BY DEF TryEvict, validate, map
<1>28. ASSUME Trim(t)
      PROVE  /\ frame[t].candidates # {} /\ TryEvict(First(policy(t), frame[t].candidates))
             /\ pc[t] = "trim"
             /\ Over(Cardinality(InShard(shard(t))), config.max_items_per_shard)
  BY <1>28 DEF Trim, map
<1>29. ASSUME Evict(t)
      PROVE  /\ frame[t].candidates # {} /\ TryEvict(First(policy(t), frame[t].candidates))
             /\ pc[t] = "evict" /\ Excess(t, First(policy(t), frame[t].candidates).key)
  BY <1>29 DEF Evict, map
<1>. QED
  BY <1>1, <1>2, <1>3, <1>4, <1>5, <1>6, <1>7, <1>8, <1>9, <1>10, <1>11, <1>12, <1>13, <1>14, <1>15, <1>16, <1>17, <1>18, <1>19, <1>20, <1>21, <1>22, <1>23, <1>24, <1>25, <1>26, <1>27, <1>28, <1>29, NextCandidate DEF Step

\* OldestGoesFirst: under Lru and Fifo no pass evicts a key while a rival stays that earned its
\* rank earlier, for any number of threads, keys, shards and any limits.
THEOREM OldestEvictedFirst == Spec => OldestGoesFirst
<1>1. ASSUME Base, Records, Limits, [Next]_vars, ~UNCHANGED vars, NEW t \in Threads,
             pc[t] \in {"trim", "evict"}, frame'[t] # frame[t], data' # data,
             policy(t) = config.policy, config.policy # "Lfu",
             NEW k \in Stored, data'[k] = Absent, NEW j \in Rivals(k) \ {k},
             since[j] # Nil, since[k] # Nil
      PROVE  since[j].to > since[k].from
  <2>1. Step(t)
    <3>1. ASSUME NEW u \in Threads \ {t}, Step(u) PROVE FALSE
      BY <1>1, <3>1, OthersStay
    <3>2. ~Reshard /\ ~Migrated
      BY <1>1 DEF Reshard, Migrated
    <3>. QED
      BY <1>1, <3>1, <3>2 DEF Next
  <2>2. PICK c \in frame[t].candidates :
           /\ c = First(policy(t), frame[t].candidates) /\ ~dirty /\ TryEvict(c)
           /\ \/ /\ pc[t] = "trim"
                 /\ Over(Cardinality(InShard(shard(t))), config.max_items_per_shard)
              \/ pc[t] = "evict" /\ Excess(t, c.key)
    BY <1>1, <2>1, PassRemoves
  <2>3. /\ c.key \in Stored /\ meta[c.key] = c.entry /\ c.entry \in Entry
        /\ \A i \in Keys \ {c.key} : data'[i] = data[i]
    BY <1>1, <2>2, CandidateGoes
  <2>4. k = c.key
    BY <1>1, <2>3 DEF Stored
  <2>5. j \in Stored /\ Below(policy_rank(policy(t), c.entry), policy_rank(policy(t), meta[j]))
    BY <1>1, <2>2, <2>4, RivalsFollow
  <2>6. /\ j \in Keys /\ k \in Keys /\ meta[j] \in Entry
        /\ since[j] \in Span /\ since[k] \in Span
        /\ since[k].from <= Earned(meta[k]) /\ Earned(meta[j]) < since[j].to
    BY <1>1, <2>5 DEF Stored, Records, SinceEarned, Base, Shape, Values
  <2>7. config.policy \in {"Lru", "Fifo"}
    BY <1>1, EvictionAssumption DEF Base, Shape, Values
  <2>8. Earned(meta[k]) <= Earned(meta[j])
    BY <1>1, <2>3, <2>4, <2>5, <2>6, <2>7, BelowEarned
  <2>9. Earned(meta[k]) \in Nat /\ Earned(meta[j]) \in Nat
    BY <2>3, <2>4, <2>6 DEF Earned, Entry
  <2>. QED
    BY <2>6, <2>8, <2>9 DEF Span
<1>2. Base /\ Records /\ Limits /\ [Next]_vars =>
        [\A t \in Threads :
           /\ pc[t] \in {"trim", "evict"} /\ frame'[t] # frame[t] /\ data' # data
           /\ policy(t) = config.policy /\ config.policy # "Lfu"
           => \A k \in Stored : data'[k] = Absent =>
                \A j \in Rivals(k) \ {k} :
                  since[j] # Nil /\ since[k] # Nil => since[j].to > since[k].from]_vars
  BY <1>1
<1>. QED
  BY <1>2, LimitsAlways, PTL DEF Spec, OldestGoesFirst
=============================================================================
