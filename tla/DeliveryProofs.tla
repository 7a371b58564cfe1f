--------------------------- MODULE DeliveryProofs ---------------------------
(* The agent keeps one copy of each sample, delivers it once when nothing  *)
(* fails, replays in order, and implements Delivery: for every queue size, *)
(* number of goroutines and bound.                                         *)
EXTENDS OfflineQueueProofs, FiniteSetTheorems

-----------------------------------------------------------------------------
(* Queues.  Popping, trimming and pruning all keep a suffix of a queue. *)

Suffix(w, q) ==
  /\ w \in Seq(Sample)
  /\ \E k \in 0 .. Len(q) :
       Len(w) = Len(q) - k /\ \A i \in 1 .. Len(w) : w[i] = q[i + k]

Distinct(q) == \A i, j \in DOMAIN q : q[i] = q[j] /\ q[i] # Later => i = j
Sorted(q)   == \A i, j \in DOMAIN q : i < j => q[i] <= q[j]
Known(q)    == \A s \in Range(q) : s <= taken

(* SubSeq from a position to the end is a suffix. *)
LEMMA SubSeqSuffix ==
  ASSUME NEW q \in Seq(Sample), NEW k \in 0 .. Len(q)
  PROVE  Suffix(SubSeq(q, k + 1, Len(q)), q)
<1>1. Len(q) \in Nat
  BY LenProperties
<1>2. \A i \in k + 1 .. Len(q) : q[i] \in Sample
  BY <1>1, ElementOfSeq
<1>3. /\ SubSeq(q, k + 1, Len(q)) \in Seq(Sample)
      /\ Len(SubSeq(q, k + 1, Len(q))) = Len(q) - k
  BY <1>1, <1>2, SubSeqProperties
<1>4. \A i \in 1 .. Len(q) - k : SubSeq(q, k + 1, Len(q))[i] = q[i + k]
  BY <1>1, <1>2, SubSeqProperties
<1>. QED
  BY <1>1, <1>3, <1>4 DEF Suffix

(* A queue is a suffix of itself. *)
LEMMA WholeSuffix ==
  ASSUME NEW q \in Seq(Sample)
  PROVE  Suffix(q, q)
<1>1. Len(q) \in Nat
  BY LenProperties
<1>2. 0 \in 0 .. Len(q) /\ Len(q) = Len(q) - 0 /\ \A i \in 1 .. Len(q) : q[i] = q[i + 0]
  BY <1>1
<1>. QED
  BY <1>2 DEF Suffix

(* A trimmed queue lacks at most its first sample. *)
LEMMA TrimSuffix ==
  ASSUME NEW q \in Seq(Sample), Len(q) <= MaxQueue
  PROVE  Suffix(Trim(q), q)
<1>1. MaxQueue \in Nat \ {0} /\ Len(q) \in Nat
  BY QueueAssumption, LenProperties
<1>2. CASE Len(q) >= MaxQueue
  <2>1. Len(q) - MaxQueue + 1 \in 0 .. Len(q) /\ (Len(q) - MaxQueue + 1) + 1 = Len(q) - MaxQueue + 2
    BY <1>1, <1>2
  <2>. QED
    BY <1>2, <2>1, SubSeqSuffix DEF Trim
<1>3. CASE ~(Len(q) >= MaxQueue)
  BY <1>3, WholeSuffix DEF Trim
<1>. QED
  BY <1>2, <1>3

(* A pruned queue lacks samples at its head only. *)
LEMMA PruneSuffix ==
  ASSUME NEW q \in Seq(Sample)
  PROVE  Suffix(Prune(q), q)
<1>1. MaxQueue \in Nat \ {0} /\ Len(q) \in Nat
  BY QueueAssumption, LenProperties
<1>2. CASE Len(q) > MaxQueue
  <2>1. Len(q) - MaxQueue \in 0 .. Len(q)
    BY <1>1, <1>2
  <2>. QED
    BY <1>2, <2>1, SubSeqSuffix DEF Prune
<1>3. CASE ~(Len(q) > MaxQueue)
  BY <1>3, WholeSuffix DEF Prune
<1>. QED
  BY <1>2, <1>3

(* What popping leaves is a suffix. *)
LEMMA TailSuffix ==
  ASSUME NEW q \in Seq(Sample), q # << >>
  PROVE  Suffix(Tail(q), q)
<1>1. Len(q) \in Nat \ {0}
  BY LenProperties, EmptySeq
<1>2. /\ Tail(q) \in Seq(Sample)
      /\ Len(Tail(q)) = Len(q) - 1
      /\ \A i \in 1 .. Len(Tail(q)) : Tail(q)[i] = q[i + 1]
  BY HeadTailProperties
<1>. QED
  BY <1>1, <1>2 DEF Suffix

(* A suffix of a queue has no sample the queue lacks, none twice that the  *)
(* queue has once, and the same order.                                     *)
LEMMA SuffixKeeps ==
  ASSUME NEW q \in Seq(Sample), NEW w, Suffix(w, q)
  PROVE  /\ Range(w) \subseteq Range(q)
         /\ Distinct(q) => Distinct(w)
         /\ Sorted(q) => Sorted(w)
<1>1. PICK k \in 0 .. Len(q) :
        Len(w) = Len(q) - k /\ \A i \in 1 .. Len(w) : w[i] = q[i + k]
  BY DEF Suffix
<1>2. w \in Seq(Sample) /\ Len(q) \in Nat /\ Len(w) \in Nat
  BY LenProperties DEF Suffix
<1>3. DOMAIN q = 1 .. Len(q) /\ DOMAIN w = 1 .. Len(w)
  BY <1>2, LenProperties
<1>4. \A i \in DOMAIN w : i + k \in DOMAIN q /\ w[i] = q[i + k] /\ i \in Nat
  BY <1>1, <1>2, <1>3
<1>5. Range(w) \subseteq Range(q)
  BY <1>4 DEF Range
<1>6. Distinct(q) => Distinct(w)
  <2> SUFFICES ASSUME Distinct(q), NEW i \in DOMAIN w, NEW j \in DOMAIN w,
                      w[i] = w[j], w[i] # Later
               PROVE  i = j
    BY DEF Distinct
  <2>1. i + k = j + k
    BY <1>4 DEF Distinct
  <2>. QED
    BY <1>4, <2>1
<1>7. Sorted(q) => Sorted(w)
  <2> SUFFICES ASSUME Sorted(q), NEW i \in DOMAIN w, NEW j \in DOMAIN w, i < j
               PROVE  w[i] <= w[j]
    BY DEF Sorted
  <2>1. i + k < j + k
    BY <1>4
  <2>. QED
    BY <1>4, <2>1 DEF Sorted
<1>. QED
  BY <1>5, <1>6, <1>7

(* The head is in the queue, and what is behind it is something else. *)
LEMMA HeadIsThere ==
  ASSUME NEW q \in Seq(Sample), q # << >>
  PROVE  /\ Head(q) \in Range(q) /\ Head(q) \in Sample
         /\ Distinct(q) /\ Head(q) # Later => Head(q) \notin Range(Tail(q))
<1>1. Len(q) \in Nat \ {0} /\ DOMAIN q = 1 .. Len(q) /\ Head(q) = q[1]
  BY LenProperties, EmptySeq, HeadTailProperties
<1>2. Head(q) \in Range(q) /\ Head(q) \in Sample
  BY <1>1, ElementOfSeq DEF Range
<1>3. ASSUME Distinct(q), Head(q) # Later, Head(q) \in Range(Tail(q)) PROVE FALSE
  <2>1. PICK i \in DOMAIN Tail(q) : Tail(q)[i] = Head(q)
    BY <1>3 DEF Range
  <2>2. /\ Tail(q) \in Seq(Sample) /\ Len(Tail(q)) = Len(q) - 1
        /\ \A j \in 1 .. Len(Tail(q)) : Tail(q)[j] = q[j + 1]
    BY HeadTailProperties
  <2>3. i \in 1 .. Len(q) - 1 /\ q[i + 1] = q[1]
    BY <1>1, <2>1, <2>2, LenProperties
  <2>4. i + 1 \in DOMAIN q /\ 1 \in DOMAIN q /\ i + 1 # 1
    BY <1>1, <2>3
  <2>. QED
    BY <1>1, <1>3, <2>3, <2>4 DEF Distinct
<1>. QED
  BY <1>2, <1>3

(* Storing a sample changes the count of no other. *)
LEMMA RecordKeeps ==
  ASSUME TypeOK, NEW x \in Sample, NEW s \in Sample, Record(x)
  PROVE  stored'[s] > 0 <=> stored[s] > 0 \/ s = x
<1>1. s # x => stored'[s] = stored[s]
  BY DEF TypeOK, Record
<1>. QED
  BY <1>1, RecordCounts

(* Appending a sample that is not there keeps samples distinct; appending  *)
(* the newest keeps the order.                                             *)
LEMMA AppendKeeps ==
  ASSUME NEW q \in Seq(Sample), NEW s \in Sample
  PROVE  /\ Range(Append(q, s)) = Range(q) \cup {s}
         /\ Distinct(q) /\ (s = Later \/ s \notin Range(q)) => Distinct(Append(q, s))
         /\ Sorted(q) /\ (\A x \in Range(q) : x <= s) => Sorted(Append(q, s))
<1>1. /\ Append(q, s) \in Seq(Sample)
      /\ Len(Append(q, s)) = Len(q) + 1
      /\ \A i \in 1 .. Len(q) : Append(q, s)[i] = q[i]
      /\ Append(q, s)[Len(q) + 1] = s
  BY AppendProperties
<1>2. Len(q) \in Nat /\ DOMAIN q = 1 .. Len(q) /\ DOMAIN Append(q, s) = 1 .. Len(q) + 1
  BY <1>1, LenProperties
<1>3. \A i \in DOMAIN Append(q, s) :
        \/ i \in DOMAIN q /\ Append(q, s)[i] = q[i]
        \/ i = Len(q) + 1 /\ Append(q, s)[i] = s
  BY <1>1, <1>2
<1>4. \A i \in DOMAIN q : i \in DOMAIN Append(q, s) /\ Append(q, s)[i] = q[i] /\ q[i] \in Range(q)
  BY <1>1, <1>2 DEF Range
<1>5. Range(Append(q, s)) = Range(q) \cup {s}
  BY <1>1, <1>2, <1>3, <1>4 DEF Range
<1>6. Distinct(q) /\ (s = Later \/ s \notin Range(q)) => Distinct(Append(q, s))
  BY <1>3, <1>4 DEF Distinct
<1>7. Sorted(q) /\ (\A x \in Range(q) : x <= s) => Sorted(Append(q, s))
  <2> SUFFICES ASSUME Sorted(q), \A x \in Range(q) : x <= s,
                      NEW i \in DOMAIN Append(q, s), NEW j \in DOMAIN Append(q, s), i < j
               PROVE  Append(q, s)[i] <= Append(q, s)[j]
    BY DEF Sorted
  <2>1. i \in DOMAIN q
    BY <1>2
  <2>2. CASE j \in DOMAIN q
    BY <1>4, <2>1, <2>2 DEF Sorted
  <2>3. CASE j = Len(q) + 1
    BY <1>1, <1>4, <2>1, <2>3
  <2>. QED
    BY <1>3, <2>2, <2>3
<1>. QED
  BY <1>5, <1>6, <1>7

-----------------------------------------------------------------------------
(* What a step does to the samples.  The eighteen actions of the agent are *)
(* eight as far as samples are concerned.                                  *)

FaultFree == lost = 0 /\ saveFails = 0

(* save() empties the file first, or cannot open it. *)
Saves == file' = << >> \/ (file' = file /\ ~FaultFree')

(* Samples stay where they are; at most the file is brought up to date. *)
Stays ==
  /\ UNCHANGED <<item, items, stored, taken, requeued>>
  /\ (Running' <=> Running)
  /\ file' = file \/ (Running /\ file' = items)

Queues(t) ==
  /\ Running /\ Running'
  /\ item[t] \in Sample
  /\ item' = [item EXCEPT ![t] = None]
  /\ items' = Enqueue(items, item[t])
  /\ requeued' = (requeued \/ t # Main)
  /\ Saves
  /\ UNCHANGED <<stored, taken>>

Pops(r) ==
  /\ Running /\ Running'
  /\ item[r] = None
  /\ items # << >>
  /\ item' = [item EXCEPT ![r] = Head(items)]
  /\ items' = Tail(items)
  /\ Saves
  /\ UNCHANGED <<stored, taken, requeued>>

Delivers(t) ==
  /\ Running /\ Running'
  /\ item[t] \in Sample
  /\ Record(item[t])
  /\ item' = [item EXCEPT ![t] = None]
  /\ UNCHANGED <<items, file, taken, requeued>>

DeliversUnknown(t) ==
  /\ Running /\ Running'
  /\ item[t] \in Sample
  /\ Record(item[t])
  /\ ~FaultFree'
  /\ UNCHANGED <<item, items, file, taken, requeued>>

Takes ==
  /\ Running /\ Running'
  /\ item[Main] = None
  /\ taken' = IF taken < Later THEN taken + 1 ELSE Later
  /\ item' = [item EXCEPT ![Main] = taken']
  /\ UNCHANGED <<items, file, stored, requeued>>

Starts ==
  /\ ~Running /\ Running'
  /\ items' = Prune(file)
  /\ Saves \/ (file' = file /\ items' = file)
  /\ UNCHANGED <<item, stored, taken, requeued>>

Dies ==
  /\ Running /\ ~Running'
  /\ items' = << >>
  /\ item' = [t \in Threads |-> None]
  /\ UNCHANGED <<file, stored, taken, requeued>>

Moves ==
  \/ Stays \/ Takes \/ Starts \/ Dies
  \/ \E t \in Threads : Queues(t) \/ Delivers(t) \/ DeliversUnknown(t)
  \/ \E r \in Replayers : Pops(r)

(* A replayer runs only while the agent does. *)
LEMMA ActiveRuns ==
  ASSUME IInv, NEW t \in Threads, pc[t] # "off", pc[t] # "down"
  PROVE  Running
BY ThreadNames DEF IInv, DownIsQuiet, SingleReplayer, Running, Main

(* A save that starts empties the file or is a fault. *)
LEMMA BeginSaveSaves ==
  ASSUME IInv, NEW t \in Threads, NEW w, NEW d, BeginSave(t, w, d), UNCHANGED lost
  PROVE  Saves
BY DEF BeginSave, Saves, FaultFree, IInv, TypeOK

(* Every step of the agent is one of the eight. *)
LEMMA StepMoves ==
  ASSUME IInv, [Next]_vars
  PROVE  Moves
<1> USE ThreadNames, QueueAssumption DEF IInv, TypeOK, Roles, HandsFull, Main
<1>1. ASSUME NEW t \in Threads, QueueMetric(t) PROVE Queues(t)
  <2>1. Running /\ Running'
    BY <1>1, ActiveRuns DEF QueueMetric, BeginSave, AfterQueue, Running
  <2>2. Saves
    BY <1>1, BeginSaveSaves DEF QueueMetric, world
  <2>. QED
    BY <1>1, <2>1, <2>2 DEF QueueMetric, Queues, world
<1>2. ASSUME NEW t \in Threads, QueueSaved(t) PROVE Stays
  <2>1. Running /\ Running'
    BY <1>2, ActiveRuns DEF QueueSaved, EndSave, AfterQueue, Running
  <2>. QED
    BY <1>2, <2>1 DEF QueueSaved, EndSave, Stays, world
<1>3. ASSUME NEW t \in Threads, Accepted(t) PROVE Delivers(t)
  <2>1. Running /\ Running'
    BY <1>3, ActiveRuns DEF Accepted, Running
  <2>. QED
    BY <1>3, <2>1 DEF Accepted, Delivers, queue
<1>4. ASSUME NEW t \in Threads, ReplyLost(t) PROVE DeliversUnknown(t)
  <2>1. Running /\ Running'
    BY <1>4, ActiveRuns DEF ReplyLost, AttemptFails, Running
  <2>2. ~FaultFree'
    BY <1>4 DEF ReplyLost, FaultFree
  <2>. QED
    BY <1>4, <2>1, <2>2 DEF ReplyLost, DeliversUnknown, queue
<1>5. ASSUME NEW t \in Threads, Unreachable(t) PROVE Stays
  BY <1>5 DEF Unreachable, AttemptFails, Stays, Running, queue, world
<1>6. ASSUME NEW t \in Threads, Refused(t) PROVE Stays
  BY <1>6 DEF Refused, Stays, Running, queue, world
<1>7. ASSUME NEW r \in Replayers, PopMetric(r) PROVE Pops(r)
  <2>1. Running /\ Running'
    BY <1>7, ActiveRuns DEF PopMetric, BeginSave, Running
  <2>2. Saves
    BY <1>7, BeginSaveSaves DEF PopMetric, world
  <2>. QED
    BY <1>7, <2>1, <2>2 DEF PopMetric, Pops, world
<1>8. ASSUME NEW r \in Replayers, PopSaved(r) PROVE Stays
  <2>1. Running /\ Running'
    BY <1>8, ActiveRuns DEF PopSaved, EndSave, Running
  <2>. QED
    BY <1>8, <2>1 DEF PopSaved, EndSave, Stays, world
<1>9. ASSUME NEW r \in Replayers, PopNothing(r) PROVE Stays
  BY <1>9 DEF PopNothing, Stays, Running, queue, world
<1>10. ASSUME NEW r \in Replayers, ReplayEnds(r) PROVE Stays
  BY <1>10 DEF ReplayEnds, Stays, Running, queue, world
<1>11. ASSUME Collect PROVE Takes
  BY <1>11 DEF Collect, Takes, Running, queue, world
<1>12. ASSUME CheckQueue PROVE Stays
  BY <1>12 DEF CheckQueue, Stays, Running, queue, world
<1>13. ASSUME SpawnReplayer PROVE Stays
  BY <1>13 DEF SpawnReplayer, Stays, Running, queue, world
<1>14. ASSUME ReplayerRuns PROVE Stays
  BY <1>14 DEF ReplayerRuns, Stays, Running, queue, world
<1>15. ASSUME StartAgent PROVE Starts
  <2>1. ~Running /\ Running'
    BY <1>15 DEF StartAgent, BeginSave, Running
  <2>2. CASE Len(file) > MaxQueue
    <3>1. Saves
      BY <1>15, <2>2, BeginSaveSaves DEF StartAgent, world
    <3>. QED
      BY <1>15, <2>1, <3>1 DEF StartAgent, Starts, world
  <2>3. CASE ~(Len(file) > MaxQueue)
    <3>1. Prune(file) = file
      BY <2>3 DEF Prune
    <3>. QED
      BY <1>15, <2>1, <2>3, <3>1 DEF StartAgent, Starts, world
  <2>. QED
    BY <2>2, <2>3
<1>16. ASSUME Crash PROVE Dies
  BY <1>16 DEF Crash, Dies, Running, world
<1>17. ASSUME LinkChanges PROVE Stays
  BY <1>17 DEF LinkChanges, Stays, Running, threads, queue
<1>18. ASSUME UNCHANGED vars PROVE Stays
  BY <1>18 DEF vars, Stays, Running, threads, queue, world
<1>. QED
  BY <1>1, <1>2, <1>3, <1>4, <1>5, <1>6, <1>7, <1>8, <1>9, <1>10, <1>11, <1>12, <1>13, <1>14, <1>15, <1>16, <1>17, <1>18 DEF Moves, Next, MainStep, Replay, Step

-----------------------------------------------------------------------------
(* The invariant that keeps the books on the samples.                      *)

(* What is in hand is not in the queue, and in one hand only.  Only the    *)
(* samples up to taken exist; the loop holds the newest.                   *)
Copies ==
  /\ Distinct(items) /\ Distinct(file)
  /\ \A t \in Threads : item[t] \notin {None, Later} =>
       /\ item[t] \notin Range(items)
       /\ \A u \in Threads : item[u] = item[t] => u = t

Existing ==
  /\ Known(items) /\ Known(file)
  /\ \A t \in Threads : item[t] <= taken
  /\ \A s \in Sample : stored[s] > 0 => s <= taken
  /\ item[Main] # None => item[Main] = taken

(* Without faults the file of a running agent is never ahead of its queue, *)
(* and what was stored is nowhere else.                                    *)
Once ==
  FaultFree =>
    /\ Running => Range(file) \subseteq Range(items)
    /\ \A s \in Tracked : stored[s] > 0 =>
         stored[s] = 1 /\ s \notin InHand /\ s \notin Range(items) /\ s \notin Range(file)

InOrder == ~requeued => Sorted(items) /\ Sorted(file)

Book == Copies /\ Existing /\ Once /\ InOrder

(* The empty queue satisfies whatever a queue should. *)
LEMMA EmptyIsFine ==
  /\ Range(<< >>) = {}
  /\ Distinct(<< >>) /\ Sorted(<< >>) /\ Known(<< >>)
BY DEF Range, Distinct, Sorted, Known

(* Before the first start only the file holds samples. *)
LEMMA BookInit == Init => Book
<1> SUFFICES ASSUME Init PROVE Book
  OBVIOUS
<1> USE ThreadNames, QueueAssumption, EmptyIsFine
<1>1. PICK n \in 0 .. MaxQueue + 1 : n <= MaxSamples /\ taken = n /\ file = [i \in 1 .. n |-> i]
  BY DEF Init
<1>2. Distinct(file) /\ Sorted(file) /\ Known(file)
  BY <1>1 DEF Distinct, Sorted, Known, Range
<1>3. Copies
  BY <1>2 DEF Init, Copies
<1>4. Existing
  BY <1>1, <1>2 DEF Init, Existing, None
<1>5. ~Running /\ \A s \in Tracked : ~(stored[s] > 0)
  BY DEF Init, Running, Tracked
<1>6. Once /\ InOrder
  BY <1>2, <1>5 DEF Init, Once, InOrder
<1>. QED
  BY <1>3, <1>4, <1>6 DEF Book

(* Faults are not forgotten. *)
LEMMA FaultsStay ==
  ASSUME IInv, [Next]_vars, FaultFree'
  PROVE  FaultFree
<1> USE DEF FaultFree, IInv, TypeOK
<1>1. ASSUME NEW t \in Threads, Step(t) PROVE lost' >= lost /\ saveFails' >= saveFails
  BY <1>1, QueueAssumption DEF Step, QueueMetric, BeginSave, QueueSaved, EndSave, Accepted,
     ReplyLost, Unreachable, Refused, queue, world
<1>2. ASSUME NEW r \in Replayers, Replay(r) PROVE lost' >= lost /\ saveFails' >= saveFails
  BY <1>1, <1>2, ThreadNames, QueueAssumption DEF Replay, PopMetric, BeginSave, PopSaved, EndSave,
     PopNothing, ReplayEnds, queue, world
<1>3. ASSUME MainStep PROVE lost' >= lost /\ saveFails' >= saveFails
  BY <1>1, <1>3, ThreadNames, QueueAssumption DEF MainStep, Collect, CheckQueue, SpawnReplayer,
     ReplayerRuns, StartAgent, BeginSave, queue, world
<1>4. ASSUME Crash \/ LinkChanges \/ UNCHANGED vars PROVE lost' >= lost /\ saveFails' >= saveFails
  BY <1>4, QueueAssumption DEF Crash, LinkChanges, vars, queue, world
<1>5. lost' >= lost /\ saveFails' >= saveFails
  BY <1>2, <1>3, <1>4 DEF Next
<1>. QED
  BY <1>5, QueueAssumption


(* Queueing moves a sample from a hand to the queue, and at most drops the *)
(* head.                                                                   *)
LEMMA QueuesRange ==
  ASSUME IInv, NEW t \in Threads, Queues(t)
  PROVE  /\ Suffix(Trim(items), items)
         /\ Trim(items) \in Seq(Sample)
         /\ items' = Append(Trim(items), item[t])
         /\ Range(items') = Range(Trim(items)) \cup {item[t]}
         /\ Range(items') \subseteq Range(items) \cup {item[t]}
<1>1. items \in Seq(Sample) /\ Len(items) <= MaxQueue
  BY DEF IInv, TypeOK
<1>2. Suffix(Trim(items), items) /\ Trim(items) \in Seq(Sample)
  BY <1>1, TrimSuffix, TrimFits
<1>. QED
  BY <1>1, <1>2, AppendKeeps, SuffixKeeps DEF Queues, Enqueue

(* Popping moves the head of the queue to a hand. *)
LEMMA PopsRange ==
  ASSUME IInv, NEW r \in Replayers, Pops(r)
  PROVE  /\ Suffix(items', items)
         /\ Range(items') \subseteq Range(items)
         /\ Head(items) \in Range(items) /\ Head(items) \in Sample
         /\ \A x \in Range(items) : x = Head(items) \/ x \in Range(items')
         /\ Distinct(items) /\ Head(items) # Later => Head(items) \notin Range(items')
<1>1. items \in Seq(Sample) /\ items # << >> /\ items' = Tail(items)
  BY DEF IInv, TypeOK, Pops
<1>2. Suffix(items', items) /\ Range(items') \subseteq Range(items)
  BY <1>1, TailSuffix, SuffixKeeps
<1>. QED
  BY <1>1, <1>2, HeadIsThere, RangeTail

(* Loading brings back nothing but what the file holds. *)
LEMMA StartsRange ==
  ASSUME IInv, Starts
  PROVE  Suffix(items', file) /\ Range(items') \subseteq Range(file)
BY PruneSuffix, SuffixKeeps DEF IInv, TypeOK, Starts

(* No step makes a second copy of a sample. *)
LEMMA CopiesStep ==
  ASSUME IInv, Copies, Existing, Moves
  PROVE  Copies'
<1> USE ThreadNames, EmptyIsFine
<1>0. items \in Seq(Sample) /\ file \in Seq(Sample) /\ item \in [Threads -> Sample \cup {None}]
  BY DEF IInv, TypeOK
<1>1. CASE Stays
  BY <1>1 DEF Stays, Copies
<1>2. CASE Takes
  <2>1. taken' # Later => taken' = taken + 1 /\ taken \in Nat
    BY <1>2, QueueAssumption DEF Takes, Later, IInv, TypeOK
  <2>2. taken' # Later => taken' \notin Range(items) /\ \A u \in Threads : item[u] # taken'
    BY <1>0, <2>1, LenProperties DEF Existing, Known, Sample, Range, None
  <2>. QED
    BY <1>0, <1>2, <2>2 DEF Takes, Copies
<1>3. CASE Starts
  <2>1. Distinct(items')
    BY <1>0, <1>3, StartsRange, SuffixKeeps DEF Copies
  <2>2. \A t \in Threads : item'[t] = None
    BY <1>3 DEF Starts, IInv, Running, DownIsQuiet, SingleReplayer, HandsFull, Main
  <2>. QED
    BY <1>3, <2>1, <2>2 DEF Starts, Saves, Copies
<1>4. CASE Dies
  BY <1>4 DEF Dies, Copies
<1>5. ASSUME NEW t \in Threads, Queues(t) PROVE Copies'
  <2>1. Distinct(Trim(items)) /\ Range(Trim(items)) \subseteq Range(items)
    BY <1>0, <1>5, QueuesRange, SuffixKeeps DEF Copies
  <2>2. item[t] \in Sample /\ (item[t] = Later \/ item[t] \notin Range(Trim(items)))
    BY <2>1, <1>5 DEF Queues, Copies, None, Sample
  <2>3. Distinct(items')
    BY <1>5, <2>1, <2>2, QueuesRange, AppendKeeps
  <2>4. \A u \in Threads : item'[u] \notin {None, Later} => u # t /\ item'[u] = item[u]
    BY <1>0, <1>5 DEF Queues
  <2>5. \A u \in Threads : item'[u] \notin {None, Later} => item[u] \notin Range(items')
    BY <1>5, <2>4, QueuesRange DEF Copies
  <2>. QED
    BY <1>5, <2>3, <2>4, <2>5 DEF Queues, Saves, Copies
<1>6. ASSUME NEW t \in Threads, Delivers(t) PROVE Copies'
  BY <1>0, <1>6 DEF Delivers, Copies
<1>7. ASSUME NEW t \in Threads, DeliversUnknown(t) PROVE Copies'
  BY <1>7 DEF DeliversUnknown, Copies
<1>8. ASSUME NEW r \in Replayers, Pops(r) PROVE Copies'
  <2>1. Distinct(items')
    BY <1>0, <1>8, PopsRange, SuffixKeeps DEF Copies
  <2>2. Head(items) # Later => Head(items) \notin Range(items')
    BY <1>8, PopsRange DEF Copies
  <2>3. \A u \in Threads : u # r => item'[u] = item[u]
    BY <1>0, <1>8 DEF Pops
  <2>4. \A u \in Threads : item[u] \notin {None, Later} => item[u] # Head(items) /\ item[u] \notin Range(items')
    BY <1>8, PopsRange DEF Copies
  <2>5. item'[r] = Head(items)
    BY <1>0, <1>8 DEF Pops
  <2>. QED
    BY <1>8, <2>1, <2>2, <2>3, <2>4, <2>5 DEF Pops, Saves, Copies
<1>. QED
  BY <1>1, <1>2, <1>3, <1>4, <1>5, <1>6, <1>7, <1>8 DEF Moves


(* No step invents a sample. *)
LEMMA ExistingStep ==
  ASSUME IInv, Existing, Moves
  PROVE  Existing'
<1> USE ThreadNames, EmptyIsFine
<1>0. /\ items \in Seq(Sample) /\ file \in Seq(Sample)
      /\ item \in [Threads -> Sample \cup {None}]
      /\ stored \in [Sample -> 0 .. 2]
      /\ taken \in 0 .. Later /\ Later \in Nat
  BY QueueAssumption DEF IInv, TypeOK, Later
<1>00. \A s \in Sample \cup {None} : s \in Nat
  BY QueueAssumption DEF Sample, None, Later
<1>1. CASE Stays
  BY <1>1 DEF Stays, Existing, Known
<1>2. CASE Takes
  <2>1. taken' \in Nat /\ taken <= taken' /\ None <= taken'
    BY <1>0, <1>2 DEF Takes, None
  <2>2. \A s \in Range(items) \cup Range(file) : s <= taken'
    <3>1. \A s \in Range(items) \cup Range(file) : s \in Nat /\ s <= taken
      BY <1>0, <1>00, LenProperties DEF Existing, Known, Range
    <3>. QED
      BY <1>0, <2>1, <3>1
  <2>3. \A t \in Threads : item'[t] <= taken'
    <3>1. \A t \in Threads : item[t] \in Nat /\ item[t] <= taken
      BY <1>0, <1>00 DEF Existing
    <3>. QED
      BY <1>0, <1>2, <2>1, <3>1 DEF Takes
  <2>4. \A s \in Sample : stored[s] > 0 => s <= taken'
    <3>1. \A s \in Sample : stored[s] > 0 => s \in Nat /\ s <= taken
      BY <1>00 DEF Existing
    <3>. QED
      BY <1>0, <2>1, <3>1
  <2>. QED
    BY <1>0, <1>2, <2>2, <2>3, <2>4 DEF Takes, Existing, Known
<1>3. CASE Starts
  BY <1>3, StartsRange DEF Starts, Saves, Existing, Known
<1>4. CASE Dies
  <2>1. None <= taken
    BY <1>0 DEF None
  <2>. QED
    BY <1>4, <2>1 DEF Dies, Existing, Known
<1>5. ASSUME NEW t \in Threads, Queues(t) PROVE Existing'
  <2>1. Known(items')
    BY <1>5, QueuesRange DEF Existing, Known, Queues
  <2>2. \A u \in Threads : item'[u] = item[u] \/ item'[u] = None
    BY <1>0, <1>5 DEF Queues
  <2>3. None <= taken
    BY <1>0 DEF None
  <2>. QED
    BY <1>5, <2>1, <2>2, <2>3 DEF Queues, Saves, Existing, Known
<1>6. ASSUME NEW t \in Threads, Delivers(t) \/ DeliversUnknown(t) PROVE Existing'
  <2>1. item[t] \in Sample /\ item[t] <= taken /\ Record(item[t])
    BY <1>6 DEF Delivers, DeliversUnknown, Existing
  <2>2. \A s \in Sample : stored'[s] > 0 => s <= taken
    BY <1>0, <2>1 DEF Record, Existing
  <2>3. \A u \in Threads : item'[u] = item[u] \/ item'[u] = None
    BY <1>0, <1>6 DEF Delivers, DeliversUnknown
  <2>4. None <= taken
    BY <1>0 DEF None
  <2>. QED
    BY <1>6, <2>2, <2>3, <2>4 DEF Delivers, DeliversUnknown, Existing, Known
<1>7. ASSUME NEW r \in Replayers, Pops(r) PROVE Existing'
  <2>1. Known(items') /\ Head(items) <= taken
    BY <1>7, PopsRange DEF Existing, Known, Pops
  <2>2. \A u \in Threads : item'[u] = item[u] \/ item'[u] = Head(items)
    BY <1>0, <1>7 DEF Pops
  <2>3. item'[Main] = item[Main]
    BY <1>0, <1>7 DEF Pops
  <2>. QED
    BY <1>7, <2>1, <2>2, <2>3 DEF Pops, Saves, Existing, Known
<1>. QED
  BY <1>1, <1>2, <1>3, <1>4, <1>5, <1>6, <1>7 DEF Moves

(* As long as no upload of a replayer fails, the order is kept. *)
LEMMA InOrderStep ==
  ASSUME IInv, Existing, InOrder, Moves
  PROVE  InOrder'
<1> SUFFICES ASSUME ~requeued' PROVE Sorted(items') /\ Sorted(file')
  BY DEF InOrder
<1> USE EmptyIsFine
<1>0. items \in Seq(Sample) /\ Len(items) <= MaxQueue /\ file \in Seq(Sample)
  BY DEF IInv, TypeOK
<1>1. CASE Stays
  BY <1>1 DEF Stays, InOrder
<1>2. CASE Takes
  BY <1>2 DEF Takes, InOrder
<1>3. CASE Starts
  BY <1>0, <1>3, StartsRange, SuffixKeeps DEF Starts, Saves, InOrder
<1>4. CASE Dies
  BY <1>4 DEF Dies, InOrder
<1>5. ASSUME NEW t \in Threads, Queues(t) PROVE Sorted(items') /\ Sorted(file')
  <2>1. t = Main /\ ~requeued
    BY <1>5 DEF Queues
  <2>2. item[t] = taken /\ item[t] \in Sample
    BY <1>5, <2>1 DEF Queues, Existing, None, Sample
  <2>3. Sorted(Trim(items)) /\ Range(Trim(items)) \subseteq Range(items)
    BY <1>0, <1>5, <2>1, QueuesRange, SuffixKeeps DEF InOrder
  <2>4. Sorted(Append(Trim(items), item[t]))
    BY <1>5, <2>2, <2>3, QueuesRange, AppendKeeps DEF Existing, Known
  <2>. QED
    BY <1>5, <2>1, <2>4, QueuesRange DEF Queues, Saves, InOrder
<1>6. ASSUME NEW t \in Threads, Delivers(t) \/ DeliversUnknown(t) PROVE Sorted(items') /\ Sorted(file')
  BY <1>6 DEF Delivers, DeliversUnknown, InOrder
<1>7. ASSUME NEW r \in Replayers, Pops(r) PROVE Sorted(items') /\ Sorted(file')
  BY <1>0, <1>7, PopsRange, SuffixKeeps DEF Pops, Saves, InOrder
<1>. QED
  BY <1>1, <1>2, <1>3, <1>4, <1>5, <1>6, <1>7 DEF Moves


(* Without faults what the backend has stored never comes back. *)
LEMMA OnceStep ==
  ASSUME IInv, Book, Moves, FaultFree' => FaultFree
  PROVE  Once'
<1> SUFFICES ASSUME FaultFree'
             PROVE  /\ Running' => Range(file') \subseteq Range(items')
                    /\ \A s \in Tracked' : stored'[s] > 0 =>
                         /\ stored'[s] = 1
                         /\ s \notin InHand' /\ s \notin Range(items') /\ s \notin Range(file')
  BY DEF Once
<1> DEFINE Goal ==
      /\ Running' => Range(file') \subseteq Range(items')
      /\ \A s \in Tracked' : stored'[s] > 0 =>
           /\ stored'[s] = 1
           /\ s \notin InHand' /\ s \notin Range(items') /\ s \notin Range(file')
<1> USE ThreadNames, EmptyIsFine
<1>0. /\ items \in Seq(Sample) /\ file \in Seq(Sample)
      /\ item \in [Threads -> Sample \cup {None}]
      /\ stored \in [Sample -> 0 .. 2]
      /\ taken \in 0 .. Later /\ Later \in Nat
  BY QueueAssumption DEF IInv, TypeOK, Later
<1>a. FaultFree /\ Copies /\ Existing
  BY DEF Book
<1>b. Running => Range(file) \subseteq Range(items)
  BY <1>a DEF Book, Once
<1>c. \A s \in Tracked : stored[s] > 0 =>
        stored[s] = 1 /\ s \notin InHand /\ s \notin Range(items) /\ s \notin Range(file)
  BY <1>a DEF Book, Once
<1>d. \A s \in Tracked : s \in Sample /\ s # Later /\ s # None /\ s \in Nat
  BY QueueAssumption DEF Tracked, Sample, None, Later
<1>1. CASE Stays
  BY <1>1, <1>b, <1>c DEF Stays, InHand, Tracked
<1>2. CASE Takes
  <2>1. \A s \in Tracked' : s \in Tracked \/ s = taken + 1
    BY <1>0, <1>2 DEF Takes, Tracked, Sample
  <2>2. \A s \in Tracked : s # taken'
    BY <1>0, <1>2 DEF Takes, Tracked
  <2>3. \A s \in Sample : s = taken + 1 => ~(stored[s] > 0)
    BY <1>0, <1>a DEF Existing
  <2>4. \A s \in Tracked : s \notin InHand => s \notin InHand'
    BY <1>0, <1>2, <2>2 DEF Takes, InHand
  <2>5. Tracked' \subseteq Sample
    BY DEF Tracked, Sample, Later
  <2>. QED
    BY <1>2, <1>b, <1>c, <2>1, <2>3, <2>4, <2>5 DEF Takes
<1>3. CASE Starts
  <2>1. Range(items') \subseteq Range(file)
    BY <1>3, StartsRange
  <2>2. Range(file') \subseteq Range(items') /\ Range(file') \subseteq Range(file)
    BY <1>3 DEF Starts, Saves
  <2>. QED
    BY <1>3, <1>c, <2>1, <2>2 DEF Starts, InHand, Tracked
<1>4. CASE Dies
  <2>1. InHand' = {}
    BY <1>4 DEF Dies, InHand
  <2>. QED
    BY <1>4, <1>c, <2>1 DEF Dies, Tracked
<1>5. ASSUME NEW t \in Threads, Queues(t) PROVE Goal
  <2>1. file' = << >>
    BY <1>5 DEF Queues, Saves
  <2>2. \A s \in Tracked : s \notin InHand => s # item[t] /\ s \notin InHand'
    BY <1>0, <1>5, <1>d DEF Queues, InHand
  <2>3. \A s \in Tracked : s \notin InHand /\ s \notin Range(items) => s \notin Range(items')
    BY <1>5, <2>2, QueuesRange
  <2>. QED
    BY <1>5, <1>c, <2>1, <2>2, <2>3 DEF Queues, Tracked
<1>6. ASSUME NEW t \in Threads, Delivers(t) PROVE Goal
  <2>1. item[t] \in Sample /\ Record(item[t]) /\ item' = [item EXCEPT ![t] = None]
    BY <1>6 DEF Delivers
  <2>2. Range(file) \subseteq Range(items)
    BY <1>6, <1>b DEF Delivers
  <2>3. item[t] \in Tracked => /\ stored[item[t]] = 0
                               /\ item[t] \notin Range(items)
                               /\ \A u \in Threads : item[u] = item[t] => u = t
    <3>1. item[t] \in InHand /\ item[t] # None
      BY <2>1 DEF InHand, Sample, None
    <3>. QED
      BY <1>0, <1>a, <1>c, <1>d, <2>1, <3>1 DEF Copies
  <2>4. item[t] \in Tracked => stored'[item[t]] = 1 /\ item[t] \notin InHand'
    BY <1>0, <1>d, <2>1, <2>3 DEF Record, InHand
  <2>5. \A s \in Tracked : s # item[t] => stored'[s] = stored[s] /\ (s \notin InHand => s \notin InHand')
    BY <1>0, <1>d, <2>1 DEF Record, InHand
  <2>. QED
    BY <1>6, <1>c, <2>2, <2>3, <2>4, <2>5 DEF Delivers, Tracked
<1>7. ASSUME NEW t \in Threads, DeliversUnknown(t) PROVE Goal
  BY <1>7 DEF DeliversUnknown
<1>8. ASSUME NEW r \in Replayers, Pops(r) PROVE Goal
  <2>1. file' = << >>
    BY <1>8 DEF Pops, Saves
  <2>2. \A s \in Tracked : s \notin InHand /\ s \notin Range(items) =>
          s \notin InHand' /\ s \notin Range(items')
    BY <1>0, <1>8, <1>d, PopsRange DEF Pops, InHand
  <2>. QED
    BY <1>8, <1>c, <2>1, <2>2 DEF Pops, Tracked
<1>. QED
  BY <1>1, <1>2, <1>3, <1>4, <1>5, <1>6, <1>7, <1>8 DEF Moves

(* The books are kept by every step. *)
LEMMA BookStep == IInv /\ Book /\ [Next]_vars => Book'
<1> SUFFICES ASSUME IInv, Book, [Next]_vars PROVE Book'
  OBVIOUS
<1>1. Moves
  BY StepMoves
<1>2. FaultFree' => FaultFree
  BY FaultsStay
<1>. QED
  BY <1>1, <1>2, CopiesStep, ExistingStep, InOrderStep, OnceStep DEF Book

(* The books are in order in every behaviour. *)
THEOREM Bookkeeping == Spec => []Book
BY BookInit, BookStep, Invariance, PTL DEF Spec

-----------------------------------------------------------------------------
(* The invariants the runs check.                                          *)

(* A set without two different elements has at most one. *)
LEMMA AtMostOne ==
  ASSUME NEW S, \A x, y \in S : x = y
  PROVE  Cardinality(S) \in {0, 1} /\ (S = {} => Cardinality(S) = 0)
<1>1. CASE S = {}
  BY <1>1, FS_EmptySet
<1>2. CASE S # {}
  <2>1. PICK x \in S : S = {x}
    BY <1>2
  <2>. QED
    BY <1>2, <2>1, FS_Singleton
<1>. QED
  BY <1>1, <1>2

(* However often a sample is popped, posted in vain, put back and loaded   *)
(* again, the running agent has one copy of it.                            *)
THEOREM NoSecondCopy == Spec => []OneCopy
<1>1. ASSUME IInv, Book PROVE OneCopy
  <2> SUFFICES ASSUME NEW s \in Tracked
               PROVE  Cardinality({i \in DOMAIN items : items[i] = s})
                        + Cardinality({t \in Threads : item[t] = s}) <= 1
    BY DEF OneCopy
  <2> DEFINE Places == {i \in DOMAIN items : items[i] = s}
             Holders == {t \in Threads : item[t] = s}
  <2>1. s # Later /\ s # None
    BY QueueAssumption DEF Tracked, Sample, None, Later
  <2>2. \A i, j \in Places : i = j
    BY <1>1, <2>1 DEF Book, Copies, Distinct
  <2>3. \A t, u \in Holders : t = u
    BY <1>1, <2>1 DEF Book, Copies
  <2>4. Places = {} \/ Holders = {}
    <3>1. ASSUME NEW i \in Places, NEW t \in Holders PROVE FALSE
      <4>1. s \in Range(items)
        BY DEF Range
      <4>. QED
        BY <1>1, <2>1, <4>1 DEF Book, Copies
    <3>. QED
      BY <3>1
  <2> HIDE DEF Places, Holders
  <2>5. Cardinality(Places) \in {0, 1} /\ (Places = {} => Cardinality(Places) = 0)
    BY <2>2, AtMostOne
  <2>6. Cardinality(Holders) \in {0, 1} /\ (Holders = {} => Cardinality(Holders) = 0)
    BY <2>3, AtMostOne
  <2>7. Cardinality(Places) + Cardinality(Holders) <= 1
    BY <2>4, <2>5, <2>6
  <2>. QED
    BY <2>7 DEF Places, Holders
<1>. QED
  BY <1>1, Invariance, Bookkeeping, PTL

(* Retries, replays and restarts alone store no sample twice: it takes a   *)
(* reply lost after the backend stored the sample, or a save that failed.  *)
THEOREM StoredOnce == Spec => []OnlyFaultsDuplicate
<1>1. ASSUME IInv, Book PROVE OnlyFaultsDuplicate
  <2> SUFFICES ASSUME FaultFree, NEW s \in Tracked
               PROVE  stored[s] <= 1
    BY DEF OnlyFaultsDuplicate, FaultFree
  <2>1. stored[s] \in 0 .. 2
    BY <1>1 DEF IInv, TypeOK, Tracked
  <2>. QED
    BY <1>1, <2>1 DEF Book, Once
<1>. QED
  BY <1>1, Invariance, Bookkeeping, PTL

(* Until a replayed upload fails the queue is in the order of collection.  *)
THEOREM OrderKept == Spec => []ReplayInOrder
<1>1. Book => ReplayInOrder
  BY DEF Book, InOrder, Sorted, ReplayInOrder
<1>. QED
  BY <1>1, Bookkeeping, PTL


-----------------------------------------------------------------------------
(* The agent implements Delivery.                                          *)

(* One hand is filled or emptied: Hands counts it. *)
LEMMA HandsCount ==
  ASSUME IInv, IInv', NEW t \in Threads, NEW v \in Sample \cup {None},
         item' = [item EXCEPT ![t] = v]
  PROVE  /\ Hands \in Nat
         /\ item[t] # None /\ v = None => Hands' = Hands - 1 /\ Hands > 0
         /\ item[t] = None /\ v # None => Hands' = Hands + 1
<1>. USE ThreadNames
<1>1. item \in [Threads -> Sample \cup {None}]
  BY DEF IInv, TypeOK
<1>2. \A r, q \in Replayers : item[r] # None /\ item[q] # None => r = q
  BY DEF IInv, SingleReplayer, HandsFull
<1>3. \A r, q \in Replayers : item'[r] # None /\ item'[q] # None => r = q
  BY DEF IInv, SingleReplayer, HandsFull
<1>4. CASE t = Main
  BY <1>1, <1>4 DEF Hands
<1>5. CASE t \in Replayers
  <2>1. \A r \in Replayers : r # t => item'[r] = item[r]
    BY <1>1, <1>5
  <2>2. item'[Main] = item[Main] /\ item'[t] = v
    BY <1>1, <1>5
  <2>3. item[t] # None /\ v = None =>
          (\E r \in Replayers : item[r] # None) /\ ~(\E r \in Replayers : item'[r] # None)
    BY <1>2, <1>5, <2>1, <2>2
  <2>4. item[t] = None /\ v # None =>
          (\E r \in Replayers : item'[r] # None) /\ ~(\E r \in Replayers : item[r] # None)
    BY <1>3, <1>5, <2>1, <2>2
  <2>. QED
    BY <1>5, <2>2, <2>3, <2>4 DEF Hands
<1>. QED
  BY <1>4, <1>5

(* Nobody has a sample in hand while the agent is down. *)
LEMMA DownHands ==
  ASSUME IInv, ~Running
  PROVE  Hands = 0 /\ \A t \in Threads : item[t] = None
<1>1. \A t \in Threads : item[t] = None
  BY ThreadNames DEF IInv, Running, DownIsQuiet, SingleReplayer, HandsFull, Main
<1>. QED
  BY <1>1, ThreadNames DEF Hands

(* Only a full queue is trimmed, and of its head alone. *)
LEMMA TrimIsTail ==
  ASSUME NEW q \in Seq(Sample), Len(q) <= MaxQueue
  PROVE  IF Len(q) = MaxQueue
         THEN q # << >> /\ Trim(q) = Tail(q) /\ Len(Trim(q)) = MaxQueue - 1
         ELSE Trim(q) = q
<1>1. MaxQueue \in Nat \ {0} /\ Len(q) \in Nat
  BY QueueAssumption, LenProperties
<1>2. CASE Len(q) = MaxQueue
  <2>1. q # << >>
    BY <1>1, <1>2, EmptySeq
  <2>2. Trim(q) = SubSeq(q, 2, Len(q))
    BY <1>1, <1>2 DEF Trim
  <2>3. \A i \in 2 .. Len(q) : q[i] \in Sample
    BY <1>1, ElementOfSeq
  <2>4. /\ SubSeq(q, 2, Len(q)) \in Seq(Sample)
        /\ Len(SubSeq(q, 2, Len(q))) = Len(q) - 1
        /\ \A i \in 1 .. Len(q) - 1 : SubSeq(q, 2, Len(q))[i] = q[i + 1]
    BY <1>1, <1>2, <2>3, SubSeqProperties
  <2>5. /\ Tail(q) \in Seq(Sample) /\ Len(Tail(q)) = Len(q) - 1
        /\ \A i \in 1 .. Len(Tail(q)) : Tail(q)[i] = q[i + 1]
    BY <2>1, HeadTailProperties
  <2>6. SubSeq(q, 2, Len(q)) = Tail(q)
    BY <2>4, <2>5, SeqEqual
  <2>. QED
    BY <1>2, <2>1, <2>2, <2>4, <2>6
<1>3. CASE Len(q) # MaxQueue
  BY <1>1, <1>3 DEF Trim
<1>. QED
  BY <1>2, <1>3

(* A pruned queue is as long as the bound allows. *)
LEMMA PruneLength ==
  ASSUME NEW q \in Seq(Sample)
  PROVE  IF Len(q) > MaxQueue THEN Len(Prune(q)) = MaxQueue ELSE Prune(q) = q
<1>1. MaxQueue \in Nat \ {0} /\ Len(q) \in Nat
  BY QueueAssumption, LenProperties
<1>2. CASE Len(q) > MaxQueue
  <2>1. \A i \in Len(q) - MaxQueue + 1 .. Len(q) : q[i] \in Sample
    BY <1>1, <1>2, ElementOfSeq
  <2>. QED
    BY <1>1, <1>2, <2>1, SubSeqProperties DEF Prune
<1>3. CASE ~(Len(q) > MaxQueue)
  BY <1>3 DEF Prune
<1>. QED
  BY <1>2, <1>3

(* An installed agent that was never started is an initial store. *)
LEMMA RefineInit == Init => Store!Init
<1> SUFFICES ASSUME Init PROVE Store!Init
  OBVIOUS
<1>1. PICK n \in 0 .. MaxQueue + 1 : n <= MaxSamples /\ taken = n /\ file = [i \in 1 .. n |-> i]
  BY DEF Init
<1>2. ~Running
  BY ThreadNames DEF Init, Running
<1>3. Tracked = 1 .. n
  BY <1>1, QueueAssumption DEF Tracked, Sample, Later
<1>4. Range(file) = 1 .. n
  BY <1>1 DEF Range
<1>5. Held = 1 .. n
  BY <1>2, <1>3, <1>4 DEF Held
<1>6. Delivered = {}
  BY DEF Init, Delivered, Tracked
<1>7. Waiting \in Nat
  BY <1>1, <1>2, InitIInv, LenProperties DEF Waiting, IInv, TypeOK
<1>. QED
  BY <1>1, <1>2, <1>3, <1>5, <1>6, <1>7, QueueAssumption DEF Store!Init


(* Every step of the agent is a step of the store, or none. *)
LEMMA RefineStep ==
  ASSUME IInv, IInv', Book, Moves
  PROVE  [Store!Next]_Store!vars
<1> USE ThreadNames
<1>0. /\ items \in Seq(Sample) /\ Len(items) <= MaxQueue /\ Len(items) \in Nat
      /\ file \in Seq(Sample) /\ Len(file) \in Nat
      /\ item \in [Threads -> Sample \cup {None}]
      /\ MaxQueue \in Nat \ {0}
  BY QueueAssumption, LenProperties DEF IInv, TypeOK
<1>a. Copies /\ Existing
  BY DEF Book
<1>b. \A s \in Tracked : s \in Sample /\ s # Later /\ s # None
  BY QueueAssumption DEF Tracked, Sample, None, Later
<1>c. None \notin Sample /\ Sample \subseteq Nat
  BY QueueAssumption DEF Sample, None, Later
<1>1. CASE Stays
  <2>1. InHand' = InHand /\ Hands' = Hands /\ Tracked' = Tracked /\ Delivered' = Delivered
    BY <1>1 DEF Stays, InHand, Hands, Tracked, Delivered
  <2>2. Held' = Held /\ Waiting' = Waiting
    BY <1>1, <2>1 DEF Stays, Held, Waiting
  <2>. QED
    BY <1>1, <2>1, <2>2 DEF Stays, Store!vars, Running
<1>2. CASE Takes
  <2>1. taken \in 0 .. Later /\ Later = MaxSamples + 1 /\ MaxSamples \in Nat
    BY QueueAssumption DEF IInv, TypeOK, Later
  <2>2. taken' \in Sample
    BY <1>2, <2>1 DEF Takes, Sample
  <2>3. Waiting' = Waiting + 1
    <3>1. Hands \in Nat /\ Hands' = Hands + 1
      BY <1>2, <1>c, <2>2, HandsCount DEF Takes
    <3>. QED
      BY <1>0, <1>2, <3>1 DEF Takes, Waiting
  <2>4. \A s \in Tracked' : ~(stored[s] > 0) \/ s \in Tracked
    BY <1>a, <1>2, <2>1 DEF Existing, Takes, Tracked, Sample
  <2>5. Tracked \subseteq Tracked'
    BY <1>2, <2>1 DEF Takes, Tracked, Sample
  <2>6. Delivered' = Delivered
    BY <1>2, <2>4, <2>5 DEF Takes, Delivered
  <2>7. \A s : s \in InHand' <=> s \in InHand \/ s = taken'
    BY <1>0, <1>2, <2>2 DEF Takes, InHand, Sample, None
  <2>8. CASE taken' = Later
    <3>1. Tracked' = Tracked
      BY <1>2, <2>1, <2>8 DEF Takes, Tracked, Sample
    <3>2. Held' = Held
      BY <1>2, <1>b, <2>7, <2>8, <3>1 DEF Takes, Held
    <3>. QED
      BY <1>2, <2>3, <2>6, <3>1, <3>2 DEF Takes, Store!Next, Store!Collect, Running
  <2>9. CASE taken' # Later
    <3>1. taken' = taken + 1 /\ taken' \in 1 .. MaxSamples
      BY <1>2, <2>1, <2>9 DEF Takes
    <3>2. Tracked' = Tracked \cup {taken'} /\ taken' \notin Tracked
      BY <2>1, <2>2, <2>9, <3>1 DEF Tracked, Sample
    <3>3. \A s \in Range(items) : s # taken'
      <4>1. \A s \in Range(items) : s \in Nat /\ s <= taken
        <5>1. Range(items) \subseteq Sample
          BY <1>0, LenProperties, ElementOfSeq DEF Range
        <5>. QED
          BY <1>a, <1>c, <5>1 DEF Existing, Known
      <4>. QED
        BY <2>1, <3>1, <4>1
    <3>4. Held' = Held \cup {taken'}
      BY <1>2, <2>7, <3>2, <3>3 DEF Takes, Held
    <3>. QED
      BY <1>2, <2>3, <2>6, <3>1, <3>2, <3>4 DEF Takes, Store!Next, Store!Collect, Running
  <2>. QED
    BY <2>8, <2>9
<1>3. CASE Starts
  <2>1. Tracked' = Tracked /\ Delivered' = Delivered
    BY <1>3 DEF Starts, Tracked, Delivered
  <2>2. Hands' = 0 /\ InHand' = {}
    <3>1. \A t \in Threads : item'[t] = None
      BY <1>3, DownHands DEF Starts
    <3>. QED
      BY <3>1 DEF Hands, InHand
  <2>3. Waiting = Len(file) /\ Waiting' = Len(Prune(file))
    <3>1. Len(Prune(file)) \in Nat
      BY <1>0, PruneFits, LenProperties
    <3>. QED
      BY <1>3, <2>2, <3>1 DEF Starts, Waiting
  <2>4. Held' = Tracked \cap Range(Prune(file)) /\ Held = Tracked \cap Range(file)
    BY <1>3, <2>1, <2>2 DEF Starts, Held
  <2>5. Held' \subseteq Held
    BY <1>3, <2>4, StartsRange DEF Starts
  <2>6. IF Waiting > MaxQueue THEN Waiting' = MaxQueue /\ Held' \in SUBSET Held
                              ELSE Waiting' = Waiting /\ Held' = Held
    BY <1>0, <2>3, <2>4, <2>5, PruneLength
  <2>. QED
    BY <1>3, <2>1, <2>6 DEF Starts, Store!Next, Store!Restart, Running
<1>4. CASE Dies
  <2>1. Tracked' = Tracked /\ Delivered' = Delivered
    BY <1>4 DEF Dies, Tracked, Delivered
  <2>2. Held' \in SUBSET Tracked
    BY <2>1 DEF Held
  <2>3. Waiting' \in Nat
    BY <1>0, <1>4 DEF Dies, Waiting
  <2>. QED
    BY <1>4, <2>1, <2>2, <2>3 DEF Dies, Store!Next, Store!Crash, Running
<1>5. ASSUME NEW t \in Threads, Queues(t) PROVE [Store!Next]_Store!vars
  <2>1. Tracked' = Tracked /\ Delivered' = Delivered
    BY <1>5 DEF Queues, Tracked, Delivered
  <2>2. Hands \in Nat /\ Hands' = Hands - 1 /\ Hands > 0
    BY <1>5, <1>c, HandsCount DEF Queues
  <2>3. \A s \in Tracked : s \in InHand <=> s \in InHand' \/ s = item[t]
    BY <1>0, <1>5, <1>b DEF Queues, InHand
  <2>4. /\ Trim(items) \in Seq(Sample) /\ Len(Trim(items)) \in Nat
        /\ Len(items') = Len(Trim(items)) + 1
        /\ Range(items') = Range(Trim(items)) \cup {item[t]}
    <3>1. item[t] \in Sample /\ Trim(items) \in Seq(Sample) /\ items' = Append(Trim(items), item[t])
      BY <1>5, QueuesRange DEF Queues
    <3>2. Len(Append(Trim(items), item[t])) = Len(Trim(items)) + 1
      BY <3>1, AppendProperties
    <3>. QED
      BY <1>5, <3>1, <3>2, QueuesRange, LenProperties
  <2>5. CASE Len(items) # MaxQueue
    <3>1. Trim(items) = items
      BY <1>0, <2>5, TrimIsTail
    <3>2. Held' = Held
      BY <1>5, <2>1, <2>3, <2>4, <3>1 DEF Queues, Held
    <3>3. Waiting' = Waiting
      BY <1>0, <1>5, <2>2, <2>4, <3>1 DEF Queues, Waiting
    <3>. QED
      BY <1>5, <2>1, <3>2, <3>3 DEF Queues, Store!vars, Running
  <2>6. CASE Len(items) = MaxQueue
    <3>1. items # << >> /\ Trim(items) = Tail(items) /\ Len(Trim(items)) = MaxQueue - 1
      BY <1>0, <2>6, TrimIsTail
    <3>2. Waiting > MaxQueue /\ Waiting' = Waiting - 1
      <4>1. Waiting = Len(items) + Hands /\ Waiting' = Len(items') + Hands'
        BY <1>5 DEF Queues, Waiting
      <4>. QED
        BY <1>0, <2>2, <2>4, <2>6, <3>1, <4>1
    <3>3. Held' = Held \ ({Head(items)} \cap Held)
      <4>1. \A x \in Range(items) : x = Head(items) \/ x \in Range(Trim(items))
        BY <1>0, <3>1, RangeTail
      <4>2. Range(Trim(items)) \subseteq Range(items)
        BY <1>5, QueuesRange, SuffixKeeps, <1>0
      <4>3. Head(items) \in Tracked => Head(items) \notin Range(Trim(items)) /\ Head(items) \notin InHand
        <5>1. Head(items) \in Range(items)
          BY <1>0, <3>1, HeadIsThere
        <5>2. Head(items) # Later => Head(items) \notin Range(Tail(items))
          BY <1>0, <1>a, <3>1, HeadIsThere DEF Copies
        <5>. QED
          BY <1>a, <1>b, <3>1, <5>1, <5>2 DEF Copies, InHand
      <4>4. item[t] \in Tracked => item[t] # Head(items)
        BY <2>3, <4>3
      <4>. QED
        BY <1>5, <2>1, <2>3, <2>4, <4>1, <4>2, <4>3, <4>4 DEF Queues, Held
    <3>4. {Head(items)} \cap Held \in Store!One
      BY DEF Store!One
    <3>. QED
      BY <1>5, <2>1, <3>2, <3>3, <3>4 DEF Queues, Store!Next, Store!Discard, Running
  <2>. QED
    BY <2>5, <2>6
<1>6. ASSUME NEW t \in Threads, Delivers(t) PROVE [Store!Next]_Store!vars
  <2>1. Tracked' = Tracked
    BY <1>6 DEF Delivers, Tracked
  <2>2. Hands \in Nat /\ Hands' = Hands - 1
    BY <1>6, <1>c, HandsCount DEF Delivers
  <2>3. Waiting' = Waiting - 1
    BY <1>0, <1>6, <2>2 DEF Delivers, Waiting
  <2>4. \A s \in Tracked : s \in InHand' <=> s \in InHand /\ s # item[t]
    BY <1>0, <1>6, <1>a, <1>b DEF Delivers, InHand, Copies
  <2>5. item[t] \in Tracked => item[t] \in Held /\ item[t] \notin Range(items)
    BY <1>6, <1>a, <1>b DEF Delivers, Held, InHand, Copies
  <2>6. Held' = Held \ ({item[t]} \cap Held)
    BY <1>6, <2>1, <2>4, <2>5 DEF Delivers, Held
  <2>7. Delivered' = Delivered \cup ({item[t]} \cap Held)
    <3>1. \A s \in Tracked : stored'[s] > 0 <=> stored[s] > 0 \/ s = item[t]
      BY <1>6, <1>b, RecordKeeps DEF Delivers, IInv
    <3>. QED
      BY <2>1, <2>5, <3>1 DEF Delivered, Held
  <2>8. {item[t]} \cap Held \in Store!One
    BY DEF Store!One
  <2>. QED
    BY <1>6, <2>1, <2>3, <2>6, <2>7, <2>8 DEF Delivers, Store!Next, Store!Deliver, Running
<1>7. ASSUME NEW t \in Threads, DeliversUnknown(t) PROVE [Store!Next]_Store!vars
  <2>1. Tracked' = Tracked /\ InHand' = InHand /\ Hands' = Hands
    BY <1>7 DEF DeliversUnknown, Tracked, InHand, Hands
  <2>2. Held' = Held /\ Waiting' = Waiting
    BY <1>7, <2>1 DEF DeliversUnknown, Held, Waiting
  <2>3. item[t] \in Tracked => item[t] \in Held
    BY <1>7, <1>b DEF DeliversUnknown, Held, InHand
  <2>4. Delivered' = Delivered \cup ({item[t]} \cap Held)
    <3>1. \A s \in Tracked : stored'[s] > 0 <=> stored[s] > 0 \/ s = item[t]
      BY <1>7, <1>b, RecordKeeps DEF DeliversUnknown, IInv
    <3>. QED
      BY <2>1, <2>3, <3>1 DEF Delivered, Held
  <2>5. {item[t]} \cap Held \in Store!One
    BY DEF Store!One
  <2>. QED
    BY <1>7, <2>1, <2>2, <2>4, <2>5 DEF DeliversUnknown, Store!Next, Store!Deliver, Running
<1>8. ASSUME NEW r \in Replayers, Pops(r) PROVE [Store!Next]_Store!vars
  <2>1. Tracked' = Tracked /\ Delivered' = Delivered
    BY <1>8 DEF Pops, Tracked, Delivered
  <2>2. Head(items) \in Sample /\ Head(items) # None
    BY <1>8, PopsRange DEF Sample, None
  <2>3. Hands \in Nat /\ Hands' = Hands + 1
    BY <1>8, <2>2, HandsCount DEF Pops
  <2>4. Len(items') = Len(items) - 1
    BY <1>0, <1>8, HeadTailProperties DEF Pops
  <2>5. Waiting' = Waiting
    BY <1>0, <1>8, <2>3, <2>4 DEF Pops, Waiting
  <2>6. \A s \in Tracked : s \in InHand' <=> s \in InHand \/ s = Head(items)
    BY <1>0, <1>8, <1>b, <2>2 DEF Pops, InHand
  <2>7. Held' = Held
    BY <1>8, <2>1, <2>6, PopsRange DEF Pops, Held
  <2>. QED
    BY <1>8, <2>1, <2>5, <2>7 DEF Pops, Store!vars, Running
<1>. QED
  BY <1>1, <1>2, <1>3, <1>4, <1>5, <1>6, <1>7, <1>8 DEF Moves

(* The agent delivers at least once: Delivery, for every queue size,       *)
(* number of goroutines, number of attempts and bound on the faults.       *)
THEOREM AgentDelivers == Spec => DeliversAtLeastOnce
<1>1. Init => Store!Init
  BY RefineInit
<1>2. IInv /\ IInv' /\ Book /\ [Next]_vars => [Store!Next]_Store!vars
  BY StepMoves, RefineStep
<1>. QED
  BY <1>1, <1>2, Invariance, Bookkeeping, PTL DEF Spec, DeliversAtLeastOnce, Store!Spec

=============================================================================
