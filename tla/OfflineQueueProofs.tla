------------------------- MODULE OfflineQueueProofs -------------------------
(* Proofs about OfflineQueue, for every queue size, number of goroutines   *)
(* and bound.                                                              *)
EXTENDS OfflineQueue, SequenceTheorems, TLAPS

-----------------------------------------------------------------------------
(* Lemmas about the operators on the queue. *)

(* A trimmed queue has room for one more sample. *)
LEMMA TrimFits ==
  ASSUME NEW q \in Seq(Sample), Len(q) <= MaxQueue
  PROVE  /\ Trim(q) \in Seq(Sample)
         /\ Len(Trim(q)) <= MaxQueue - 1
         /\ Len(Trim(q)) <= Len(q)
<1>1. MaxQueue \in Nat \ {0} /\ Len(q) \in Nat
  BY QueueAssumption, LenProperties
<1>2. CASE Len(q) >= MaxQueue
  <2>1. \A i \in Len(q) - MaxQueue + 2 .. Len(q) : q[i] \in Sample
    BY <1>1, <1>2, ElementOfSeq
  <2>2. /\ SubSeq(q, Len(q) - MaxQueue + 2, Len(q)) \in Seq(Sample)
        /\ Len(SubSeq(q, Len(q) - MaxQueue + 2, Len(q))) <= MaxQueue - 1
    BY <1>1, <2>1, SubSeqProperties
  <2>. QED
    BY <1>1, <1>2, <2>2 DEF Trim
<1>3. CASE Len(q) < MaxQueue
  BY <1>1, <1>3 DEF Trim
<1>. QED
  BY <1>1, <1>2, <1>3

(* QueueMetric never lets the queue grow beyond its bound. *)
LEMMA EnqueueFits ==
  ASSUME NEW q \in Seq(Sample), Len(q) <= MaxQueue, NEW s \in Sample
  PROVE  /\ Enqueue(q, s) \in Seq(Sample)
         /\ Len(Enqueue(q, s)) <= MaxQueue
<1>1. MaxQueue \in Nat /\ Len(Trim(q)) \in Nat
  BY QueueAssumption, TrimFits, LenProperties
<1>. QED
  BY <1>1, TrimFits, AppendProperties DEF Enqueue

(* What QueueMetric throws out are samples. *)
LEMMA EvictedAreSamples ==
  ASSUME NEW q \in Seq(Sample), Len(q) <= MaxQueue
  PROVE  {q[i] : i \in 1 .. Len(q) - Len(Trim(q))} \subseteq Sample
<1>1. Len(q) \in Nat /\ Len(Trim(q)) \in Nat
  BY TrimFits, LenProperties
<1>. QED
  BY <1>1, ElementOfSeq

(* load() keeps no more than the bound, and all of a queue that fits. *)
LEMMA PruneFits ==
  ASSUME NEW q \in Seq(Sample)
  PROVE  /\ Prune(q) \in Seq(Sample)
         /\ Len(Prune(q)) <= MaxQueue
         /\ {q[i] : i \in 1 .. Len(q) - Len(Prune(q))} \subseteq Sample
<1>1. MaxQueue \in Nat /\ Len(q) \in Nat
  BY QueueAssumption, LenProperties
<1>2. /\ Prune(q) \in Seq(Sample)
      /\ Len(Prune(q)) <= MaxQueue
  <2>1. CASE Len(q) > MaxQueue
    <3>1. \A i \in Len(q) - MaxQueue + 1 .. Len(q) : q[i] \in Sample
      BY <1>1, <2>1, ElementOfSeq
    <3>2. /\ SubSeq(q, Len(q) - MaxQueue + 1, Len(q)) \in Seq(Sample)
          /\ Len(SubSeq(q, Len(q) - MaxQueue + 1, Len(q))) <= MaxQueue
      BY <1>1, <3>1, SubSeqProperties
    <3>. QED
      BY <2>1, <3>2 DEF Prune
  <2>2. CASE Len(q) <= MaxQueue
    BY <1>1, <2>2 DEF Prune
  <2>. QED
    BY <1>1, <2>1, <2>2
<1>3. Len(Prune(q)) \in Nat
  BY <1>2, LenProperties
<1>. QED
  BY <1>1, <1>2, <1>3, ElementOfSeq

-----------------------------------------------------------------------------
(* The inductive invariant.  Types alone do not carry it: what a thread has *)
(* in hand, who holds the mutex and whether a replayer runs all follow from *)
(* where the threads stand.                                                 *)

(* The metrics loop and a replayer each keep to their own code. *)
Roles ==
  /\ pc[Main] \in {"down", "collect", "post", "queue", "queuewrite", "check", "spawn"}
  /\ \A r \in Replayers :
       pc[r] \in {"off", "pop", "popwrite", "post", "queue", "queuewrite", "exit"}

(* A thread has a sample in hand exactly while it posts or queues one. *)
HandsFull ==
  \A t \in Threads :
    IF pc[t] \in {"post", "queue", "popwrite"} THEN item[t] \in Sample ELSE item[t] = None

(* The mutex is held exactly while the file is written. *)
MutexHeld == \A t \in Threads : pc[t] \in {"queuewrite", "popwrite"} <=> mu = t

(* No replayer survives the agent. *)
DownIsQuiet == pc[Main] = "down" => ~isReplaying

IInv ==
  /\ TypeOK /\ Roles /\ HandsFull /\ MutexHeld /\ DownIsQuiet
  /\ SingleReplayer /\ FileMirrorsQueue

(* The main loop, the replayers and the free mutex have different names. *)
LEMMA ThreadNames ==
  /\ Main \in Threads /\ Main \notin Replayers
  /\ Replayers \subseteq Threads
  /\ Nobody \notin Threads
  /\ \A t \in Threads : t = Main \/ t \in Replayers
BY QueueAssumption DEF Main, Threads, Nobody

(* The empty queue, and the empty file that save() begins with. *)
LEMMA EmptyQueue == << >> \in Seq(Sample) /\ Len(<< >>) = 0
BY EmptySeq

(* What save() changes keeps its type. *)
LEMMA BeginSaveType ==
  ASSUME TypeOK, NEW t \in Threads, NEW w \in PCs, NEW d \in PCs, BeginSave(t, w, d)
  PROVE  /\ pc' \in [Threads -> PCs]
         /\ mu' \in Threads \cup {Nobody}
         /\ file' \in Seq(Sample) /\ Len(file') <= MaxQueue + 1
         /\ saveFails' \in 0 .. MaxSaveFails
<1>1. CASE file' = << >> /\ UNCHANGED saveFails
  BY <1>1, EmptyQueue, QueueAssumption DEF TypeOK, BeginSave
<1>2. CASE saveFails < MaxSaveFails /\ saveFails' = saveFails + 1 /\ UNCHANGED <<mu, file>>
  <2>1. saveFails' \in 0 .. MaxSaveFails
    BY <1>2, QueueAssumption DEF TypeOK
  <2>2. pc' = [pc EXCEPT ![t] = w] \/ pc' = [pc EXCEPT ![t] = d]
    BY DEF BeginSave
  <2>. QED
    BY <1>2, <2>1, <2>2 DEF TypeOK
<1>. QED
  BY <1>1, <1>2 DEF BeginSave

(* A failed attempt keeps the types. *)
LEMMA AttemptType ==
  ASSUME TypeOK, NEW t \in Threads, AttemptFails(t)
  PROVE  pc' \in [Threads -> PCs] /\ try' \in [Threads -> 1 .. MaxAttempts]
<1>1. MaxAttempts \in Nat \ {0} /\ try[t] \in 1 .. MaxAttempts
  BY QueueAssumption DEF TypeOK
<1>2. CASE try[t] < MaxAttempts
  <2>1. try[t] + 1 \in 1 .. MaxAttempts
    BY <1>1, <1>2
  <2>. QED
    BY <1>2, <2>1 DEF AttemptFails, TypeOK
<1>3. CASE ~(try[t] < MaxAttempts)
  <2>1. 1 \in 1 .. MaxAttempts
    BY <1>1
  <2>. QED
    BY <1>3, <2>1 DEF AttemptFails, TypeOK, PCs
<1>. QED
  BY <1>2, <1>3

(* A sample the backend stores keeps the types. *)
LEMMA RecordType ==
  ASSUME TypeOK, NEW s \in Sample, Record(s)
  PROVE  stored' \in [Sample -> 0 .. 2]
<1>1. stored[s] \in 0 .. 2
  BY DEF TypeOK
<1>2. (IF stored[s] = 2 THEN 2 ELSE stored[s] + 1) \in 0 .. 2
  BY <1>1
<1>. QED
  BY <1>2 DEF TypeOK, Record

(* A sample that is stored counts, and no count goes back to zero. *)
LEMMA RecordCounts ==
  ASSUME TypeOK, NEW x \in Sample, NEW s \in Sample, Record(x)
  PROVE  stored'[x] > 0 /\ (stored[s] > 0 => stored'[s] > 0)
<1>1. stored[x] \in 0 .. 2 /\ stored[s] \in 0 .. 2
  BY DEF TypeOK
<1>2. stored'[x] = IF stored[x] = 2 THEN 2 ELSE stored[x] + 1
  BY DEF TypeOK, Record
<1>3. s # x => stored'[s] = stored[s]
  BY DEF TypeOK, Record
<1>. QED
  BY <1>1, <1>2, <1>3

(* A freshly installed or restarted agent satisfies the invariant. *)
LEMMA InitIInv == Init => IInv
<1> SUFFICES ASSUME Init PROVE IInv
  OBVIOUS
<1> USE ThreadNames, QueueAssumption
<1>1. TypeOK
  <2>1. PICK n \in 0 .. MaxQueue + 1 :
          n <= MaxSamples /\ taken = n /\ file = [i \in 1 .. n |-> i]
    BY DEF Init
  <2>2. file \in Seq(Sample) /\ Len(file) = n
    BY <2>1, IsASeq DEF Sample, Later
  <2>3. taken \in 0 .. Later /\ 1 \in 1 .. MaxAttempts
    BY <2>1 DEF Later
  <2>4. items \in Seq(Sample) /\ Len(items) = 0
    BY EmptySeq DEF Init
  <2>5. stored \in [Sample -> 0 .. 2] /\ try \in [Threads -> 1 .. MaxAttempts]
    BY <2>3 DEF Init
  <2>6. pc \in [Threads -> PCs] /\ item \in [Threads -> Sample \cup {None}]
    BY DEF Init, PCs
  <2>7. /\ linkChanges \in 0 .. MaxLinkChanges /\ lost \in 0 .. MaxLost
        /\ saveFails \in 0 .. MaxSaveFails /\ crashes \in 0 .. MaxCrashes
    BY DEF Init
  <2>8. Len(file) <= MaxQueue + 1 /\ Len(items) <= MaxQueue
    BY <2>1, <2>2, <2>4
  <2>. QED
    BY <2>2, <2>3, <2>4, <2>5, <2>6, <2>7, <2>8 DEF Init, TypeOK
<1>2. Roles /\ HandsFull /\ MutexHeld /\ DownIsQuiet
  BY DEF Init, Roles, HandsFull, MutexHeld, DownIsQuiet, Main
<1>3. SingleReplayer /\ FileMirrorsQueue
  BY DEF Init, SingleReplayer, FileMirrorsQueue, Main
<1>. QED
  BY <1>1, <1>2, <1>3 DEF IInv

(* Each thread keeps to its own code, and takes a sample before it posts or *)
(* queues one.                                                              *)
LEMMA RolesStep ==
  ASSUME TypeOK, Roles, HandsFull, [Next]_vars
  PROVE  Roles' /\ HandsFull'
<1> USE ThreadNames DEF TypeOK, Roles, HandsFull, Main
<1>1. ASSUME NEW t \in Threads, QueueMetric(t) PROVE Roles' /\ HandsFull'
  BY <1>1 DEF QueueMetric, BeginSave, AfterQueue, threads, queue, world
<1>2. ASSUME NEW t \in Threads, QueueSaved(t) PROVE Roles' /\ HandsFull'
  BY <1>2 DEF QueueSaved, EndSave, AfterQueue, threads, queue, world
<1>3. ASSUME NEW t \in Threads, Accepted(t) PROVE Roles' /\ HandsFull'
  BY <1>3 DEF Accepted, Record, threads, queue, world
<1>4. ASSUME NEW t \in Threads, ReplyLost(t) PROVE Roles' /\ HandsFull'
  BY <1>4 DEF ReplyLost, Record, AttemptFails, threads, queue, world
<1>5. ASSUME NEW t \in Threads, Unreachable(t) PROVE Roles' /\ HandsFull'
  BY <1>5 DEF Unreachable, AttemptFails, threads, queue, world
<1>6. ASSUME NEW t \in Threads, Refused(t) PROVE Roles' /\ HandsFull'
  BY <1>6 DEF Refused, threads, queue, world
<1>7. ASSUME NEW r \in Replayers, PopMetric(r) PROVE Roles' /\ HandsFull'
  <2>1. Head(items) \in Sample
    BY <1>7, HeadTailProperties DEF PopMetric
  <2>. QED
    BY <1>7, <2>1 DEF PopMetric, BeginSave, world
<1>8. ASSUME NEW r \in Replayers, PopSaved(r) PROVE Roles' /\ HandsFull'
  BY <1>8 DEF PopSaved, EndSave, threads, queue, world
<1>9. ASSUME NEW r \in Replayers, PopNothing(r) PROVE Roles' /\ HandsFull'
  BY <1>9 DEF PopNothing, threads, queue, world
<1>10. ASSUME NEW r \in Replayers, ReplayEnds(r) PROVE Roles' /\ HandsFull'
  BY <1>10 DEF ReplayEnds, threads, queue, world
<1>11. CASE Collect
  <2>1. taken' \in Sample
    BY <1>11, QueueAssumption DEF Collect, Sample, Later
  <2>. QED
    BY <1>11, <2>1 DEF Collect, queue, world
<1>12. CASE CheckQueue
  BY <1>12 DEF CheckQueue, threads, queue, world
<1>13. CASE SpawnReplayer
  BY <1>13 DEF SpawnReplayer, threads, queue, world
<1>14. CASE ReplayerRuns
  BY <1>14 DEF ReplayerRuns, threads, queue, world
<1>15. CASE StartAgent
  BY <1>15 DEF StartAgent, BeginSave, threads, queue, world
<1>16. CASE Crash
  BY <1>16 DEF Crash, threads, queue, world
<1>17. CASE LinkChanges
  BY <1>17 DEF LinkChanges, threads, queue, world
<1>18. CASE UNCHANGED vars
  BY <1>18 DEF vars, threads, queue, world
<1>. QED
  BY <1>1, <1>2, <1>3, <1>4, <1>5, <1>6, <1>7, <1>8, <1>9, <1>10, <1>11, <1>12, <1>13, <1>14, <1>15, <1>16, <1>17, <1>18 DEF Next, MainStep, Replay, Step

(* Every step keeps the types. *)
LEMMA TypeStep ==
  ASSUME TypeOK, Roles, HandsFull, [Next]_vars
  PROVE  TypeOK'
<1> USE ThreadNames, QueueAssumption DEF TypeOK, PCs, Main
<1>1. ASSUME NEW t \in Threads, QueueMetric(t) PROVE TypeOK'
  <2>1. item[t] \in Sample
    BY <1>1 DEF QueueMetric, HandsFull
  <2>2. items' \in Seq(Sample) /\ Len(items') <= MaxQueue
    BY <1>1, <2>1, EnqueueFits DEF QueueMetric
  <2>3. evicted' \in SUBSET Sample
    BY <1>1, EvictedAreSamples DEF QueueMetric
  <2>. QED
    BY <1>1, <2>2, <2>3, BeginSaveType DEF QueueMetric, AfterQueue, world
<1>2. ASSUME NEW t \in Threads, QueueSaved(t) PROVE TypeOK'
  BY <1>2 DEF QueueSaved, EndSave, AfterQueue, threads, queue, world
<1>3. ASSUME NEW t \in Threads, Accepted(t) PROVE TypeOK'
  <2>1. item[t] \in Sample
    BY <1>3 DEF Accepted, HandsFull
  <2>2. stored' \in [Sample -> 0 .. 2]
    BY <1>3, <2>1, RecordType DEF Accepted
  <2>. QED
    BY <1>3, <2>2 DEF Accepted, queue
<1>4. ASSUME NEW t \in Threads, ReplyLost(t) PROVE TypeOK'
  <2>1. item[t] \in Sample
    BY <1>4 DEF ReplyLost, HandsFull
  <2>2. stored' \in [Sample -> 0 .. 2]
    BY <1>4, <2>1, RecordType DEF ReplyLost
  <2>. QED
    BY <1>4, <2>2, AttemptType DEF ReplyLost, queue
<1>5. ASSUME NEW t \in Threads, Unreachable(t) PROVE TypeOK'
  BY <1>5, AttemptType DEF Unreachable, queue, world
<1>6. ASSUME NEW t \in Threads, Refused(t) PROVE TypeOK'
  BY <1>6 DEF Refused, threads, queue, world
<1>7. ASSUME NEW r \in Replayers, PopMetric(r) PROVE TypeOK'
  <2>1. Head(items) \in Sample /\ items' \in Seq(Sample) /\ Len(items') <= MaxQueue
    BY <1>7, HeadTailProperties, LenProperties DEF PopMetric
  <2>. QED
    BY <1>7, <2>1, BeginSaveType DEF PopMetric, world
<1>8. ASSUME NEW r \in Replayers, PopSaved(r) PROVE TypeOK'
  BY <1>8 DEF PopSaved, EndSave, threads, queue, world
<1>9. ASSUME NEW r \in Replayers, PopNothing(r) PROVE TypeOK'
  BY <1>9 DEF PopNothing, threads, queue, world
<1>10. ASSUME NEW r \in Replayers, ReplayEnds(r) PROVE TypeOK'
  BY <1>10 DEF ReplayEnds, threads, queue, world
<1>11. CASE Collect
  <2>1. taken' \in 0 .. Later /\ taken' \in Sample
    BY <1>11 DEF Collect, Sample, Later
  <2>. QED
    BY <1>11, <2>1 DEF Collect, queue, world
<1>12. CASE CheckQueue
  BY <1>12 DEF CheckQueue, threads, queue, world
<1>13. CASE SpawnReplayer
  BY <1>13 DEF SpawnReplayer, threads, queue, world
<1>14. CASE ReplayerRuns
  BY <1>14 DEF ReplayerRuns, threads, queue, world
<1>15. CASE StartAgent
  <2>1. /\ items' \in Seq(Sample) /\ Len(items') <= MaxQueue
        /\ evicted' \in SUBSET Sample
    BY <1>15, PruneFits DEF StartAgent
  <2>. QED
    BY <1>15, <2>1, BeginSaveType DEF StartAgent, world
<1>16. CASE Crash
  <2>1. crashes' \in 0 .. MaxCrashes
    BY <1>16 DEF Crash
  <2>2. 1 \in 1 .. MaxAttempts
    OBVIOUS
  <2>3. /\ pc' \in [Threads -> PCs] /\ item' \in [Threads -> Sample \cup {None}]
        /\ try' \in [Threads -> 1 .. MaxAttempts]
    BY <1>16, <2>2 DEF Crash
  <2>4. items' \in Seq(Sample) /\ Len(items') <= MaxQueue
    BY <1>16, EmptyQueue DEF Crash
  <2>5. mu' \in Threads \cup {Nobody} /\ isReplaying' \in BOOLEAN
    BY <1>16 DEF Crash
  <2>. QED
    BY <1>16, <2>1, <2>3, <2>4, <2>5 DEF Crash, world
<1>17. CASE LinkChanges
  BY <1>17 DEF LinkChanges, threads, queue, world
<1>18. CASE UNCHANGED vars
  BY <1>18 DEF vars, threads, queue, world
<1>. QED
  BY <1>1, <1>2, <1>3, <1>4, <1>5, <1>6, <1>7, <1>8, <1>9, <1>10, <1>11, <1>12, <1>13, <1>14, <1>15, <1>16, <1>17, <1>18 DEF Next, MainStep, Replay, Step

(* The mutex follows the threads that write. *)
LEMMA MutexStep ==
  ASSUME TypeOK, Roles, MutexHeld, DownIsQuiet, SingleReplayer, [Next]_vars
  PROVE  MutexHeld'
<1> USE ThreadNames DEF TypeOK, Roles, MutexHeld, Main
<1>1. ASSUME NEW t \in Threads, QueueMetric(t) PROVE MutexHeld'
  BY <1>1 DEF QueueMetric, BeginSave, AfterQueue, threads, queue, world
<1>2. ASSUME NEW t \in Threads, QueueSaved(t) PROVE MutexHeld'
  BY <1>2 DEF QueueSaved, EndSave, AfterQueue, threads, queue, world
<1>3. ASSUME NEW t \in Threads, Accepted(t) PROVE MutexHeld'
  BY <1>3 DEF Accepted, Record, threads, queue, world
<1>4. ASSUME NEW t \in Threads, ReplyLost(t) PROVE MutexHeld'
  BY <1>4 DEF ReplyLost, Record, AttemptFails, threads, queue, world
<1>5. ASSUME NEW t \in Threads, Unreachable(t) PROVE MutexHeld'
  BY <1>5 DEF Unreachable, AttemptFails, threads, queue, world
<1>6. ASSUME NEW t \in Threads, Refused(t) PROVE MutexHeld'
  BY <1>6 DEF Refused, threads, queue, world
<1>7. ASSUME NEW r \in Replayers, PopMetric(r) PROVE MutexHeld'
  BY <1>7 DEF PopMetric, BeginSave, threads, queue, world
<1>8. ASSUME NEW r \in Replayers, PopSaved(r) PROVE MutexHeld'
  BY <1>8 DEF PopSaved, EndSave, threads, queue, world
<1>9. ASSUME NEW r \in Replayers, PopNothing(r) PROVE MutexHeld'
  BY <1>9 DEF PopNothing, threads, queue, world
<1>10. ASSUME NEW r \in Replayers, ReplayEnds(r) PROVE MutexHeld'
  BY <1>10 DEF ReplayEnds, threads, queue, world
<1>11. CASE Collect
  BY <1>11 DEF Collect, threads, queue, world
<1>12. CASE CheckQueue
  BY <1>12 DEF CheckQueue, threads, queue, world
<1>13. CASE SpawnReplayer
  BY <1>13 DEF SpawnReplayer, threads, queue, world
<1>14. CASE ReplayerRuns
  BY <1>14 DEF ReplayerRuns, threads, queue, world
<1>15. CASE StartAgent
  <2>1. \A r \in Replayers : pc[r] = "off"
    BY <1>15 DEF StartAgent, DownIsQuiet, SingleReplayer
  <2>. QED
    BY <1>15, <2>1 DEF StartAgent, BeginSave, threads, world
<1>16. CASE Crash
  BY <1>16 DEF Crash, threads, queue, world
<1>17. CASE LinkChanges
  BY <1>17 DEF LinkChanges, threads, queue, world
<1>18. CASE UNCHANGED vars
  BY <1>18 DEF vars, threads, queue, world
<1>. QED
  BY <1>1, <1>2, <1>3, <1>4, <1>5, <1>6, <1>7, <1>8, <1>9, <1>10, <1>11, <1>12, <1>13, <1>14, <1>15, <1>16, <1>17, <1>18 DEF Next, MainStep, Replay, Step

(* The flag says whether a replayer runs, and keeps a second one out. *)
LEMMA ReplayerStep ==
  ASSUME TypeOK, Roles, DownIsQuiet, SingleReplayer, [Next]_vars
  PROVE  SingleReplayer' /\ DownIsQuiet'
<1> USE ThreadNames DEF TypeOK, Roles, SingleReplayer, DownIsQuiet, Main
<1>1. ASSUME NEW t \in Threads, QueueMetric(t) PROVE SingleReplayer' /\ DownIsQuiet'
  <2>1. CASE pc' = [pc EXCEPT ![t] = "queuewrite"]
    BY <1>1, <2>1 DEF QueueMetric
  <2>2. CASE pc' = [pc EXCEPT ![t] = AfterQueue(t)]
    BY <1>1, <2>2 DEF QueueMetric, AfterQueue
  <2>. QED
    BY <1>1, <2>1, <2>2 DEF QueueMetric, BeginSave
<1>2. ASSUME NEW t \in Threads, QueueSaved(t) PROVE SingleReplayer' /\ DownIsQuiet'
  BY <1>2 DEF QueueSaved, EndSave, AfterQueue, threads, queue, world
<1>3. ASSUME NEW t \in Threads, Accepted(t) PROVE SingleReplayer' /\ DownIsQuiet'
  BY <1>3 DEF Accepted, Record, threads, queue, world
<1>4. ASSUME NEW t \in Threads, ReplyLost(t) PROVE SingleReplayer' /\ DownIsQuiet'
  <2>1. pc[t] = "post" /\ UNCHANGED isReplaying
    BY <1>4 DEF ReplyLost
  <2>2. pc' = pc \/ pc' = [pc EXCEPT ![t] = "queue"]
    BY <1>4 DEF ReplyLost, AttemptFails
  <2>3. CASE pc' = pc
    BY <2>1, <2>3
  <2>4. CASE pc' = [pc EXCEPT ![t] = "queue"]
    BY <2>1, <2>4
  <2>. QED
    BY <2>2, <2>3, <2>4
<1>5. ASSUME NEW t \in Threads, Unreachable(t) PROVE SingleReplayer' /\ DownIsQuiet'
  BY <1>5 DEF Unreachable, AttemptFails, threads, queue, world
<1>6. ASSUME NEW t \in Threads, Refused(t) PROVE SingleReplayer' /\ DownIsQuiet'
  BY <1>6 DEF Refused, threads, queue, world
<1>7. ASSUME NEW r \in Replayers, PopMetric(r) PROVE SingleReplayer' /\ DownIsQuiet'
  BY <1>7 DEF PopMetric, BeginSave, threads, queue, world
<1>8. ASSUME NEW r \in Replayers, PopSaved(r) PROVE SingleReplayer' /\ DownIsQuiet'
  BY <1>8 DEF PopSaved, EndSave, threads, queue, world
<1>9. ASSUME NEW r \in Replayers, PopNothing(r) PROVE SingleReplayer' /\ DownIsQuiet'
  BY <1>9 DEF PopNothing, threads, queue, world
<1>10. ASSUME NEW r \in Replayers, ReplayEnds(r) PROVE SingleReplayer' /\ DownIsQuiet'
  BY <1>10 DEF ReplayEnds, threads, queue, world
<1>11. CASE Collect
  BY <1>11 DEF Collect, threads, queue, world
<1>12. CASE CheckQueue
  BY <1>12 DEF CheckQueue, threads, queue, world
<1>13. CASE SpawnReplayer
  BY <1>13 DEF SpawnReplayer, threads, queue, world
<1>14. CASE ReplayerRuns
  BY <1>14 DEF ReplayerRuns, threads, queue, world
<1>15. CASE StartAgent
  BY <1>15 DEF StartAgent, BeginSave, threads, queue, world
<1>16. CASE Crash
  <2>1. \A r \in Replayers : pc'[r] = "off"
    BY <1>16 DEF Crash
  <2>2. isReplaying' = FALSE
    BY <1>16 DEF Crash
  <2>. QED
    BY <2>1, <2>2
<1>17. CASE LinkChanges
  BY <1>17 DEF LinkChanges, threads, queue, world
<1>18. CASE UNCHANGED vars
  BY <1>18 DEF vars, threads, queue, world
<1>. QED
  BY <1>1, <1>2, <1>3, <1>4, <1>5, <1>6, <1>7, <1>8, <1>9, <1>10, <1>11, <1>12, <1>13, <1>14, <1>15, <1>16, <1>17, <1>18 DEF Next, MainStep, Replay, Step

(* Whatever changes the queue takes the mutex, and gives it back with the   *)
(* file equal to the queue, unless a save failed.                           *)
LEMMA FileStep ==
  ASSUME IInv, [Next]_vars
  PROVE  FileMirrorsQueue'
<1> USE ThreadNames, QueueAssumption DEF IInv, TypeOK, Roles, MutexHeld, FileMirrorsQueue, Main
<1>1. ASSUME NEW t \in Threads, QueueMetric(t) PROVE FileMirrorsQueue'
  BY <1>1 DEF QueueMetric, BeginSave, AfterQueue, threads, queue, world
<1>2. ASSUME NEW t \in Threads, QueueSaved(t) PROVE FileMirrorsQueue'
  BY <1>2 DEF QueueSaved, EndSave, AfterQueue, threads, queue, world
<1>3. ASSUME NEW t \in Threads, Accepted(t) PROVE FileMirrorsQueue'
  BY <1>3 DEF Accepted, Record, threads, queue, world
<1>4. ASSUME NEW t \in Threads, ReplyLost(t) PROVE FileMirrorsQueue'
  BY <1>4 DEF ReplyLost, Record, AttemptFails, threads, queue, world
<1>5. ASSUME NEW t \in Threads, Unreachable(t) PROVE FileMirrorsQueue'
  BY <1>5 DEF Unreachable, AttemptFails, threads, queue, world
<1>6. ASSUME NEW t \in Threads, Refused(t) PROVE FileMirrorsQueue'
  BY <1>6 DEF Refused, threads, queue, world
<1>7. ASSUME NEW r \in Replayers, PopMetric(r) PROVE FileMirrorsQueue'
  BY <1>7 DEF PopMetric, BeginSave, threads, queue, world
<1>8. ASSUME NEW r \in Replayers, PopSaved(r) PROVE FileMirrorsQueue'
  BY <1>8 DEF PopSaved, EndSave, threads, queue, world
<1>9. ASSUME NEW r \in Replayers, PopNothing(r) PROVE FileMirrorsQueue'
  BY <1>9 DEF PopNothing, threads, queue, world
<1>10. ASSUME NEW r \in Replayers, ReplayEnds(r) PROVE FileMirrorsQueue'
  BY <1>10 DEF ReplayEnds, threads, queue, world
<1>11. CASE Collect
  BY <1>11 DEF Collect, threads, queue, world
<1>12. CASE CheckQueue
  BY <1>12 DEF CheckQueue, threads, queue, world
<1>13. CASE SpawnReplayer
  BY <1>13 DEF SpawnReplayer, threads, queue, world
<1>14. CASE ReplayerRuns
  BY <1>14 DEF ReplayerRuns, threads, queue, world
<1>15. CASE StartAgent
  <2>1. CASE Len(file) > MaxQueue
    <3>1. mu' = Main \/ saveFails' = saveFails + 1
      BY <1>15, <2>1 DEF StartAgent, BeginSave
    <3>. QED
      BY <3>1
  <2>2. CASE ~(Len(file) > MaxQueue)
    <3>1. Prune(file) = file
      BY <2>2 DEF Prune
    <3>. QED
      BY <1>15, <2>2, <3>1 DEF StartAgent
  <2>. QED
    BY <2>1, <2>2
<1>16. CASE Crash
  BY <1>16 DEF Crash, threads, queue, world
<1>17. CASE LinkChanges
  BY <1>17 DEF LinkChanges, threads, queue, world
<1>18. CASE UNCHANGED vars
  BY <1>18 DEF vars, threads, queue, world
<1>. QED
  BY <1>1, <1>2, <1>3, <1>4, <1>5, <1>6, <1>7, <1>8, <1>9, <1>10, <1>11, <1>12, <1>13, <1>14, <1>15, <1>16, <1>17, <1>18 DEF Next, MainStep, Replay, Step

-----------------------------------------------------------------------------
(* The invariant is inductive. *)
LEMMA StepIInv == IInv /\ [Next]_vars => IInv'
BY TypeStep, RolesStep, MutexStep, ReplayerStep, FileStep DEF IInv

(* The invariant holds in every behaviour of the agent. *)
THEOREM Invariance == Spec => []IInv
<1>1. Init => IInv
  BY InitIInv
<1>2. IInv /\ [Next]_vars => IInv'
  BY StepIInv
<1>. QED
  BY <1>1, <1>2, PTL DEF Spec

(* Types: the queue never exceeds its bound, whatever the interleaving of   *)
(* the metrics loop, the replayers, crashes and failed saves.               *)
THEOREM TypeCorrect == Spec => []TypeOK
<1>1. IInv => TypeOK
  BY DEF IInv
<1>. QED
  BY <1>1, Invariance, PTL

(* At most one goroutine replays, and isReplaying tells whether one does,   *)
(* for any number of goroutines started over time.                          *)
THEOREM OneReplayer == Spec => []SingleReplayer
<1>1. IInv => SingleReplayer
  BY DEF IInv
<1>. QED
  BY <1>1, Invariance, PTL

(* Outside the critical sections the file is the queue, unless a save has   *)
(* failed: a crash there loses no queued sample.                            *)
THEOREM FileIsQueue == Spec => []FileMirrorsQueue
<1>1. IInv => FileMirrorsQueue
  BY DEF IInv
<1>. QED
  BY <1>1, Invariance, PTL

-----------------------------------------------------------------------------
(* No sample is lost below capacity. *)

(* An evicting step evicts something. *)
LEMMA NoEviction ==
  ASSUME NEW q \in Seq(Sample), Len(q) <= MaxQueue,
         {q[i] : i \in 1 .. Len(q) - Len(Trim(q))} = {}
  PROVE  Trim(q) = q
<1>1. MaxQueue \in Nat \ {0} /\ Len(q) \in Nat /\ Len(Trim(q)) \in Nat
  BY QueueAssumption, LenProperties, TrimFits
<1>2. CASE Len(q) < MaxQueue
  BY <1>1, <1>2 DEF Trim
<1>3. CASE Len(q) >= MaxQueue
  <2>1. Len(q) - Len(Trim(q)) >= 1
    BY <1>1, <1>3, TrimFits
  <2>2. 1 \in 1 .. Len(q) - Len(Trim(q))
    BY <1>1, <2>1
  <2>. QED
    BY <2>2
<1>. QED
  BY <1>1, <1>2, <1>3

(* So does a pruning load. *)
LEMMA NoPruning ==
  ASSUME NEW q \in Seq(Sample),
         {q[i] : i \in 1 .. Len(q) - Len(Prune(q))} = {}
  PROVE  Prune(q) = q
<1>1. MaxQueue \in Nat /\ Len(q) \in Nat /\ Len(Prune(q)) \in Nat
  BY QueueAssumption, LenProperties, PruneFits
<1>2. CASE Len(q) <= MaxQueue
  BY <1>1, <1>2 DEF Prune
<1>3. CASE Len(q) > MaxQueue
  <2>1. 1 \in 1 .. Len(q) - Len(Prune(q))
    BY <1>1, <1>3, PruneFits
  <2>. QED
    BY <2>1
<1>. QED
  BY <1>1, <1>2, <1>3

(* Appending adds one sample to the queue, and keeps the others. *)
LEMMA RangeAppend ==
  ASSUME NEW q \in Seq(Sample), NEW s \in Sample
  PROVE  /\ s \in Range(Append(q, s))
         /\ \A x \in Range(q) : x \in Range(Append(q, s))
<1>1. /\ Append(q, s) \in Seq(Sample)
      /\ Len(Append(q, s)) = Len(q) + 1
      /\ \A i \in 1 .. Len(q) : Append(q, s)[i] = q[i]
      /\ Append(q, s)[Len(q) + 1] = s
  BY AppendProperties
<1>2. Len(q) \in Nat /\ DOMAIN q = 1 .. Len(q) /\ DOMAIN Append(q, s) = 1 .. Len(q) + 1
  BY <1>1, LenProperties
<1>3. \A i \in 1 .. Len(q) : i \in 1 .. Len(q) + 1
  BY <1>2
<1>. QED
  BY <1>1, <1>2, <1>3 DEF Range

(* Popping takes one sample out of the queue, and keeps the others. *)
LEMMA RangeTail ==
  ASSUME NEW q \in Seq(Sample), q # << >>, NEW x \in Range(q)
  PROVE  x = Head(q) \/ x \in Range(Tail(q))
<1>1. PICK i \in DOMAIN q : x = q[i]
  BY DEF Range
<1>2. Len(q) \in Nat \ {0} /\ DOMAIN q = 1 .. Len(q)
  BY LenProperties, EmptySeq
<1>3. /\ Tail(q) \in Seq(Sample)
      /\ Len(Tail(q)) = Len(q) - 1
      /\ \A j \in 1 .. Len(Tail(q)) : Tail(q)[j] = q[j + 1]
      /\ Head(q) = q[1]
  BY HeadTailProperties
<1>4. CASE i = 1
  BY <1>1, <1>3, <1>4
<1>5. CASE i # 1
  <2>1. i - 1 \in 1 .. Len(Tail(q)) /\ (i - 1) + 1 = i
    BY <1>2, <1>3, <1>5
  <2>2. DOMAIN Tail(q) = 1 .. Len(Tail(q))
    BY <1>3, LenProperties
  <2>3. Tail(q)[i - 1] = x
    BY <1>1, <1>3, <2>1
  <2>. QED
    BY <2>1, <2>2, <2>3 DEF Range
<1>. QED
  BY <1>4, <1>5

(* Where a sample can be while the agent runs. *)
Safe(s) == stored[s] > 0 \/ s \in InHand \/ s \in Range(items)

(* Before the first start the samples are in the file. *)
NoLoss ==
  crashes = 0 /\ evicted = {} =>
    \A s \in Tracked : IF pc[Main] = "down" THEN s \in Range(file) ELSE Safe(s)

(* Where every sample is, before and after a step. *)
LEMMA NoLossInit == Init => NoLoss
<1> SUFFICES ASSUME Init, NEW s \in Tracked
             PROVE  IF pc[Main] = "down" THEN s \in Range(file) ELSE Safe(s)
  BY DEF NoLoss
<1>1. pc[Main] = "down"
  BY ThreadNames DEF Init, Main
<1>2. PICK n \in 0 .. MaxQueue + 1 : taken = n /\ file = [i \in 1 .. n |-> i]
  BY DEF Init
<1>3. s \in 1 .. n
  BY <1>2, QueueAssumption DEF Tracked, Sample, Later
<1>4. s \in Range(file)
  BY <1>2, <1>3 DEF Range
<1>. QED
  BY <1>1, <1>4

(* A step of a running agent that neither crashes it nor evicts a sample    *)
(* moves each sample from hand to queue to backend and leaves none behind.  *)
LEMMA NoLossStep ==
  ASSUME IInv, NoLoss, [Next]_vars
  PROVE  NoLoss'
<1> SUFFICES ASSUME crashes' = 0, evicted' = {}, NEW s \in Tracked'
             PROVE  IF pc'[Main] = "down" THEN s \in Range(file') ELSE Safe(s)'
  BY DEF NoLoss
<1> USE ThreadNames, QueueAssumption DEF IInv, TypeOK, Roles, Main
<1> DEFINE Goal == IF pc'[Main] = "down" THEN s \in Range(file') ELSE Safe(s)'
<1> HIDE DEF Goal
<1>a. ASSUME pc[Main] # "down", pc'[Main] # "down", UNCHANGED <<crashes, taken>>,
             evicted \subseteq evicted', Safe(s) => Safe(s)'
      PROVE  Goal
  <2>1. crashes = 0 /\ evicted = {} /\ s \in Tracked
    BY <1>a DEF Tracked
  <2>2. Safe(s)
    BY <1>a, <2>1 DEF NoLoss
  <2>. QED
    BY <1>a, <2>2 DEF Goal
<1>b. s \in Sample /\ s # None
  BY DEF Tracked, Sample, None, Later
<1>c. \A t \in Threads : pc[t] # "off" /\ (t \in Replayers \/ pc[Main] # "down") => pc[Main] # "down"
  BY DEF DownIsQuiet, SingleReplayer
<1>1. ASSUME NEW t \in Threads, QueueMetric(t) PROVE Goal
  <2>1. pc[Main] # "down" /\ pc'[Main] # "down"
    BY <1>1, <1>c DEF QueueMetric, BeginSave, AfterQueue
  <2>2. item[t] \in Sample /\ item' = [item EXCEPT ![t] = None]
    BY <1>1 DEF QueueMetric, HandsFull
  <2>3. Trim(items) = items
    BY <1>1, NoEviction DEF QueueMetric
  <2>4. items' = Append(items, item[t])
    BY <1>1, <2>3 DEF QueueMetric, Enqueue
  <2>5. Safe(s) => Safe(s)'
    <3>1. CASE s = item[t]
      BY <2>2, <2>4, <3>1, RangeAppend DEF Safe
    <3>2. CASE s \in InHand /\ s # item[t]
      BY <2>2, <3>2 DEF Safe, InHand
    <3>3. CASE s \in Range(items)
      BY <2>2, <2>4, <3>3, RangeAppend DEF Safe
    <3>4. CASE stored[s] > 0
      BY <1>1, <3>4 DEF QueueMetric, world, Safe
    <3>. QED
      BY <3>1, <3>2, <3>3, <3>4 DEF Safe
  <2>. QED
    BY <1>1, <1>a, <2>1, <2>5 DEF QueueMetric
<1>2. ASSUME NEW t \in Threads, QueueSaved(t) PROVE Goal
  <2>1. pc[Main] # "down" /\ pc'[Main] # "down"
    BY <1>2, <1>c DEF QueueSaved, EndSave, AfterQueue
  <2>. QED
    BY <1>2, <1>a, <2>1 DEF QueueSaved, world, Safe, InHand
<1>3. ASSUME NEW t \in Threads, Accepted(t) PROVE Goal
  <2>1. pc[Main] # "down" /\ pc'[Main] # "down"
    BY <1>3, <1>c DEF Accepted
  <2>2. item' = [item EXCEPT ![t] = None] /\ items' = items
    BY <1>3 DEF Accepted, queue
  <2>3. item[t] \in Sample
    BY <1>3 DEF Accepted, HandsFull
  <2>4. stored'[item[t]] > 0 /\ (stored[s] > 0 => stored'[s] > 0)
    BY <1>3, <1>b, <2>3, RecordCounts DEF Accepted
  <2>5. Safe(s) => Safe(s)'
    <3>1. CASE s = item[t]
      BY <2>4, <3>1 DEF Safe
    <3>2. CASE s \in InHand /\ s # item[t]
      BY <2>2, <3>2 DEF Safe, InHand
    <3>. QED
      BY <2>2, <2>4, <3>1, <3>2 DEF Safe
  <2>. QED
    BY <1>3, <1>a, <2>1, <2>5 DEF Accepted, queue
<1>4. ASSUME NEW t \in Threads, ReplyLost(t) PROVE Goal
  <2>1. pc[Main] # "down" /\ pc'[Main] # "down"
    BY <1>4, <1>c DEF ReplyLost, AttemptFails
  <2>2. item' = item /\ items' = items
    BY <1>4 DEF ReplyLost, queue
  <2>3. stored[s] > 0 => stored'[s] > 0
    <3>1. item[t] \in Sample
      BY <1>4 DEF ReplyLost, HandsFull
    <3>. QED
      BY <1>4, <1>b, <3>1, RecordCounts DEF ReplyLost
  <2>4. Safe(s) => Safe(s)'
    BY <2>2, <2>3 DEF Safe, InHand
  <2>. QED
    BY <1>4, <1>a, <2>1, <2>4 DEF ReplyLost, queue
<1>5. ASSUME NEW t \in Threads, Unreachable(t) PROVE Goal
  <2>1. pc[Main] # "down" /\ pc'[Main] # "down"
    BY <1>5, <1>c DEF Unreachable, AttemptFails
  <2>. QED
    BY <1>5, <1>a, <2>1 DEF Unreachable, queue, world, Safe, InHand
<1>6. ASSUME NEW t \in Threads, Refused(t) PROVE Goal
  <2>1. pc[Main] # "down" /\ pc'[Main] # "down"
    BY <1>6, <1>c DEF Refused
  <2>. QED
    BY <1>6, <1>a, <2>1 DEF Refused, queue, world, Safe, InHand
<1>7. ASSUME NEW r \in Replayers, PopMetric(r) PROVE Goal
  <2>1. pc[Main] # "down" /\ pc'[Main] # "down"
    BY <1>7, <1>c DEF PopMetric, BeginSave
  <2>2. item[r] = None /\ item' = [item EXCEPT ![r] = Head(items)] /\ items' = Tail(items)
    BY <1>7 DEF PopMetric, HandsFull
  <2>3. Safe(s) => Safe(s)'
    <3>1. CASE s \in InHand
      BY <1>b, <2>2, <3>1 DEF Safe, InHand
    <3>2. CASE s \in Range(items)
      <4>1. s = Head(items) \/ s \in Range(Tail(items))
        BY <1>7, <3>2, RangeTail DEF PopMetric
      <4>2. CASE s = Head(items)
        BY <1>b, <2>2, <4>2 DEF Safe, InHand
      <4>. QED
        BY <2>2, <4>1, <4>2 DEF Safe
    <3>3. CASE stored[s] > 0
      BY <1>7, <3>3 DEF PopMetric, world, Safe
    <3>. QED
      BY <3>1, <3>2, <3>3 DEF Safe
  <2>. QED
    BY <1>7, <1>a, <2>1, <2>3 DEF PopMetric
<1>8. ASSUME NEW r \in Replayers, PopSaved(r) PROVE Goal
  <2>1. pc[Main] # "down" /\ pc'[Main] # "down"
    BY <1>8, <1>c DEF PopSaved, EndSave
  <2>. QED
    BY <1>8, <1>a, <2>1 DEF PopSaved, world, Safe, InHand
<1>9. ASSUME NEW r \in Replayers, PopNothing(r) PROVE Goal
  <2>1. pc[Main] # "down" /\ pc'[Main] # "down"
    BY <1>9, <1>c DEF PopNothing
  <2>. QED
    BY <1>9, <1>a, <2>1 DEF PopNothing, queue, world, Safe, InHand
<1>10. ASSUME NEW r \in Replayers, ReplayEnds(r) PROVE Goal
  <2>1. pc[Main] # "down" /\ pc'[Main] # "down"
    BY <1>10, <1>c DEF ReplayEnds
  <2>. QED
    BY <1>10, <1>a, <2>1 DEF ReplayEnds, queue, world, Safe, InHand
<1>11. ASSUME Collect PROVE Goal
  <2>1. /\ pc[Main] = "collect" /\ pc'[Main] = "post" /\ item[Main] = None
        /\ item' = [item EXCEPT ![Main] = taken'] /\ items' = items /\ stored' = stored
        /\ crashes = 0 /\ evicted = {}
    BY <1>11 DEF Collect, HandsFull, queue, world
  <2>2. CASE s \in Tracked
    <3>1. Safe(s)
      BY <2>1, <2>2 DEF NoLoss
    <3>. QED
      BY <1>b, <2>1, <3>1 DEF Safe, InHand, Goal
  <2>3. CASE s \notin Tracked
    <3>1. s = taken'
      BY <1>11, <2>3 DEF Collect, Tracked, Sample, Later
    <3>2. s \in InHand'
      BY <1>b, <2>1, <3>1 DEF InHand
    <3>. QED
      BY <2>1, <3>2 DEF Safe, Goal
  <2>. QED
    BY <2>2, <2>3
<1>12. ASSUME CheckQueue PROVE Goal
  <2>1. pc[Main] # "down" /\ pc'[Main] # "down"
    BY <1>12 DEF CheckQueue
  <2>2. UNCHANGED <<item, items, stored, taken, crashes, evicted>>
    BY <1>12 DEF CheckQueue, queue, world
  <2>. QED
    BY <1>a, <2>1, <2>2 DEF Safe, InHand
<1>13. ASSUME SpawnReplayer PROVE Goal
  <2>1. pc[Main] # "down" /\ pc'[Main] # "down"
    BY <1>13 DEF SpawnReplayer
  <2>2. UNCHANGED <<item, items, stored, taken, crashes, evicted>>
    BY <1>13 DEF SpawnReplayer, queue, world
  <2>. QED
    BY <1>a, <2>1, <2>2 DEF Safe, InHand
<1>14. ASSUME ReplayerRuns PROVE Goal
  <2>1. pc[Main] # "down" /\ pc'[Main] # "down"
    BY <1>14 DEF ReplayerRuns
  <2>2. UNCHANGED <<item, items, stored, taken, crashes, evicted>>
    BY <1>14 DEF ReplayerRuns, queue, world
  <2>. QED
    BY <1>a, <2>1, <2>2 DEF Safe, InHand
<1>15. ASSUME StartAgent PROVE Goal
  <2>1. crashes = 0 /\ evicted = {} /\ s \in Tracked
    BY <1>15 DEF StartAgent, world, Tracked
  <2>2. s \in Range(file)
    BY <1>15, <2>1 DEF StartAgent, NoLoss
  <2>3. items' = file
    BY <1>15, NoPruning DEF StartAgent
  <2>4. pc'[Main] # "down"
    BY <1>15 DEF StartAgent, BeginSave
  <2>. QED
    BY <2>2, <2>3, <2>4 DEF Safe, Goal
<1>16. ASSUME Crash PROVE Goal
  BY <1>16 DEF Crash
<1>17. ASSUME LinkChanges PROVE Goal
  <2>1. UNCHANGED <<pc, item, items, file, stored, taken, crashes, evicted>>
    BY <1>17 DEF LinkChanges, threads, queue
  <2>. QED
    BY <2>1 DEF NoLoss, Safe, InHand, Tracked, Goal
<1>18. ASSUME UNCHANGED vars PROVE Goal
  <2>1. UNCHANGED <<pc, item, items, file, stored, taken, crashes, evicted>>
    BY <1>18 DEF vars, threads, queue, world
  <2>. QED
    BY <2>1 DEF NoLoss, Safe, InHand, Tracked, Goal
<1>19. Goal
  BY <1>1, <1>2, <1>3, <1>4, <1>5, <1>6, <1>7, <1>8, <1>9, <1>10, <1>11, <1>12, <1>13, <1>14, <1>15, <1>16, <1>17, <1>18 DEF Next, MainStep, Replay, Step
<1>. QED
  BY <1>19 DEF Goal

(* Until the queue overflows, every sample an agent that does not crash has *)
(* taken is at the backend, in the queue or in hand: no interleaving of the *)
(* metrics loop, retries, replayers and failed saves drops one.             *)
THEOREM NothingLost == Spec => []NothingLostBelowCapacity
<1>1. Init => NoLoss
  BY NoLossInit
<1>2. IInv /\ NoLoss /\ [Next]_vars => NoLoss'
  BY NoLossStep
<1>3. NoLoss => NothingLostBelowCapacity
  BY DEF NoLoss, NothingLostBelowCapacity, Safe
<1>. QED
  BY <1>1, <1>2, <1>3, Invariance, PTL DEF Spec

=============================================================================
