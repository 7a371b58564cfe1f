---------------------------- MODULE OfflineQueue ----------------------------
(***************************************************************************)
(* How the agent delivers metrics (agent/internal/app/run.go, sender,      *)
(* cache and client packages).                                             *)
(*                                                                         *)
(* The metrics loop posts each new sample.  A sample that cannot be posted *)
(* goes to the end of a bounded queue mirrored in a file.  The next sample *)
(* that does get through starts one goroutine, the replayer, that pops the *)
(* queue and posts what it popped until the queue is empty or a post       *)
(* fails; then it puts that sample back at the end of the queue and ends.  *)
(*                                                                         *)
(* state.Connected is left out: the sender and the heartbeat write it and  *)
(* nothing in the agent reads it.  A sample that GetMetrics or             *)
(* json.Marshal refuses is never taken, so it is not a step.               *)
(***************************************************************************)
EXTENDS Naturals, Sequences, FiniteSets, Functions

CONSTANTS
  MaxQueue,     \* maxQueueSize: 60 in the code
  MaxAttempts,  \* len(backoff) of PostWithRetry: 3 in the code
  Replayers,    \* identities for goroutines running ReplayCachedMetrics
  MaxSamples,   \* bound: samples followed by number
  MaxLinkChanges, MaxLost, MaxSaveFails, MaxCrashes  \* bounds on faults

ASSUME QueueAssumption ==
  /\ MaxQueue \in Nat \ {0}
  /\ MaxAttempts \in Nat \ {0}
  /\ MaxSamples \in Nat
  /\ MaxLinkChanges \in Nat /\ MaxLost \in Nat
  /\ MaxSaveFails \in Nat /\ MaxCrashes \in Nat
  /\ "main" \notin Replayers /\ "nobody" \notin Replayers

VARIABLES
  \* the agent process
  pc,           \* where each thread stands
  item,         \* the sample a thread has in hand
  try,          \* the attempt PostWithRetry is making
  items,        \* GlobalQueue.items
  mu,           \* who holds GlobalQueue.mu
  isReplaying,  \* the flag of that name, guarded by replayMu
  \* the disk
  file,         \* the queue that load() would read from filePath
  \* the world
  link,         \* what an HTTP request to the backend meets
  stored,       \* how often each sample was stored at the backend (2: again)
  taken,        \* samples collected so far
  evicted,      \* samples thrown out by the bound of the queue
  requeued,     \* a replayer has put a sample back
  linkChanges, lost, saveFails, crashes  \* faults so far

threads == <<pc, item, try>>
queue   == <<items, mu, file, evicted, requeued, saveFails>>
world   == <<link, linkChanges, lost, stored>>
vars    == <<threads, isReplaying, queue, world, taken, crashes>>

Main    == "main"
Threads == {Main} \cup Replayers
None    == 0                    \* no sample in hand
Nobody  == "nobody"             \* the value of a free mutex
Later   == MaxSamples + 1       \* any sample after the first MaxSamples
Sample  == 1 .. Later

PCs == {"down", "collect", "post", "queue", "queuewrite", "check", "spawn",
        "off", "pop", "popwrite", "exit"}

-----------------------------------------------------------------------------
(* The file may hold what an earlier run queued, even more than MaxQueue.  *)
Init ==
  /\ \E n \in 0 .. MaxQueue + 1 :
       /\ n <= MaxSamples
       /\ taken = n
       /\ file = [i \in 1 .. n |-> i]
  /\ pc = [t \in Threads |-> IF t = Main THEN "down" ELSE "off"]
  /\ item = [t \in Threads |-> None]
  /\ try = [t \in Threads |-> 1]
  /\ items = << >>
  /\ mu = Nobody
  /\ isReplaying = FALSE
  /\ link \in {"up", "down", "blocked"}
  /\ stored = [s \in Sample |-> 0]
  /\ evicted = {}
  /\ requeued = FALSE
  /\ linkChanges = 0 /\ lost = 0 /\ saveFails = 0 /\ crashes = 0

-----------------------------------------------------------------------------
(* save() rewrites the file in place, with GlobalQueue.mu held: between    *)
(* truncation and the end of the write a reader finds an empty file or one *)
(* that is not JSON, and load() answers both with an empty queue.  An      *)
(* error is logged and the caller goes on.                                 *)

\* Seeded fault: the queue is changed but the save is forgotten.
BeginSaveForgotten(t, writing, done) ==
  pc' = [pc EXCEPT ![t] = done] /\ UNCHANGED <<mu, file, saveFails>>

BeginSave(t, writing, done) ==
  \/ /\ pc' = [pc EXCEPT ![t] = writing]
     /\ mu' = t
     /\ file' = << >>
     /\ UNCHANGED saveFails
  \/ /\ saveFails < MaxSaveFails             \* the file cannot be opened
     /\ saveFails' = saveFails + 1
     /\ pc' = [pc EXCEPT ![t] = done]
     /\ UNCHANGED <<mu, file>>

EndSave(t, writing, done) ==
  /\ pc[t] = writing
  /\ \/ /\ file' = items
        /\ UNCHANGED saveFails
     \/ /\ saveFails < MaxSaveFails          \* the write fails midway
        /\ saveFails' = saveFails + 1
        /\ UNCHANGED file
  /\ mu' = Nobody
  /\ pc' = [pc EXCEPT ![t] = done]

(* QueueMetric: a full queue makes room at its head. *)
\* Seeded fault: an off-by-one in the test for a full queue.
TrimLate(q) ==
  IF Len(q) > MaxQueue THEN SubSeq(q, Len(q) - MaxQueue + 2, Len(q)) ELSE q

\* Seeded fault: room is made for two samples.
TrimTwo(q) ==
  IF Len(q) >= MaxQueue THEN SubSeq(q, Len(q) - MaxQueue + 3, Len(q)) ELSE q

Trim(q) ==
  IF Len(q) >= MaxQueue THEN SubSeq(q, Len(q) - MaxQueue + 2, Len(q)) ELSE q

\* Seeded fault: the new sample goes to the head.
EnqueueFront(q, s) == <<s>> \o Trim(q)

Enqueue(q, s) == Append(Trim(q), s)

\* Seeded fault: the failing replayer leaves without its deferred function.
AfterQueueNoDefer(t) == IF t = Main THEN "collect" ELSE "off"

AfterQueue(t) == IF t = Main THEN "collect" ELSE "exit"

QueueMetric(t) ==
  /\ pc[t] = "queue"
  /\ mu = Nobody
  /\ items' = Enqueue(items, item[t])
  /\ evicted' = evicted \cup {items[i] : i \in 1 .. Len(items) - Len(Trim(items))}
  /\ requeued' = (requeued \/ t # Main)
  /\ item' = [item EXCEPT ![t] = None]
  /\ BeginSave(t, "queuewrite", AfterQueue(t))
  /\ UNCHANGED <<try, isReplaying, world, taken, crashes>>

QueueSaved(t) ==
  /\ EndSave(t, "queuewrite", AfterQueue(t))
  /\ UNCHANGED <<item, try, isReplaying, items, evicted, requeued, world, taken, crashes>>

\* Seeded fault: the head is read but not removed.
PeekMetric(r) ==
  /\ pc[r] = "pop"
  /\ mu = Nobody
  /\ items # << >>
  /\ item' = [item EXCEPT ![r] = Head(items)]
  /\ BeginSave(r, "popwrite", "post")
  /\ UNCHANGED <<try, isReplaying, items, evicted, requeued, world, taken, crashes>>

PopMetric(r) ==
  /\ pc[r] = "pop"
  /\ mu = Nobody
  /\ items # << >>
  /\ item' = [item EXCEPT ![r] = Head(items)]
  /\ items' = Tail(items)
  /\ BeginSave(r, "popwrite", "post")
  /\ UNCHANGED <<try, isReplaying, evicted, requeued, world, taken, crashes>>

PopSaved(r) ==
  /\ EndSave(r, "popwrite", "post")
  /\ UNCHANGED <<item, try, isReplaying, items, evicted, requeued, world, taken, crashes>>

PopNothing(r) ==
  /\ pc[r] = "pop"
  /\ mu = Nobody
  /\ items = << >>
  /\ pc' = [pc EXCEPT ![r] = "exit"]
  /\ UNCHANGED <<item, try, isReplaying, queue, world, taken, crashes>>

-----------------------------------------------------------------------------
(* PostWithRetry: one step per attempt. *)

Record(s) == stored' = [stored EXCEPT ![s] = IF @ = 2 THEN 2 ELSE @ + 1]

Accepted(t) ==
  /\ pc[t] = "post"
  /\ link = "up"
  /\ Record(item[t])
  /\ pc' = [pc EXCEPT ![t] = IF t = Main THEN "check" ELSE "pop"]
  /\ item' = [item EXCEPT ![t] = None]
  /\ try' = [try EXCEPT ![t] = 1]
  /\ UNCHANGED <<isReplaying, queue, link, linkChanges, lost, taken, crashes>>

AttemptFails(t) ==
  IF try[t] < MaxAttempts
  THEN /\ try' = [try EXCEPT ![t] = @ + 1]
       /\ UNCHANGED pc
  ELSE /\ try' = [try EXCEPT ![t] = 1]
       /\ pc' = [pc EXCEPT ![t] = "queue"]

(* The backend stores the sample, but the reply is lost or is a 5xx. *)
ReplyLost(t) ==
  /\ pc[t] = "post"
  /\ link = "up"
  /\ lost < MaxLost
  /\ lost' = lost + 1
  /\ Record(item[t])
  /\ AttemptFails(t)
  /\ UNCHANGED <<item, isReplaying, queue, link, linkChanges, taken, crashes>>

Unreachable(t) ==
  /\ pc[t] = "post"
  /\ link = "down"
  /\ AttemptFails(t)
  /\ UNCHANGED <<item, isReplaying, queue, world, taken, crashes>>

(* HTTP 403 (host blocked or stopped) or 410 (host deleted): no retry. *)
\* Seeded fault: a refusal is final and the sample is dropped.
RefusedForGood(t) ==
  /\ pc[t] = "post"
  /\ link = "blocked"
  /\ pc' = [pc EXCEPT ![t] = AfterQueue(t)]
  /\ try' = [try EXCEPT ![t] = 1]
  /\ item' = [item EXCEPT ![t] = None]
  /\ UNCHANGED <<isReplaying, queue, world, taken, crashes>>

Refused(t) ==
  /\ pc[t] = "post"
  /\ link = "blocked"
  /\ pc' = [pc EXCEPT ![t] = "queue"]
  /\ try' = [try EXCEPT ![t] = 1]
  /\ UNCHANGED <<item, isReplaying, queue, world, taken, crashes>>

-----------------------------------------------------------------------------
(* The metrics loop and SendMetrics. *)

Collect ==
  /\ pc[Main] = "collect"
  /\ taken' = IF taken < Later THEN taken + 1 ELSE Later
  /\ item' = [item EXCEPT ![Main] = taken']
  /\ pc' = [pc EXCEPT ![Main] = "post"]
  /\ UNCHANGED <<try, isReplaying, queue, world, crashes>>

(* QueueSize() > 0, read under GlobalQueue.mu and used after it. *)
CheckQueue ==
  /\ pc[Main] = "check"
  /\ mu = Nobody
  /\ pc' = [pc EXCEPT ![Main] = IF items # << >> THEN "spawn" ELSE "collect"]
  /\ UNCHANGED <<item, try, isReplaying, queue, world, taken, crashes>>

\* Seeded fault: the flag is set but not tested.
SpawnUnguarded ==
  /\ pc[Main] = "spawn"
  /\ isReplaying' = TRUE
  /\ \E r \in Replayers :
       /\ pc[r] = "off"
       /\ pc' = [pc EXCEPT ![Main] = "collect", ![r] = "pop"]
  /\ UNCHANGED <<item, try, queue, world, taken, crashes>>

SpawnReplayer ==
  /\ pc[Main] = "spawn"
  /\ ~isReplaying
  /\ isReplaying' = TRUE
  /\ \E r \in Replayers :
       /\ pc[r] = "off"
       /\ pc' = [pc EXCEPT ![Main] = "collect", ![r] = "pop"]
  /\ UNCHANGED <<item, try, queue, world, taken, crashes>>

ReplayerRuns ==
  /\ pc[Main] = "spawn"
  /\ isReplaying
  /\ pc' = [pc EXCEPT ![Main] = "collect"]
  /\ UNCHANGED <<item, try, isReplaying, queue, world, taken, crashes>>

(* The deferred function of ReplayCachedMetrics. *)
ReplayEnds(r) ==
  /\ pc[r] = "exit"
  /\ isReplaying' = FALSE
  /\ pc' = [pc EXCEPT ![r] = "off"]
  /\ UNCHANGED <<item, try, queue, world, taken, crashes>>

-----------------------------------------------------------------------------
(* RunAgent calls cache.Init; an oversized queue keeps its newest samples. *)
Prune(q) ==
  IF Len(q) > MaxQueue THEN SubSeq(q, Len(q) - MaxQueue + 1, Len(q)) ELSE q

StartAgent ==
  /\ pc[Main] = "down"
  /\ items' = Prune(file)
  /\ evicted' = evicted \cup {file[i] : i \in 1 .. Len(file) - Len(Prune(file))}
  /\ IF Len(file) > MaxQueue
     THEN BeginSave(Main, "queuewrite", "collect")
     ELSE /\ pc' = [pc EXCEPT ![Main] = "collect"]
          /\ UNCHANGED <<mu, file, saveFails>>
  /\ UNCHANGED <<item, try, isReplaying, requeued, world, taken, crashes>>

Crash ==
  /\ pc[Main] # "down"
  /\ crashes < MaxCrashes
  /\ crashes' = crashes + 1
  /\ pc' = [t \in Threads |-> IF t = Main THEN "down" ELSE "off"]
  /\ item' = [t \in Threads |-> None]
  /\ try' = [t \in Threads |-> 1]
  /\ items' = << >>
  /\ mu' = Nobody
  /\ isReplaying' = FALSE
  /\ UNCHANGED <<file, evicted, requeued, saveFails, world, taken>>

LinkChanges ==
  /\ linkChanges < MaxLinkChanges
  /\ linkChanges' = linkChanges + 1
  /\ link' \in {"up", "down", "blocked"} \ {link}
  /\ UNCHANGED <<threads, isReplaying, queue, lost, stored, taken, crashes>>

-----------------------------------------------------------------------------
Step(t) ==
  \/ QueueMetric(t) \/ QueueSaved(t)
  \/ Accepted(t) \/ ReplyLost(t) \/ Unreachable(t) \/ Refused(t)

MainStep   == Collect \/ CheckQueue \/ SpawnReplayer \/ ReplayerRuns \/ StartAgent \/ Step(Main)
Replay(r)  == PopMetric(r) \/ PopSaved(r) \/ PopNothing(r) \/ ReplayEnds(r) \/ Step(r)

Next == MainStep \/ (\E r \in Replayers : Replay(r)) \/ Crash \/ LinkChanges

Spec == Init /\ [][Next]_vars

(* Every request ends within the 10 s timeout of the HTTP client, the      *)
(* sleeps are finite and a killed agent is started again by its service.   *)
FairSpec ==
  /\ Spec
  /\ WF_vars(MainStep)
  /\ \A r \in Replayers : WF_vars(Replay(r))

-----------------------------------------------------------------------------
TypeOK ==
  /\ pc \in [Threads -> PCs]
  /\ item \in [Threads -> Sample \cup {None}]
  /\ try \in [Threads -> 1 .. MaxAttempts]
  /\ items \in Seq(Sample) /\ Len(items) <= MaxQueue
  /\ mu \in Threads \cup {Nobody}
  /\ isReplaying \in BOOLEAN
  /\ file \in Seq(Sample) /\ Len(file) <= MaxQueue + 1
  /\ link \in {"up", "down", "blocked"}
  /\ stored \in [Sample -> 0 .. 2]
  /\ taken \in 0 .. Later
  /\ evicted \in SUBSET Sample
  /\ requeued \in BOOLEAN
  /\ linkChanges \in 0 .. MaxLinkChanges /\ lost \in 0 .. MaxLost
  /\ saveFails \in 0 .. MaxSaveFails /\ crashes \in 0 .. MaxCrashes

InHand  == {item[t] : t \in Threads} \ {None}
Tracked == {s \in Sample : s <= taken /\ s # Later}

(* "Replay cached offline metrics in background (safely once)": however    *)
(* the loop and an ending replayer interleave, at most one goroutine runs  *)
(* ReplayCachedMetrics, and the flag says whether one does.                *)
SingleReplayer ==
  /\ isReplaying <=> \E r \in Replayers : pc[r] # "off"
  /\ \A r, q \in Replayers : pc[r] # "off" /\ pc[q] # "off" => r = q

(* Unless a save has failed, the file is the queue whenever no thread is   *)
(* inside the critical section of QueueMetric or PopMetric: a crash at     *)
(* such a moment costs only the samples in hand.                           *)
FileMirrorsQueue ==
  pc[Main] # "down" /\ mu = Nobody /\ saveFails = 0 => file = items

(* While the agent lives and the queue has not overflowed, a sample taken  *)
(* is stored at the backend, queued, or in the hands of a thread.          *)
NothingLostBelowCapacity ==
  crashes = 0 /\ evicted = {} /\ pc[Main] # "down" =>
    \A s \in Tracked : stored[s] > 0 \/ s \in InHand \/ s \in Range(items)

(* The queue overflows only when more samples exist than it has room for:  *)
(* popping and putting back never leaves a second copy of a sample.        *)
OneCopy ==
  \A s \in Tracked :
    Cardinality({i \in DOMAIN items : items[i] = s})
      + Cardinality({t \in Threads : item[t] = s}) <= 1

(* PostWithRetry retries, and the queue is replayed after a restart, but   *)
(* only a reply lost after the sample was stored, or a failed save, makes  *)
(* the backend store a sample twice.                                       *)
OnlyFaultsDuplicate ==
  lost = 0 /\ saveFails = 0 => \A s \in Tracked : stored[s] <= 1

(* Until a replayed upload fails, the queue is in the order the samples    *)
(* were taken, across restarts and evictions.                              *)
ReplayInOrder ==
  ~requeued => \A i, j \in DOMAIN items : i < j => items[i] <= items[j]

(* Once the backend stays reachable the queue is emptied for good, though  *)
(* only a later live upload can start the replayer.                        *)
EventuallyDrained == <>[](link = "up") => <>[](items = << >>)

-----------------------------------------------------------------------------
(* The agent seen as a bounded store that delivers at least once.          *)

(* The samples in hand, counted without Cardinality: at most one replayer  *)
(* has one.                                                                *)
Hands ==
  (IF item[Main] # None THEN 1 ELSE 0) + (IF \E r \in Replayers : item[r] # None THEN 1 ELSE 0)

Running   == pc[Main] # "down"
Held      == Tracked \cap (IF Running THEN InHand \cup Range(items) ELSE Range(file))
Delivered == {s \in Tracked : stored[s] > 0}
Waiting   == IF Running THEN Len(items) + Hands ELSE Len(file)

Store == INSTANCE Delivery
  WITH Followed <- 1 .. MaxSamples, Capacity <- MaxQueue, running <- Running,
       collected <- Tracked, held <- Held, delivered <- Delivered, waiting <- Waiting

(* Through retries, replays, evictions and restarts, the loop, the         *)
(* replayers and the file together behave as one bounded store: no step    *)
(* loses a sample the backend has not, unless the queue is full or the     *)
(* agent dies.                                                             *)
DeliversAtLeastOnce == Store!Spec

=============================================================================
