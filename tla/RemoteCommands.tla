--------------------------- MODULE RemoteCommands ---------------------------
(***************************************************************************)
(* Commands that users send to one machine: the rows and handlers of the   *)
(* backend (handlers/command.go, terminal_command.go,                      *)
(* terminal_command_poll.go) and the agent that polls for them             *)
(* (agent/internal/commands/commands.go).                                  *)
(*                                                                         *)
(* The agent asks for plain commands, waits for the answer, starts a       *)
(* goroutine for each, then does the same for terminal commands, every     *)
(* 3 s.  A goroutine runs its command and posts the result once.  The      *)
(* handler of a poll reads the rows, saves each of them as running, whole, *)
(* and answers; it goes on when the agent has given up on it.  A plain     *)
(* command is handed out while it is pending, a terminal command until it  *)
(* has a result.                                                           *)
(*                                                                         *)
(* Left out: the output, the verdict (a refused command also ends in a     *)
(* result), sessions and their broadcasts, the audit log.                  *)
(***************************************************************************)
EXTENDS Naturals, FiniteSets

CONSTANTS
  Plain, Terminal,  \* commands
  Handlers, None,   \* goroutines of the backend that serve polls
  MaxJobs,          \* bound: a command runs so often at a time
  MaxFaults         \* bound: lost calls, failed writes, restarts

Commands == Plain \cup Terminal

ASSUME CommandsAssumption ==
  /\ Plain \cap Terminal = {}
  /\ None \notin Handlers
  /\ MaxJobs \in Nat \ {0} /\ MaxFaults \in Nat

VARIABLES
  row,       \* status of a command in the table
  serving,   \* polls the backend is working on
  stage,     \* the agent: about to poll for plain or for terminal commands
  waits,     \* the handler it waits for
  jobs,      \* the agent: goroutines that run a command
  runs,      \* history: starts of a command (2: or more)
  gaveUp,    \* history: a poll was given up while it was served
  unsaved,   \* history: a row could not be saved as running
  faults

vars == <<row, serving, stage, waits, jobs, runs, gaveUp, unsaved, faults>>

Kind(k) == IF k = "plain" THEN Plain ELSE Terminal
Idle    == [step |-> "idle", kind |-> "plain", unmarked |-> {}, found |-> {}]

Init ==
  /\ row = [c \in Commands |-> "none"]
  /\ serving = [h \in Handlers |-> Idle]
  /\ stage = "plain" /\ waits = None
  /\ jobs = [c \in Commands |-> 0]
  /\ runs = [c \in Commands |-> 0]
  /\ gaveUp = FALSE /\ unsaved = FALSE /\ faults = 0

Fault == faults < MaxFaults /\ faults' = faults + 1

-----------------------------------------------------------------------------
(* The backend *)

\* Seeded fault: a command is stored with a status no query asks for.
CreateQueued(c) ==
  /\ row[c] = "none"
  /\ row' = [row EXCEPT ![c] = "queued"]
  /\ UNCHANGED <<serving, stage, waits, jobs, runs, gaveUp, unsaved, faults>>

(* CreateCommand, ExecuteTerminalCommand *)
Create(c) ==
  /\ row[c] = "none"
  /\ row' = [row EXCEPT ![c] = "pending"]
  /\ UNCHANGED <<serving, stage, waits, jobs, runs, gaveUp, unsaved, faults>>

\* Seeded fault: plain commands are handed out until they have a result.
OpenUntilDone(k) == {c \in Kind(k) : row[c] \in {"pending", "running"}}

\* Seeded fault: terminal commands are handed out while they are pending.
OpenPending(k) == {c \in Kind(k) : row[c] = "pending"}

(* The rows a poll hands out. *)
Open(k) ==
  {c \in Kind(k) : row[c] = "pending" \/ (k = "terminal" /\ row[c] = "running")}

\* Seeded fault: every row found is saved as running.
MarkAll(found) == found

(* The rows it saves: those it found pending. *)
Mark(found) == {c \in found : row[c] = "pending"}

Query(h) ==
  /\ serving[h].step = "query"
  /\ LET found == Open(serving[h].kind)
     IN serving' = [serving EXCEPT ![h] =
          [@ EXCEPT !.step = "save", !.found = found, !.unmarked = Mark(found)]]
  /\ UNCHANGED <<row, stage, waits, jobs, runs, gaveUp, unsaved, faults>>

(* The query fails: the answer holds nothing. *)
QueryFails(h) ==
  /\ serving[h].step = "query" /\ Fault
  /\ serving' = [serving EXCEPT ![h].step = "save"]
  /\ UNCHANGED <<row, stage, waits, jobs, runs, gaveUp, unsaved>>

(* Save writes the whole row as it was read; its error is not looked at.   *)
SaveRow(h) ==
  \E c \in serving[h].unmarked :
    /\ serving[h].step = "save"
    /\ serving' = [serving EXCEPT ![h].unmarked = @ \ {c}]
    /\ \/ row' = [row EXCEPT ![c] = "running"] /\ UNCHANGED <<unsaved, faults>>
       \/ unsaved' = TRUE /\ Fault /\ UNCHANGED row
    /\ UNCHANGED <<stage, waits, jobs, runs, gaveUp>>

Ready(h) == serving[h].step = "save" /\ serving[h].unmarked = {}

(* Nobody waits for the answer any more. *)
AnswerNobody(h) ==
  /\ Ready(h) /\ waits # h
  /\ serving' = [serving EXCEPT ![h] = Idle]
  /\ UNCHANGED <<row, stage, waits, jobs, runs, gaveUp, unsaved, faults>>

-----------------------------------------------------------------------------
(* The agent *)

\* Seeded fault: once at the terminal commands, the loop stays there.
NextStageLast == stage' = "terminal"

NextStage == stage' = IF stage = "plain" THEN "terminal" ELSE "plain"

Poll(h) ==
  /\ waits = None /\ serving[h] = Idle
  /\ waits' = h
  /\ serving' = [serving EXCEPT ![h] = [Idle EXCEPT !.step = "query", !.kind = stage]]
  /\ UNCHANGED <<row, stage, jobs, runs, gaveUp, unsaved, faults>>

StartOf(c, found) == IF c \in found THEN 1 ELSE 0

Started(h) ==
  LET found == serving[h].found
  IN /\ jobs' = [c \in Commands |-> jobs[c] + StartOf(c, found)]
     /\ runs' = [c \in Commands |-> IF runs[c] = 2 THEN 2 ELSE runs[c] + StartOf(c, found)]

Receive(h) ==
  /\ waits = h /\ Ready(h)
  /\ \A c \in serving[h].found : jobs[c] < MaxJobs
  /\ Started(h)
  /\ waits' = None /\ NextStage
  /\ serving' = [serving EXCEPT ![h] = Idle]
  /\ UNCHANGED <<row, gaveUp, unsaved, faults>>

(* The request or the answer is lost, or 10 s are over: the handler may be *)
(* at any step then.                                                       *)
GiveUp(h) ==
  /\ waits = h /\ Fault
  /\ waits' = None /\ NextStage
  /\ gaveUp' = TRUE
  /\ \/ UNCHANGED serving
     \/ serving[h].step = "query" /\ serving' = [serving EXCEPT ![h] = Idle]
  /\ UNCHANGED <<row, jobs, runs, unsaved>>

(* executeCommand ends, and its one post of the result arrives or not.     *)
PostResult(c) ==
  /\ jobs[c] > 0
  /\ jobs' = [jobs EXCEPT ![c] = @ - 1]
  /\ row' = [row EXCEPT ![c] = "done"]
  /\ UNCHANGED <<serving, stage, waits, runs, gaveUp, unsaved, faults>>

ResultLost(c) ==
  /\ jobs[c] > 0 /\ Fault
  /\ jobs' = [jobs EXCEPT ![c] = @ - 1]
  /\ UNCHANGED <<row, serving, stage, waits, runs, gaveUp, unsaved>>

(* The agent restarts: it remembers nothing. *)
Restart ==
  /\ Fault
  /\ jobs' = [c \in Commands |-> 0]
  /\ stage' = "plain" /\ waits' = None
  /\ gaveUp' = (gaveUp \/ waits # None)
  /\ UNCHANGED <<row, serving, runs, unsaved>>

-----------------------------------------------------------------------------
Next ==
  \/ \E c \in Commands : Create(c) \/ PostResult(c) \/ ResultLost(c)
  \/ \E h \in Handlers :
       \/ Query(h) \/ QueryFails(h) \/ SaveRow(h) \/ AnswerNobody(h)
       \/ Poll(h) \/ Receive(h) \/ GiveUp(h)
  \/ Restart

Spec == Init /\ [][Next]_vars

(* The ticker of the agent runs and handlers come to an end.  The agent    *)
(* sets no limit of time: that a command ends is asked of the command.     *)
Fairness ==
  /\ WF_vars(\E h \in Handlers : Poll(h))
  /\ \A h \in Handlers : WF_vars(Query(h) \/ SaveRow(h) \/ AnswerNobody(h) \/ Receive(h))
  /\ \A c \in Commands : WF_vars(PostResult(c))

FairSpec == Spec /\ Fairness

-----------------------------------------------------------------------------
RowStatus == {"none", "pending", "running", "done"}

HandlerType ==
  [step : {"idle", "query", "save"}, kind : {"plain", "terminal"},
   unmarked : SUBSET Commands, found : SUBSET Commands]

TypeOK ==
  /\ row \in [Commands -> RowStatus]
  /\ serving \in [Handlers -> HandlerType]
  /\ stage \in {"plain", "terminal"} /\ waits \in Handlers \cup {None}
  /\ jobs \in [Commands -> 0 .. MaxJobs] /\ runs \in [Commands -> 0 .. 2]
  /\ gaveUp \in BOOLEAN /\ unsaved \in BOOLEAN /\ faults \in 0 .. MaxFaults

(* command.go: "Update status to Running to prevent duplicated delivery".  *)
(* A plain command is started at most once, whatever is lost, however late *)
(* handlers overlap with the next poll and whenever the agent restarts,    *)
(* unless a save failed.                                                   *)
PlainStartedOnce == unsaved \/ \A c \in Plain : runs[c] <= 1

(* A result stays: only a poll that was given up, or a save that failed,   *)
(* lets a handler write an old row, without output, over a result.         *)
ResultStays ==
  [][\A c \in Commands : row[c] = "done" => row'[c] = "done" \/ gaveUp \/ unsaved]_vars

(* A terminal command gets its result for good: it is handed out again     *)
(* until it has one, also after a result was lost or overwritten.          *)
TerminalAnswered ==
  \A c \in Terminal : row[c] = "pending" ~> [](row[c] = "done")

(* A plain command is not left pending: in the end it is marked, even      *)
(* though the agent may never have seen it.                                *)
PlainTaken == \A c \in Plain : row[c] = "pending" ~> [](row[c] # "pending")

=============================================================================
