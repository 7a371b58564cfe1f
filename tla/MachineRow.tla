----------------------------- MODULE MachineRow -----------------------------
(***************************************************************************)
(* The row of one machine in the table "servers" and all that write it:    *)
(* heartbeats, samples, polls, registrations, the status monitor, the      *)
(* operators.  Handlers run concurrently, without a transaction: most read *)
(* the row, look at it, and later save all its columns; some update a few  *)
(* columns in one statement.                                               *)
(*                                                                         *)
(* wish is what the operator asked for last.  raced says that a handler    *)
(* had a copy in hand then that says otherwise.                            *)
(*                                                                         *)
(* Left out: columns that say nothing of the status, machines that share a *)
(* name or an address (so that finding a row and inserting one is a step), *)
(* an arbitrary status set by PATCH, database errors.                      *)
(***************************************************************************)
EXTENDS Naturals

CONSTANTS
  Handlers,   \* requests under way at a time
  Beat,       \* the one that deals with the agent's present heartbeat
  Monitor,    \* the status monitor
  MaxActs     \* bound: what operators do, registrations

Jobs == Handlers \cup {Beat, Monitor}

ASSUME MachineRowAssumption ==
  Beat # Monitor /\ {Beat, Monitor} \cap Handlers = {} /\ MaxActs \in Nat

VARIABLES
  row,     \* the row
  jobs,    \* what each handler is about to do, and the row it would save
  alive,   \* the agent runs and reaches the backend
  wish, raced,   \* history: see above
  acts

rowVars == <<row, jobs, alive, wish, raced, acts>>

(* silent: LastSeen is older than the threshold. *)
Rows ==
  [there : BOOLEAN, blocked : BOOLEAN, status : {"ONLINE", "OFFLINE", "BLOCKED"},
   online : BOOLEAN, silent : BOOLEAN]

Provisioned ==
  [there |-> TRUE, blocked |-> FALSE, status |-> "ONLINE", online |-> TRUE, silent |-> FALSE]
NoRow ==
  [there |-> FALSE, blocked |-> FALSE, status |-> "OFFLINE", online |-> FALSE, silent |-> TRUE]

(* What a row turns into. *)
Up(r)        == [r EXCEPT !.status = "ONLINE", !.online = TRUE, !.silent = FALSE]
Barred(r)    == [r EXCEPT !.status = "BLOCKED", !.online = FALSE, !.blocked = TRUE]
Lifted(r)    == [Up(r) EXCEPT !.blocked = FALSE]
TimedOut(r)  == [r EXCEPT !.status = "OFFLINE", !.online = FALSE]
Restarted(r) == [r EXCEPT !.status = "ONLINE", !.silent = FALSE]

Refuses(r) == r.blocked \/ r.status = "BLOCKED"

\* Seeded fault: a registration brings a blocked machine back.
RegisteredAnew(r) == Lifted(r)

Registered(r) == IF Refuses(r) THEN Barred(r) ELSE Lifted(r)

\* Seeded fault: the monitor looks at one column to skip what is offline.
OverdueOnline(r) == r.there /\ r.online /\ r.silent

Overdue(r) == r.there /\ r.silent /\ ~(r.status = "OFFLINE" /\ ~r.online)

(* What the API shows. *)
Shows(r) ==
  CASE ~r.there   -> "absent"
    [] Refuses(r) -> "BLOCKED"
    [] r.silent   -> "OFFLINE"
    [] OTHER      -> "ONLINE"

Idler     == [op |-> "none", row |-> NoRow]
Savers    == {"heartbeat", "register", "rewrite", "monitor"}
Plain     == {"recheck", "sample", "update", "purge"}
Free(j)   == jobs[j] = Idler
Do(j, op, r) == jobs' = [jobs EXCEPT ![j] = [op |-> op, row |-> r]]
Finish(j) == jobs' = [jobs EXCEPT ![j] = Idler]

Act == acts < MaxActs /\ acts' = acts + 1

(* Is the row what the operator asked for? *)
Keeps(r, w) ==
  CASE w = "none"    -> r.there /\ ~r.blocked
    [] w = "blocked" -> r.there /\ r.blocked
    [] w = "deleted" -> ~r.there

(* Would what a handler has in hand undo it?  Who asks the table again     *)
(* finds that a machine is blocked, not that it is gone.                   *)
Undoes(job, w) ==
  /\ job.op \in Savers \/ (job.op = "recheck" /\ w = "deleted")
  /\ ~Keeps(job.row, w)

Wishes(w) == wish' = w /\ raced' = \E j \in Jobs : Undoes(jobs[j], w)

NoWish == UNCHANGED <<wish, raced>>

RowInit ==
  /\ row = Provisioned /\ jobs = [j \in Jobs |-> Idler]
  /\ alive = TRUE
  /\ wish = "none" /\ raced = FALSE /\ acts = 0

-----------------------------------------------------------------------------
(* Requests of the agent *)

(* Of the two routes for heartbeats one asks the table once more before it *)
(* saves.  A machine that is not there is refused, like a blocked one.     *)
Heartbeat(j) ==
  /\ alive /\ Free(j) /\ row.there /\ ~Refuses(row)
  /\ \E op \in {"heartbeat", "recheck"} : Do(j, op, Up(row))
  /\ UNCHANGED <<row, alive, acts>> /\ NoWish

Recheck(j) ==
  /\ jobs[j].op = "recheck"
  /\ IF row.there /\ Refuses(row) THEN Finish(j) ELSE Do(j, "heartbeat", jobs[j].row)
  /\ UNCHANGED <<row, alive, acts>> /\ NoWish

(* A sample finds its machine, or provisions it, twice: in the handler and *)
(* in SaveMetric.                                                          *)
Identify(j, next) ==
  /\ IF row.there
     THEN /\ IF Refuses(row) THEN Finish(j) ELSE Do(j, next, NoRow)
          /\ UNCHANGED row /\ NoWish
     ELSE /\ row' = Provisioned /\ Do(j, next, NoRow) /\ Wishes("none")
  /\ UNCHANGED <<alive, acts>>

ReceiveMetrics(j) == alive /\ Free(j) /\ Identify(j, "sample")
SaveMetric(j)     == jobs[j].op = "sample" /\ Identify(j, "update")

(* It updates its columns, of no row when the row was deleted meanwhile.   *)
UpdateRow(j) ==
  /\ jobs[j].op = "update"
  /\ Finish(j)
  /\ row' = IF row.there THEN Up(row) ELSE row
  /\ UNCHANGED <<alive, acts>> /\ NoWish

(* The check of the key stamps the row, of a blocked machine too. *)
Authenticate ==
  /\ alive /\ row.there
  /\ row' = [row EXCEPT !.silent = FALSE]
  /\ UNCHANGED <<jobs, alive, acts>> /\ NoWish

RegisterOrUpdateServer(j) ==
  /\ alive /\ Act /\ Free(j)
  /\ IF row.there
     THEN Do(j, "register", Registered(row)) /\ UNCHANGED row /\ NoWish
     ELSE row' = Provisioned /\ UNCHANGED jobs /\ Wishes("none")
  /\ UNCHANGED alive

AgentComesOrGoes == alive' = ~alive /\ UNCHANGED <<row, jobs, acts>> /\ NoWish

-----------------------------------------------------------------------------
(* The monitor reads the table and saves the rows that are overdue. *)
StatusMonitor ==
  /\ Free(Monitor) /\ Overdue(row)
  /\ Do(Monitor, "monitor", TimedOut(row))
  /\ UNCHANGED <<row, alive, acts>> /\ NoWish

(* The threshold passes for a row that nobody stamps; a heartbeat is dealt *)
(* with faster.                                                            *)
Silence ==
  /\ ~row.silent /\ \A j \in Jobs : jobs[j].op \notin {"heartbeat", "recheck"}
  /\ row' = [row EXCEPT !.silent = TRUE]
  /\ jobs' = [j \in Jobs |-> [jobs[j] EXCEPT !.row.silent = TRUE]]
  /\ UNCHANGED <<alive, acts>> /\ NoWish

-----------------------------------------------------------------------------
(* Operators *)

BlockServer ==
  /\ Act /\ row.there
  /\ row' = Barred(row) /\ Wishes("blocked")
  /\ UNCHANGED <<jobs, alive>>

UnblockServer ==
  /\ Act /\ row.there
  /\ row' = Lifted(row) /\ Wishes("none")
  /\ UNCHANGED <<jobs, alive>>

DeleteServer ==
  /\ Act /\ row.there
  /\ row' = NoRow /\ Wishes("deleted")
  /\ UNCHANGED <<jobs, alive>>

(* Purging deletes what was offline, or blocked, when it looked. *)
PurgeOfflineServers(j) ==
  /\ Act /\ Free(j)
  /\ row.there /\ (row.status = "OFFLINE" \/ ~row.online)
  /\ Do(j, "purge", NoRow)
  /\ UNCHANGED <<row, alive>> /\ NoWish

PurgeServerCascade(j) ==
  /\ jobs[j].op = "purge"
  /\ Finish(j)
  /\ row' = NoRow /\ Wishes("deleted")
  /\ UNCHANGED <<alive, acts>>

(* A new key, a new name; the playbook that restarts services. *)
Rewrite(j) ==
  /\ Act /\ Free(j) /\ row.there
  /\ \E r \in {row, Restarted(row)} : Do(j, "rewrite", r)
  /\ UNCHANGED <<row, alive>> /\ NoWish

(* Save writes all columns; it inserts a row that is not there any more.   *)
Save(j) ==
  /\ jobs[j].op \in Savers
  /\ row' = jobs[j].row
  /\ Finish(j)
  /\ UNCHANGED <<alive, acts>> /\ NoWish

-----------------------------------------------------------------------------
Proceeds(j) ==
  Save(j) \/ Recheck(j) \/ SaveMetric(j) \/ UpdateRow(j) \/ PurgeServerCascade(j)

RowStep ==
  \/ \E j \in Jobs : Proceeds(j)
  \/ \E j \in Handlers \cup {Beat} : Heartbeat(j)
  \/ \E j \in Handlers :
       \/ ReceiveMetrics(j) \/ RegisterOrUpdateServer(j)
       \/ PurgeOfflineServers(j) \/ Rewrite(j)
  \/ StatusMonitor \/ Authenticate \/ AgentComesOrGoes \/ Silence
  \/ BlockServer \/ UnblockServer \/ DeleteServer

RowSpec == RowInit /\ [][RowStep]_rowVars

-----------------------------------------------------------------------------
RowTypeOK ==
  /\ row \in Rows
  /\ jobs \in [Jobs -> [op : {"none"} \cup Savers \cup Plain, row : Rows]]
  /\ alive \in BOOLEAN /\ raced \in BOOLEAN
  /\ wish \in {"none", "blocked", "deleted"}
  /\ acts \in 0 .. MaxActs

(* Unless a handler had an older copy in hand when the operator asked, a   *)
(* blocked machine stays blocked, a deleted one gone until a sample or a   *)
(* registration provisions it, an unblocked one open: through the monitor, *)
(* samples that were under way, purges and registrations.                  *)
OperatorHolds == ~raced => Keeps(row, wish)

(* A machine that falls silent ends as one that the table does not call    *)
(* online; one that goes on with its heartbeats is shown online again and  *)
(* again, whatever the monitor saves, unless the operator wants otherwise  *)
(* or a copy from before is still about.                                   *)
RowSettles ==
  /\ <>[]~alive => <>[](row.there => row.status # "ONLINE")
  /\ <>[](alive /\ wish = "none" /\ ~raced) => []<>(Shows(row) = "ONLINE")

=============================================================================
