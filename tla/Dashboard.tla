------------------------------ MODULE Dashboard ------------------------------
(***************************************************************************)
(* The alerts one browser shows (frontend/src/store/alertStore.jsx,        *)
(* websocket/hooks.js, features/alerts/AlertsPage.jsx, the alert menu of   *)
(* components/layout/Topbar.jsx), next to the rows of the backend.         *)
(*                                                                         *)
(* The store copies the table: a list that is fetched whole, patched by    *)
(* the messages of the hub and by the answers to the user's own calls, and *)
(* a badge with the number of active alerts that is fetched, counted up    *)
(* and down, and polled.  Every call is a request that the backend serves  *)
(* at some moment and whose reply comes at a later one, so calls overtake  *)
(* each other and the messages.                                            *)
(*                                                                         *)
(* A row stands for one occurrence of a condition.  "held" is ACKNOWLEDGED *)
(* or SILENCED.  How the engine raises and resolves rows is AlertLifecycle *)
(* in detail; here it does so at will.  Left out: the legacy messages      *)
(* without an event name (hooks.js treats them as it does the others),     *)
(* metrics and machines, wording, the figures of the badge by severity,    *)
(* the clean-up of duplicates.                                             *)
(***************************************************************************)
EXTENDS LiveSocket, Integers, FiniteSets, FiniteSetsExt

CONSTANTS
  Alerts,     \* rows
  Lasting,    \* bound: rows that are active from the start and that neither
              \* the engine nor a user singles out ("resolve all" does reach them)
  PageSize,   \* rows a fetch of the list brings: 300 in the code
  Slots,      \* calls of the browser under way at a time
  MaxBadge,   \* bound on the badge
  MaxMoves    \* bound: what users and further samples do to the alerts

ASSUME DashboardAssumption ==
  /\ Slots \subseteq Nat /\ Slots # {}
  /\ IsFiniteSet(Alerts) /\ Cardinality(Alerts) <= MaxBadge
  /\ MaxBadge \in Nat /\ MaxMoves \in Nat /\ PageSize \in Nat \ {0}
  /\ Message = {"created", "updated", "resolved"} \X Alerts

VARIABLES
  \* the backend
  row,       \* status of a row
  \* the browser
  page,      \* AlertsPage is open with its auto-refresh
  list,      \* alerts: the status shown, or absent
  badge,     \* stats.total_active
  calls,     \* calls under way
  \* history
  raced,     \* rows whose last message was missed or met a whole fetch, or
             \* that a page full of active rows left out
  moves

storeVars == <<page, list, badge, calls>>
vars      == <<socketVars, row, storeVars, raced, moves>>

RowStatus  == {"unborn", "active", "held", "resolved", "purged"}
ListStatus == {"absent", "active", "held", "resolved"}
Posts      == {"resolve", "bulkResolve", "resolveAll", "hold", "bulkHold", "purge"}

Failed == -1
Idle   == [op |-> "idle", ids |-> {}, rows |-> {}, answer |-> {}]

(* rows and answer are empty until the backend has served them. *)
Call(op, ids) == [op |-> op, ids |-> ids, rows |-> {}, answer |-> {}]

InTable(r) == IF r \in {"unborn", "purged"} THEN "absent" ELSE r
Table      == [a \in Alerts |-> InTable(row[a])]
Active     == {a \in Alerts : row[a] = "active"}
Present    == {a \in Alerts : Table[a] # "absent"}
NoRows     == [a \in Alerts |-> "absent"]
Only(A)    == [a \in Alerts |-> IF a \in A THEN Table[a] ELSE "absent"]

Free == {s \in Slots : calls[s] = Idle}
Issue(op, ids) == Free # {} /\ calls' = [calls EXCEPT ![Min(Free)] = Call(op, ids)]
Busy(ops) == \E s \in Slots : calls[s].op \in ops

(* The provider of the store fetches once, when the application loads. *)
Init ==
  /\ SocketInit
  /\ row \in [Alerts -> {"unborn", "active"}] /\ \A a \in Lasting : row[a] = "active"
  /\ page = FALSE
  /\ list = NoRows /\ badge = 0
  /\ calls = [s \in Slots |-> IF s = Min(Slots) THEN Call("list", {}) ELSE Idle]
  /\ raced = Active
  /\ moves = 0

-----------------------------------------------------------------------------
(* The backend changes a row. *)

Publish(ev, a) ==
  \/ Delivered(<<ev, a>>) /\ UNCHANGED raced
  \/ Missed /\ raced' = IF ev = "created" THEN raced \cup {a} ELSE raced

Move == moves < MaxMoves /\ moves' = moves + 1

Raise(a) ==
  /\ row[a] = "unborn" /\ a \notin Lasting
  /\ row' = [row EXCEPT ![a] = "active"]
  /\ Publish("created", a)
  /\ UNCHANGED <<storeVars, moves>>

Touch(a) ==
  /\ row[a] = "active" /\ a \notin Lasting
  /\ Move
  /\ Publish("updated", a)
  /\ UNCHANGED <<row, storeVars>>

(* ProcessAlertCondition: the condition is back to normal. *)
AutoResolve(a) ==
  /\ row[a] = "active" /\ a \notin Lasting
  /\ row' = [row EXCEPT ![a] = "resolved"]
  /\ Publish("resolved", a)
  /\ UNCHANGED <<storeVars, moves>>

(* Another user acknowledges, silences or resolves. What these handlers    *)
(* broadcast has a type and no event: hooks.js passes over it.             *)
ElsewhereClosed(a) ==
  /\ InTable(row[a]) # "absent" /\ a \notin Lasting
  /\ Move
  /\ \E st \in {"held", "resolved"} : row' = [row EXCEPT ![a] = st]
  /\ UNCHANGED <<socketVars, storeVars, raced>>

-----------------------------------------------------------------------------
(* The backend serves a call. *)

Serves(s, field, value) ==
  /\ calls' = [calls EXCEPT ![s][field] = {value}]
  /\ UNCHANGED <<mounted, sock, timer, pings, pingSet, joined, wire,
                 page, list, badge, raced, moves>>

(* Without a token a call is refused. *)
Refused == IF mounted THEN Fault ELSE UNCHANGED faults

(* ListAlerts sorts the active rows before the others and cuts at the      *)
(* limit it was asked for.  Which of two rows is newer is not told apart   *)
(* here, so any of the active rows, or of the others, may be cut off.      *)
OnFirstPage(A) ==
  /\ A \subseteq Present
  /\ Cardinality(A) = Min({PageSize, Cardinality(Present)})
  /\ A \subseteq Active \/ Active \subseteq A

FirstPages == {Only(A) : A \in {B \in SUBSET Alerts : OnFirstPage(B)}}

(* fetchAlerts takes a list that fails for an empty one; the count that it *)
(* fetches besides is a PollStats that runs at the same time.              *)
ServeList(s) ==
  /\ calls[s].op = "list" /\ calls[s].rows = {}
  /\ \/ mounted /\ (\E rows \in FirstPages : Serves(s, "rows", rows)) /\ UNCHANGED faults
     \/ Serves(s, "rows", NoRows) /\ Refused
  /\ UNCHANGED row

ServeStats(s) ==
  /\ calls[s].op = "stats" /\ calls[s].answer = {}
  /\ \/ mounted /\ Serves(s, "answer", Cardinality(Active)) /\ UNCHANGED faults
     \/ Serves(s, "answer", Failed) /\ Refused
  /\ UNCHANGED row

(* The rows a POST changes, whatever their status was; "all active" means  *)
(* the active ones and the acknowledged ones.                              *)
Targets(call) ==
  CASE call.op = "resolveAll" -> {a \in Alerts : row[a] \in {"active", "held"}}
    [] call.op = "purge"      -> {a \in Alerts : row[a] = "resolved"}
    [] OTHER                  -> {a \in call.ids : InTable(row[a]) # "absent"}

NewStatus(op) ==
  CASE op \in {"hold", "bulkHold"} -> "held"
    [] op = "purge"                -> "purged"
    [] OTHER                       -> "resolved"

Single == {"resolve", "hold"}

(* ResolveAlert and AcknowledgeAlert answer 404 for a row that is gone. *)
ServePost(s) ==
  LET call == calls[s]
      hit  == Targets(call)
  IN /\ call.op \in Posts /\ call.answer = {}
     /\ \/ /\ mounted /\ (call.op \in Single => hit # {})
           /\ Serves(s, "answer", 0)
           /\ row' = [a \in Alerts |-> IF a \in hit THEN NewStatus(call.op) ELSE row[a]]
           /\ UNCHANGED faults
        \/ /\ Serves(s, "answer", Failed)
           /\ IF call.op \in Single /\ hit = {} THEN UNCHANGED faults ELSE Refused
           /\ UNCHANGED row

Serve(s) == ServeList(s) \/ ServeStats(s) \/ ServePost(s)

(* The rows for which a step sends an e-mail that they are resolved: those *)
(* a resolution finds, the resolved ones included.                         *)
Emailed ==
  {a \in Alerts : row[a] = "active" /\ AutoResolve(a)} \cup
  {a \in Alerts : ElsewhereClosed(a) /\ row'[a] = "resolved"} \cup
  UNION {Targets(calls[s]) : s \in {t \in Slots :
           ServePost(t) /\ NewStatus(calls[t].op) = "resolved" /\ calls'[t].answer = {0}}}

-----------------------------------------------------------------------------
(* The browser: messages and replies. *)

\* Seeded fault: the badge is counted down past 0.
DownPast(n) == n - 1

Down(n) == Max({0, n - 1})
Up(n)   == Min({MaxBadge, n + 1})

\* Seeded fault: addAlert only updates alerts that are in the list already.
AddKnown(a) == list' = IF list[a] = "absent" THEN list ELSE [list EXCEPT ![a] = "active"]

AddAlert(a) == list' = [list EXCEPT ![a] = "active"]

(* onMetricsUpdateCallback.  A resolution makes the browser POST a resolve *)
(* of its own; an update counts the badge up once more.                    *)
OnMessage(ev, a) ==
  /\ Receives(<<ev, a>>)
  /\ IF ev = "resolved"
     THEN Issue("resolve", {a}) /\ UNCHANGED <<list, badge>>
     ELSE Issue("stats", {}) /\ AddAlert(a) /\ badge' = Up(badge)
  /\ raced' = IF Busy({"list", "resolveAll"}) THEN raced \cup {a} ELSE raced \ {a}
  /\ UNCHANGED <<row, page, moves>>

Receive == \E m \in Message : OnMessage(m[1], m[2])

Answered(s) == calls[s].answer # {}
Answer(s)   == CHOOSE n \in calls[s].answer : TRUE
Finish(s, next) == calls' = [calls EXCEPT ![s] = next]

\* Seeded fault: a count of 0 is taken for no count.
TakeCountTruthy(s) == badge' = IF Answer(s) \in {Failed, 0} THEN badge ELSE Answer(s)

TakeCount(s) == badge' = IF Answer(s) = Failed THEN badge ELSE Answer(s)

\* Seeded fault: a list that is loaded is not replaced.
TakeRowsOnce(rows) == list' = IF list = NoRows THEN rows ELSE list

TakeRows(rows) == list' = rows

(* What a list cannot show because it is full of active rows. *)
CutOff(rows) ==
  IF Cardinality({a \in Alerts : rows[a] = "active"}) < PageSize THEN {}
  ELSE {a \in Alerts : rows[a] = "absent"}

ListReply(s) ==
  LET rows == CHOOSE f \in calls[s].rows : TRUE
  IN /\ calls[s].op = "list" /\ calls[s].rows # {}
     /\ TakeRows(rows)
     /\ raced' = IF rows = NoRows THEN Active ELSE raced \cup CutOff(rows)
     /\ Finish(s, Idle)
     /\ UNCHANGED badge

StatsReply(s) ==
  /\ calls[s].op = "stats" /\ Answered(s)
  /\ TakeCount(s)
  /\ Finish(s, Idle)
  /\ UNCHANGED <<list, raced>>

(* What the store changes after a successful POST: the alerts it has in    *)
(* its own list, whatever the backend found.                               *)
Shown(call) ==
  CASE call.op = "resolveAll" -> {a \in Alerts : list[a] \in {"active", "held"}}
    [] call.op = "purge"      -> {a \in Alerts : list[a] = "resolved"}
    [] OTHER                  -> {a \in call.ids : list[a] # "absent"}

PostReply(s) ==
  LET op == calls[s].op
      st == InTable(NewStatus(op))
  IN /\ op \in Posts /\ Answered(s)
     /\ IF Answer(s) = Failed
        THEN Finish(s, Idle) /\ UNCHANGED <<list, badge>>
        ELSE /\ list' = [a \in Alerts |-> IF a \in Shown(calls[s]) THEN st ELSE list[a]]
             /\ badge' = CASE op \in Single       -> Down(badge)
                           [] op = "resolveAll"   -> 0
                           [] OTHER               -> badge
             /\ Finish(s, Call("stats", {}))
     /\ UNCHANGED raced

Reply(s) ==
  /\ ListReply(s) \/ StatsReply(s) \/ PostReply(s)
  /\ UNCHANGED <<socketVars, row, page, moves>>

-----------------------------------------------------------------------------
(* The browser: timers and the user. *)

Start(op, ids) == Issue(op, ids) /\ UNCHANGED <<socketVars, row, page, list, badge, raced>>

(* Every 12 s, and every 10 s while AlertsPage is open (or its button). *)
PollStats == Start("stats", {}) /\ UNCHANGED moves
PollList  == page /\ Start("list", {}) /\ UNCHANGED moves

(* The buttons of an alert; the bulk buttons of AlertsPage, whose selection *)
(* may hold alerts that have changed since; "resolve all" of the alert     *)
(* menu; "purge" of AlertsPage.                                            *)
Click ==
  /\ mounted
  /\ Move
  /\ \/ \E a \in Alerts \ Lasting, op \in Single : list[a] \in {"active", "held"} /\ Start(op, {a})
     \/ \E A \in SUBSET {a \in Alerts \ Lasting : list[a] # "absent"}, op \in {"bulkResolve", "bulkHold"} :
          A # {} /\ Start(op, A)
     \/ Start("resolveAll", {})
     \/ Start("purge", {})

Navigate ==
  /\ mounted /\ page' = ~page
  /\ UNCHANGED <<socketVars, row, list, badge, calls, raced, moves>>

Created(w) == {w[i][2] : i \in {j \in DOMAIN w : w[j][1] = "created"}}

(* Logging out unmounts the layout. *)
Connection ==
  /\ ConnectionStep
  /\ raced' = IF wire' = wire THEN raced ELSE raced \cup Created(wire)
  /\ page' = (page /\ mounted')
  /\ IF mounted /\ ~mounted' THEN Move ELSE UNCHANGED moves
  /\ UNCHANGED <<row, list, badge, calls>>

Next ==
  \/ \E a \in Alerts : Raise(a) \/ Touch(a) \/ AutoResolve(a) \/ ElsewhereClosed(a)
  \/ \E s \in Slots : Serve(s) \/ Reply(s)
  \/ Receive \/ PollStats \/ PollList \/ Click \/ Navigate \/ Connection

Spec == Init /\ [][Next]_vars

(* Requests are served and answered, and a slot becomes free again and     *)
(* again.  The interval of the count fires for ever, that of the list      *)
(* while AlertsPage is open, and no message is left waiting for ever.      *)
Fairness ==
  /\ WF_vars(Connection /\ (Opens \/ Closes \/ Retry))
  /\ \A s \in Slots : WF_vars(Serve(s) \/ Reply(s))
  /\ []<><<PollStats>>_vars
  /\ []<>(wire = << >>) \/ []<><<Receive>>_vars
  /\ []<>~page \/ []<><<PollList>>_vars

FairSpec == Spec /\ Fairness

-----------------------------------------------------------------------------
CallType ==
  [op : {"idle", "list", "stats"} \cup Posts, ids : SUBSET Alerts,
   rows : SUBSET [Alerts -> ListStatus], answer : SUBSET (Failed .. MaxBadge)]

TypeOK ==
  /\ SocketTypeOK
  /\ row \in [Alerts -> RowStatus] /\ raced \subseteq Alerts
  /\ page \in BOOLEAN /\ list \in [Alerts -> ListStatus] /\ badge \in 0 .. MaxBadge
  /\ calls \in [Slots -> CallType]
  /\ moves \in 0 .. MaxMoves

(* The patches of the list compose: an active alert whose last message was *)
(* received is shown active, whatever the user and his replies did since,  *)
(* unless a whole fetch or a "resolve all" was under way at that moment    *)
(* (its older reply wins), or a fetch brought a page full of active alerts *)
(* without it (there are more than PageSize).                              *)
OnlyRacesHide ==
  \A a \in Active \ raced :
    (\A i \in DOMAIN wire : wire[i][2] # a) => list[a] = "active"

(* The badge is counted up twice for one alert and down for an alert that  *)
(* was not active; once the alerts are quiet the poll sets it right.       *)
BadgeConverges == <>[]mounted => <>[](badge = Cardinality(Active))

(* Only AlertsPage fetches the list again: while it is open the list, with *)
(* all that was missed, raced or resolved by others, becomes the first     *)
(* page of the table as it is: the whole table if it has PageSize rows at  *)
(* most, and no active row is left out for one that is not.                *)
ListConverges == <>[]page => <>[](list \in FirstPages)

(* email_service.go: "Exactly ONE email on trigger breach, TOTAL SILENCE   *)
(* while unresolved, and exactly ONE email on resolution."                 *)
OneResolutionEmail == [][\A a \in Emailed : row[a] # "resolved"]_vars

=============================================================================
