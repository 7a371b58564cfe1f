# Infrapilot: formal models of the agent, the backend and the web application

This directory holds TLA+ models of the parts of Infrapilot in which concurrency, failures and
timing decide whether the program is right. TLC checks them on small instances; the theorems of
the modules named `...Proofs` are checked by TLAPS for every value of the constants. Paths below are
relative to the root of the repository.

    tlc -workers 2 -config OfflineQueue.cfg MCOfflineQueue    # a run
    tlapm OfflineQueueProofs.tla                              # the proofs

`PROJECT.json` lists the runs, the source lines of every definition, the hazards, the theorems,
and for every property a seeded fault of the code that breaks it.

## 1. The system

An *agent* runs on every monitored machine and posts samples, heartbeats and events to a *backend*
(Go, PostgreSQL, Redis), which keeps machines, metrics, alerts and commands and serves a *web
application* (React), to which it also pushes events through a WebSocket hub. A small *SRE engine*
stands beside it.

### The agent (`agent/`)

| Component | State | Operations | What makes it correct |
|---|---|---|---|
| Metrics delivery: `sender`, `cache`, `client/retry.go` | `GlobalQueue` (a slice, a mutex, a file), `isReplaying` | `SendMetrics`, `ReplayCachedMetrics`, `QueueMetric`, `PopMetric`, `save`, `load`, `PostWithRetry` | no sample lost below capacity; one replayer; the file follows the queue; no duplicate without a fault; the queue drains |
| Crash monitor: `sremonitor/crash.go` | sliding window of restarts, `escalated`, failed health checks | `Check` (every 15 s), the policy set by the heartbeat | no more restarts than the budget, over the window as its time stamps keep it; silence only after an event was raised; the breaker reopens |
| Disk and latency monitors: `sremonitor/disk.go`, `latency.go` | consecutive counts, alert level | `Check` | hysteresis, one event per transition |
| Commands: `commands/` | none across polls; the API key | poll, execute, report, rotate the key | each command executed at most once; the new key is used |
| Enrolment, heartbeat, configuration: `register`, `heartbeat`, `reconnect`, `config` | configuration file, `state` | loops of `app/run.go` | the agent returns after an outage |
| Collectors, plugins, CLI, scrubber | none of interest | reads of the operating system | - |

### The backend (`backend/`)

| Component | State | Operations | What makes it correct |
|---|---|---|---|
| Alert engine: `alerts/alert_creator.go`, `evaluator.go`, `event_router.go`, `handlers/alerts.go` | alert rows; `breachCounters`, `normalCounters` in memory | evaluation of a sample, creation, resolution, sweep, events, acknowledge/silence/resolve, cleanup | a lasting breach is alerted, a recovery resolved, duplicates are bounded, a rule needs a sustained recovery |
| Health checkers: `alerts/*_checker.go` | none | thresholds over one sample | - |
| Ingestion: `handlers/metric.go`, `services/metric_service.go` | metric rows, latest state of the machine | `ReceiveMetrics` | a retry does no harm, an old sample does not overwrite a new state |
| Machine status: `services/status_monitor.go`, `handlers/heartbeat.go` | machine rows | heartbeat, periodic monitor, block, delete, auto-provision | a status the operator set survives; a silent machine becomes offline |
| Commands: `handlers/command.go`, `terminal_command*.go` | command rows | create, poll, result | a command is delivered once or reported lost |
| Probes: `synthetic/`, `network/` | map of failures in memory, alert rows | probe, alert, clear | an alert ends when its probe passes |
| Stream queue and workers: `queue/queue.go`, `workers/pool.go` | Redis stream, consumer group | publish, consume, retry, dead-letter, acknowledge | at-least-once processing across a worker crash |
| WebSocket hub: `websocket/hub.go` | clients and their channels | register, broadcast, unregister | a slow client blocks nobody, no send on a closed channel |
| Scheduler, event bus, remediation, incidents, deployment, notification, e-mail | maps, rows | - | one run per due time, one notification per alert |
| Repositories, authentication, AI, analytics, reports, other handlers | rows | queries and CRUD | - |

### The web application (`frontend/`)

| Component | State | Operations | What makes it correct |
|---|---|---|---|
| Live connection: `websocket/client.js`, `hooks.js` | socket, pending retry, ping interval | connect, retry after 5 s, disconnect at logout, dispatch of a message | never stranded, never doubled, nothing left running after logout |
| Alert store: `store/alertStore.jsx`, with `AlertsPage.jsx` and the alert menu of `Topbar.jsx` | list of alerts, statistics (the badge), calls under way | fetch, poll, messages, acknowledge, resolve, silence, bulk and all, purge | an active alert is shown; list and badge become those of the backend |
| List of machines: `store/serverStore.jsx`, `ServerSelectDropdown.jsx` | list, selection | fetch, timer, metric and status messages, purge, selection | the list becomes the table; the selection is in it |
| Pages: `features/`, `pages/`, some of `components/` | the data of one thing, calls under way | load, timer, selection, writes, patches | a page shows the thing selected, and what the user changed |
| Live logs: `FleetTerminal.jsx`, `utils/miniSPL.js`, `LogsTab.jsx` | lines, lines kept apart, query, drill-down | history, socket, pause, resume, stages of a query | no line lost or doubled; figures are those of the lines |
| Markup, styles, charts, website | none beyond the above | drawing | - |

### How they interact

The agent posts each sample with up to three attempts. A failed sample goes into the offline
queue and is posted again later. The backend stores it, and evaluates it against the users' rules
and the health checks in the handler of the request; live, retried and replayed samples of one
machine are therefore evaluated concurrently. The agent's monitors restart services themselves
and report events. Commands travel the other way, in the replies to polls. What the backend
stores or evaluates it also broadcasts; a browser copies what it fetched, patches the copy by the
messages and by the answers to its own calls, and calls back when a message says that an alert is
resolved.

Hard to test, and what the models are for: the interleaving of a finishing replayer with the
metrics loop; a crash inside the rewriting of the queue file; a reply lost after the sample was
stored; a bounded queue that overflows; clocks read at different instants of one check; two
requests between the query and the insert of an alert; counters shared by conditions; a sweep that
resolves rows it did not raise; state in memory that a restart loses and the rows do not; a poll
that is given up while its handler goes on; replies that overtake each other and the messages; a
handler that goes on after its call on a page that shows something else by then; a socket that is
replaced while lines arrive. The full list, by source line, is in `PROJECT.json` under `hazards`.
Those no property covers say why.

## 2. The modules

| Module | Models | Runs |
|---|---|---|
| `OfflineQueue` | metrics delivery of one agent, its crashes and its network | `queue` (through `MCOfflineQueue`) |
| `Delivery` | abstract: at-least-once delivery out of a bounded store; `OfflineQueue` implements it | `queue` |
| `OfflineQueueProofs`, `DeliveryProofs` | theorems about `OfflineQueue`; the refinement | - |
| `CrashMonitor` | `Monitor.Check` for one service, with policy, maintenance and time | `crash`, `crash_cooldown` |
| `CrashMonitorProofs` | theorems about `CrashMonitor`: types, budget, events raised | - |
| `AlertLifecycle` | the alerts of one machine, concurrent requests, operators, cleanup, restarts | `alert_*` (through `MCAlertLifecycle`) |
| `AlertLifecycleProofs` | theorems about `AlertLifecycle`: types, duplicates, sustained recovery | - |
| `RemoteCommands` | command rows, the handlers of polls, the polling agent, its restarts | `remote_commands` (through `MCRemoteCommands`) |
| `RemoteCommandsProofs` | theorems about `RemoteCommands` | - |
| `LiveSocket` | the connection of one browser and what the hub keeps of it | with `Dashboard` |
| `Dashboard` | extends `LiveSocket`: the alerts of one browser, next to the rows | `dashboard`, `dashboard_emails` (through `MCDashboard`) |
| `DashboardProofs` | theorems about the connection, alone and in the dashboard, about the list and the types | - |
| `PagePolicies` | the choices the code of each page makes: 60 policies of pages | with `Panels` |
| `Panels` | a page: loads, timer, selection, writes, patches | `pages` |
| `ServerList` | the list of machines and the selection | `pages` |
| `LogStream` | the live log view and the query language | `pages` |
| `MachineRow` | the row of one machine and all that write its status | `pages` |
| `PanelsProofs` | theorems about `Panels`, for all 60 policies | - |
| `FrontendProofs` | theorems about `LogStream` and its query language, `MachineRow` and `ServerList`, and about all views together | - |
| `Frontend` | composes the three views and the machine row, one on the scene at a time | `pages` (through `MCFrontend`) |

Operators marked *Seeded fault* are plausible mistakes in the operator that follows them; nothing
in a specification uses them.

### OfflineQueue

* **Threads.** `Main` is the metrics loop of `app/run.go` with `SendMetrics`; a member of
  `Replayers` is an identity for one goroutine running `ReplayCachedMetrics`. `pc` says where a
  thread stands and `item` which sample is in its hands.
* **Grain.** Each attempt of `PostWithRetry` is a step. `QueueMetric` and `PopMetric` hold
  `GlobalQueue.mu` across the change of the slice *and* the rewriting of the file, and a crash can
  fall into the latter, so each is two steps: the first changes `items` and truncates the file (or
  fails to open it), the second ends the write and releases the mutex. The test of the queue's
  size and the test of `isReplaying` are separate steps because the code takes two mutexes one
  after the other.
* **Backend and network.** `link` is what a request meets: the backend, no answer, or a refusal
  (403 or 410, which ends the retries). `ReplyLost` is a sample that is stored although the agent
  sees a failure: a lost reply, a timeout, or a 5xx after the row was inserted.
* **Samples.** The first `MaxSamples` are followed by number, all later ones are the value
  `Later`; so the loop never stops while the state stays finite. `stored` counts to 2.
* **Crash** loses the slice, the flag and what is in hand; the file stays as it is at that moment.

### CrashMonitor

* `Check` is split where the world can change during it: `Probe` (the first `IsActive`), the
  health check and the decision (`Healthy`, `Tolerate`, `RefuseUnlisted`, `NotifyOnly`, `Suspend`,
  `Trigger`), the restart command (`RestartFails`, `RestartSucceeds`) and the verification.
* **Time.** A time stamp is represented by its age. The code measures from `now`, taken at the
  start of `Check`; `SinceNow` subtracts the ticks elapsed since. Ages stop at `Horizon`, beyond
  every comparison of the code. `run.go` passes ten minutes for both the window and the cooldown,
  hence `RestartWindow <= CooldownDuration`.
* **Restarts.** `Trigger` puts the `now` of the check into `restartTimestamps`, as line 346 does, and
  an age of 0 into the history `recent`: the restart itself is begun at that instant. The two differ
  by up to `MaxElapsed`, the ticks a check may take, and the budget is measured on `recent`.
* **Events.** `SendRemoteEvent` logs an event at once and posts it from a goroutine that drops the
  errors of its retries. `raised` is the last event raised. Whether and in which order events arrive
  is not modelled and nothing is claimed of it; no route of the backend has the path they go to.
* Ticks, changes of the service, of the policy and of the maintenance file interleave freely.

### AlertLifecycle

* **Rows.** A row is followed while it is `ACTIVE` or `OPEN`, which all queries of the engine treat
  alike. Acknowledging, silencing and resolving each read a row and save it with another status;
  for the set of active rows that is one write, `Close`.
* **Requests.** A member of `Handlers` evaluates one request: `Receive` takes the sample (the set
  of the conditions it shows), `Find` queries for an open row, and the counting, the insert, the
  update, the reset of the counters, the sweep's query and each row of the sweep are steps of their
  own, one per database call or critical section. The order of rules and checks inside a request is
  left open. Then the events of the sample are routed.
* **Class** is the pair (category, component) by which the engine finds rows and keeps counters.
  Several checks of one node or container have the same class and share both; rules are looked up
  by id and share with nothing.
* **Faults.** A failed query reads as "no row" or as an empty list; a failed insert or update is
  logged and passed over, in the code and in the model. A restart of the backend loses counters and
  requests, not rows.
* **Operators.** `PerformAlertCleanup` is a query and an update; operators close rows at any time.

### Delivery, the abstract specification

A store holds samples. A sample is collected, delivered (and kept, when the agent does not learn
of it), or discarded, and that only when more than `Capacity` samples are waiting; a crash leaves
some subset of what was collected. `OfflineQueue` maps `held` to the numbered samples in the queue
and in the hands of threads, `waiting` to the number of all of them and `Capacity` to the bound of
the queue; the steps of a save and of the flag are stutters.

### RemoteCommands

* **Handlers.** A member of `Handlers` is the goroutine of one poll: the query, one save per row
  and the answer are steps of their own, as the code uses no transaction. It goes on when the agent
  has given up. The saves write whole rows as they were read.
* **Agent.** `PollAndExecute` polls for plain commands, then for terminal commands, one request at
  a time; each command found is a goroutine (`jobs` counts them by command) whose result is posted
  once. A restart forgets them.
* **Faults.** A query or save that fails, a lost or late poll, a lost result, a restart.

### LiveSocket and Dashboard

* The connection is `EnterpriseWebSocketClient` with one action per event handler. Only the current
  socket is followed, because `connect` and `disconnect` take the handlers from an old one. `pings`
  counts the intervals that run, `pingSet` says whether the client still has the handle.
* The hub hands a message to a registered client (`Delivered`), or the client misses it: it is not
  registered, its buffer is full and it is closed, or the message met a full channel (`Missed`).
* A call of the store (`calls`) is issued, served by the backend at some moment (`Serve...`) and
  answered at a later one (`...Reply`); polls, clicks and messages interleave with it. `fetchAlerts`
  asks for list and statistics at the same time; these are two calls.
* Rows go from `unborn` over `active` and `held` (acknowledged or silenced) to `resolved` and
  `purged`. The engine raises and resolves them at will, which is more than `AlertLifecycle` does.
* A fetch brings a page: the backend sorts active rows before the others and cuts at the limit the
  browser asked for (`PageSize`, 300 in the code). Which of several active rows are the newest is
  not told apart, so any of them may be cut off. `Lasting` rows are active from the start and nobody
  singles them out: they fill the page.
* What the bulk handlers change is taken from `handlers/alerts.go`, what the store shows after them
  from `alertStore.jsx`: they differ, for "resolve all" and for rows that changed meanwhile.

### PagePolicies and Panels

Every page is written by hand, but along one scheme: an effect loads what is selected, a timer or a
button loads it again, handlers call the backend and then load again or patch what is shown.
`PagePolicies` has one definition per page and one per group of handlers, with the choices its code
makes: what a selection does to old data and old requests, whether there is a timer, what a failed
load shows, and for each handler at which moments it patches and loads. `Panels` has the behaviour
these choices lead to; the page is chosen at the start. The content of a thing is a version number:
no property depends on more of it.

* **Handlers.** Each member of `Writers` is a handler under way; `calls` has its call. Several run at
  the same time, are served in any order and answered in any order: `AdminSREPolicyControl` lets a
  second save start while the first is under way, and the answer that comes last is shown. A call
  is `crossed` when another one for the same thing was answered while it waited; what it patches is
  then in doubt. Pages that disable a button while its call is under way have fewer behaviours than
  the model.
* **Lazy pages.** A change of the search of `LogsTab` issues no load (`LogsTab.jsx:115`); the timer does,
  and only while live streaming is on (line 121). The tab has four policies: a selection is of the
  machine (which loads) or of the search (which does not), with the timer or without. A page that
  shows the old search until the next load is marked as strayed.

### MachineRow

* **Handlers.** A request reads the row, looks at it, and in a later step saves all its columns; no
  transaction holds the two together. The copy it will save is part of the state (`jobs`). Samples
  and the operators' block, unblock and delete update columns in one statement instead. `Save` is
  gorm's: it inserts the row again when it is gone.
* **Who writes.** Heartbeats by both routes (`handlers.Heartbeat` asks once more whether the
  machine is blocked, `ServerHeartbeat` does not), samples with their two searches for the machine,
  the stamp of the key check, registration, the status monitor, the operators, and the handlers that
  save the row for another column's sake (`Rewrite`).
* **Time.** `silent` says that `LastSeen` is older than the threshold. `Silence` may come at any
  time, but a heartbeat is answered faster than the threshold passes.
* `wish` is what the operator asked for last; provisioning by a sample or a registration counts as
  a new wish, because the code treats it so. `raced` says that somebody held a copy then that says
  otherwise.

### ServerList, LogStream, Frontend

* `ServerList`: fetches that overtake each other, a sample that marks online or adds its machine, an
  announcement of a status that may get lost, the purge, and the effect that replaces a selection
  which is not in the list (also "all machines", which it does not know).
* `LogStream`: the history, the socket that is replaced at each pause and resumption, the lines kept
  apart; and `executeMiniSPL` as a recursive function, one stage after the other, over lines and
  buckets. A line has the two fields that distinguish the stages: one it may lack, and one that is
  known once it is extracted. `At` and `Descending` are JavaScript's `filter` and stable `sort`. The
  history comes and is stored newest line first, while live lines are put behind it, oldest first;
  when the view is full the newest lines of the history go first. The model does the same.
  A group is found by a `Key` that depends on the stage: a count has "(none)" for a missing value, a
  sum for a 0 as well (`miniSPL.js:1145`), and the click on a bucket compares as the count does.
* `Frontend` composes them, with `MachineRow`, as scenes. They have no state in common, so a product
  would check nothing more; all are in one run.

## 3. The runs

| Run | Question | Instance | Distinct states |
|---|---|---|---|
| `queue` | Is every sample delivered, once, in order, by one replayer? Is it at-least-once delivery? | queue of 2, 2 attempts, 2 goroutines, 2 numbered samples and `Later`, 2 changes of the link, 1 lost reply, 1 failed save, 1 crash | 1 020 000 |
| `crash` | Do the budget, the events and the half-open breaker hold under any clock and policy? | 2 restarts per window of 3 ticks, cooldown of 3, a check lasts up to 2 ticks | 1 650 000 |
| `alert_request` | One request at a time: is a lasting breach alerted for good and a recovery resolved? | a rule, a discrete check, an event, 1 operator action, 1 database failure, 1 restart | 149 000 |
| `alert_rules` | Two overlapping requests and a rule: duplicates and sustained recovery | 1 operator action, 1 database failure, 1 restart | 1 160 000 |
| `alert_checks` | Two overlapping requests and two checks of one class: is a lasting breach alerted again and again? | 2 continuous checks, 1 operator action, 1 restart | 402 000 |
| `remote_commands` | Is a plain command started once, a terminal command answered, a result kept? | 2 plain and 1 terminal command, 2 handlers, a command runs at most twice at a time, 2 faults | 362 000 |
| `dashboard` | Does the browser show the active alerts, and do connection, badge and list come right? | 2 alerts, one of them lasting, a page of 1, 2 calls at a time, a buffer of 1, 1 fault, 1 user action | 642 000 |
| `pages` | Do pages show the thing selected and what the user changed; does the list of machines settle; are log lines kept and counted; does a machine stay as the operator wanted it? | 60 policies over 2 things, 2 handlers and 2 loads at a time, 2 moves, 1 failed call; 2 machines, 2 fetches, 3 moves, 1 fault; 3 lines, a view and a history of 2, 8 queries, 2 toggles; a row with 3 handlers, 3 acts | 821 000 |
| `crash_cooldown`, `alert_blips`, `alert_events`, `dashboard_emails` | What a comment says against what the code does (section 6) | - | - |

Why these bounds are enough. A queue of two overflows, is trimmed at its head and can be out of order;
two attempts are "retried" and "given up"; two goroutine identities suffice to violate the mutual
exclusion of replayers; one fault of each kind can fall on any step, and two changes of the link make
every sequence of one outage and recovery. With two restarts per window a third is the one refused. A
check of up to two ticks can restart late and be followed by prompt ones, with the window still longer
than the check: the budget over the whole window is then exceeded, over the shortened one it is not.
Both counters of the alert engine are 2, the code's default, so blips and sustained breaches differ.
Two handlers are the fewest that overlap; rules and checks share neither rows nor counters, so with
two handlers they are checked apart. Continuous checks are in `alert_checks` only, and there
without database failures: they count breaches as a rule does. `MaxRows` of 4 is more than `DuplicatesBounded` allows, so the
bound cannot hide a violation.

Two handlers of polls are a late one and the next; two faults are, for example, a poll given up and a
save that fails, or a restart and a lost result; a handler saves two plain commands one after the
other. The alerts of a dashboard touch each other through the badge and the page of the list only: one
alert meets every race, and a second one that lasts fills the page of one and cuts the first off. Two
calls at a time overtake each other, a buffer of one is full after one message. Two things are the one
shown and the one selected before; two loads overtake each other, and so do the calls of two handlers;
two moves are a selection and a write, two writes, or a write and somebody else's. A view of two lines
drops its first at the third. Each policy is an initial state, so none is left out. The row of a
machine meets the monitor, a heartbeat and one more request at the same time, and three acts are a
block, an unblock or deletion, and a purge or registration.

### Properties

`OfflineQueue`
: `SingleReplayer` - at most one replayer, and the flag says so, however a finishing replayer and the
  loop interleave. `FileMirrorsQueue` - outside the critical sections the file is the queue unless a
  save failed; after a crash inside the rewriting it claims nothing, for the code loses the queue then
  (a hazard without a property). `NothingLostBelowCapacity` - before an overflow and a crash every
  sample is stored, queued or in hand. `OneCopy` - the agent never holds a sample twice.
  `OnlyFaultsDuplicate` - only a lost reply or a failed save stores a sample twice. `ReplayInOrder` -
  until a replayer has put a sample back, the queue is in order. `EventuallyDrained` - once the
  backend stays reachable the queue is emptied for good. `DeliversAtLeastOnce` - the behaviour is one
  of `Delivery`: in particular nothing leaves the agent undelivered unless it holds more than its
  capacity, or dies.

`CrashMonitor`
: `RestartBudget` - counted from the instants at which restarts are begun, `RestartWindow` less the
  longest check never holds more than `MaxRestarts` of them, through cooldowns, policies and failed
  restarts. Over the whole window the code does not keep the limit once a check was slow (a hazard),
  and no more is claimed. `EscalatedWasRaised` - while the monitor keeps quiet, the last event it
  raised is the failure, not a RESOLVED; not that the backend hears of it. `RemediationResumes` - a
  suspension is never final.

`AlertLifecycle`
: `DuplicatesBounded` - rows of one condition are never more than concurrent requests and failed
  queries explain. The "strict duplicate prevention" of the code's log message is not claimed: query
  and insert are separate statements, without a transaction or a unique index.
  `ResolveNeedsSustainedNormal` - no interleaving resolves a rule's row early.
  `SustainedBreachStaysAlerted` - a breach with a class of its own that every sample shows ends up
  alerted for good, after operators, a restart of the backend and failures. `SustainedBreachIsAlerted`
  - checks of one class hide behind each other's rows, and the reset of a shared counter delays them,
  but a row of the class comes back again and again. `RecoveryIsResolved` - no row of a condition that
  is over stays active, duplicates included.

`RemoteCommands`
: `PlainStartedOnce` - the comment of `handlers/command.go:80`: marking before the answer prevents
  a second delivery, unless a save fails. `PlainTaken` - no plain command stays pending; what the
  code pays for it is that a lost answer loses the command, so no more is claimed. `TerminalAnswered`
  - a terminal command is handed out until it has a result, and in the end keeps one. It may run
  several times, at the same time too; the code does not prevent that and nothing here says it does.
  `ResultStays` - a handler writes an old row over a result only after a poll was given up or a save
  failed.

`Dashboard`
: `SocketSafe` - one ping interval while the socket is open, a retry pending exactly while it is
  closed, nothing after logout. `OnlyRacesHide` - an active alert whose messages have arrived is
  shown, unless a message was missed or met a whole fetch or a "resolve all", or a fetch brought a
  page full of active alerts without it, which happens as soon as there are more than 300. `Reconnects`,
  `BadgeConverges`, `ListConverges` - when the layout (for the list: the alerts page) stays on the
  screen, connection, badge and list come right after everything that went wrong. The list becomes
  the first page of the table: all of it below the limit, above it a page that leaves no active row
  out for one that is not. Without the page open nothing fetches the list again, so nothing is claimed.

`Frontend`
: `OwnDataOnly` - a page mounted anew for each thing shows no other thing's data, and the others do
  only while something is under way, after a failure or after an overtaken answer, a lazy one also
  from a new search to the next load. `SeesWrites` - with all calls of all handlers answered, a page
  shows the thing selected and nothing older than what the page was told was done, unless an answer
  was overtaken or patches came from calls that crossed; a page that is mounted anew while a call is
  under way is another page, and the answer tells it nothing. `PollSettles` - a page with a timer
  comes to show what is there, after crossed saves and searches as well; for `LogsTab` that is while
  its live streaming is on, and the policies without it have no timer. `ListSettles` - the list of
  machines becomes the table and the selection is in it. `OperatorHolds` - a machine stays blocked,
  deleted or open as the operator asked, through the monitor, samples under way, purges and
  registrations, unless a handler had an older copy in hand then; that exception is what the code
  allows, and the property says it is the only one. `RowSettles` - a machine that falls silent ends as
  one the table does not call online, and one that goes on with its heartbeats is shown online again
  and again, whatever the monitor saves. `StreamKept` - what is shown followed by what is kept apart
  is, without gap or repetition, the end of what the view got since its last history, the history
  newest line first and what came since oldest first. That the list is in the order of time is not
  claimed, and not so. `DrillDown` - the figure of a bucket is the number of lines its click displays,
  of those with a number for a sum; the bucket "(none)" of a sum counts the lines with a 0 besides,
  and exactly those are too many. It is claimed of queries whose filters stand before the grouping, as
  a filter behind it changes the lines and not the buckets.

### Fairness

* `OfflineQueue`: weak fairness for each thread. Every request ends by the client's timeout of ten
  seconds, the sleeps of the backoff are finite, and the service manager starts a killed agent
  again (`StartAgent` belongs to the loop). The link is not fair: `EventuallyDrained` assumes it
  stays up. Nothing but a later live upload starts a replayer; that the loop keeps collecting is
  what the property rests on.
* `CrashMonitor`: `Check` is called every 15 seconds and its commands end; time passes. Neither
  outcome of a restart is promised, and the service is not fair.
* `AlertLifecycle`: a request under way ends; the agent posts a sample every interval, so some
  handler receives one again and again (strong fairness, because handlers are busy in between and
  because an event may come first). Operators, failures and restarts are not fair.
* `RemoteCommands`: weak fairness. The agent's ticker fires every three seconds, a handler goes on
  to its end and the result of a command that ended is posted. That a command ends is an
  assumption about what users send: the agent sets it no limit of time, and one that runs for ever
  is never answered. Faults are not fair, and bounded.
* `Dashboard`: weak fairness for a connection attempt, a lost connection and the retry, each of
  which a timer or the network ends, and for serving or answering the call in a slot. The count is
  polled again and again, the list while the alerts page stays open, and no message waits for ever:
  the browser runs each of them when its time has come, and only the bound on calls under way keeps
  one waiting. Users and the hub's faults are not fair.
* `Frontend`: weak fairness for timers, for serving, for the answers and for some handler whose call
  was answered (a handler ends and does not start again without the user, so each gets its turn); for
  the row, also for the ticker of the monitor, for the clock and for the heartbeats of an agent that
  lives. The log view has none: `StreamKept` and `DrillDown` are invariants.

## 4. Proofs

Each proof starts from the named assumptions on the constants of its module alone (bounds are
naturals, some at least one; handlers and alerts are finitely many; the names of threads, handlers and
machines differ), and holds for every queue bound, number of attempts, goroutines, handlers, commands,
alerts, things shown, loads under way, lines, limits and faults.

| Module | Theorem | States |
|---|---|---|
| `OfflineQueueProofs` | `Invariance` | `Spec => []IInv` |
| | `TypeCorrect` | `Spec => []TypeOK`, with the bound of the queue |
| | `OneReplayer` | `Spec => []SingleReplayer` |
| | `FileIsQueue` | `Spec => []FileMirrorsQueue` |
| | `NothingLost` | `Spec => []NothingLostBelowCapacity` |
| `DeliveryProofs` | `Bookkeeping` | `Spec => []Book` |
| | `NoSecondCopy` | `Spec => []OneCopy` |
| | `StoredOnce` | `Spec => []OnlyFaultsDuplicate` |
| | `OrderKept` | `Spec => []ReplayInOrder` |
| | `AgentDelivers` | `Spec => DeliversAtLeastOnce` (the refinement) |
| `DashboardProofs` | `NeverStranded` | `SocketSpec => []SocketSafe` |
| | `DashboardConnection` | `Spec => []SocketSafe`, of `Dashboard` |
| | `OnlyRacesHideAlerts` | `Spec => []OnlyRacesHide` |
| | `DashboardTypeCorrect` | `Spec => []TypeOK` |
| `RemoteCommandsProofs` | `CommandsInvariance` | `Spec => []CInv` |
| | `CommandsTypeCorrect` | `Spec => []TypeOK` |
| | `StartedOnce` | `Spec => []PlainStartedOnce` |
| | `ResultKept` | `Spec => ResultStays` |
| `CrashMonitorProofs` | `SilenceWasRaised` | `Spec => []EscalatedWasRaised` |
| | `BudgetInvariance` | `Spec => []Budgeted` |
| | `MonitorTypeCorrect` | `Spec => []TypeOK` |
| | `BudgetKept` | `Spec => []RestartBudget` |
| `AlertLifecycleProofs` | `AlertInvariance` | `Spec => []Sound` |
| | `AlertTypeCorrect` | `Spec => []TypeOK` |
| | `RowsDoNotPileUp` | `Spec => []DuplicatesBounded` |
| | `ResolvedWhenSustained` | `Spec => ResolveNeedsSustainedNormal` |
| `PanelsProofs` | `PanelInvariance` | `PanelSpec => []PanelSound` |
| | `PanelTypeCorrect` | `PanelSpec => []PanelTypeOK` |
| | `PanelsShowTheirOwn` | `PanelSpec => []OwnDataOnly` |
| | `PanelsSeeWrites` | `PanelSpec => []SeesWrites` |
| `FrontendProofs` | `StreamIsKept` | `LogSpec => []StreamKept` |
| | `LogTypeCorrect` | `LogSpec => []LogTypeOK` |
| | `FiguresDrillDown` | `LogSpec => []DrillDown` |
| | `WishesHold` | `RowSpec => []OperatorHolds` |
| | `RowTypeCorrect` | `RowSpec => []RowTypeOK` |
| | `ListTypeCorrect` | `ListSpec => []ListTypeOK` |
| | `ViewsAlone` | `Spec => PanelSpec /\ ListSpec /\ LogSpec /\ RowSpec` |
| | `FrontendTypeCorrect` | `Spec => []TypeOK` |
| | `FrontendSafe` | `Spec => [](OwnDataOnly /\ SeesWrites /\ StreamKept /\ DrillDown /\ OperatorHolds)` |

**The queue.** None of the properties is inductive alone. `TypeOK` needs that a thread about to
queue or post has a sample in hand (`HandsFull`). `FileMirrorsQueue` needs that the mutex is held
exactly while the file is written (`MutexHeld`). `SingleReplayer` needs that each thread keeps to its
own code (`Roles`) and that no replayer outlives the agent (`DownIsQuiet`): only then does an agent
that starts find the flag clear. `IInv` is their conjunction; one lemma per part (`TypeStep`,
`RolesStep`, `MutexStep`, `ReplayerStep`, `FileStep`) goes through the actions.

`NothingLost` needs one more conjunct about the stopped agent, `NoLoss`: before the first start every
sample is in the file. A step moves a sample from hand to queue (`RangeAppend`), from queue to hand
(`RangeTail`) or to the backend (`RecordCounts`); trimming and pruning are the identity unless they
evict (`NoEviction`, `NoPruning`).

**No second copy, order, refinement.** A step that pops and one that puts back change queue and hand
together, so `Book` counts places: a sample is at one place of the queue or in one hand
(`Copies`), only samples that were taken exist (`Existing`), the queue and the file are sorted until
a replayer has put a sample back (`InOrder`), and a sample that the backend has is nowhere in the
agent any more unless a fault occurred (`Once`). With `Book` and `IInv` every step is sorted by what
it does to the agent's samples (collects, delivers, pops, puts back, evicts, crashes, starts, or
nothing), and each class is a step of `Delivery` or a stutter.

**The connection.** `SocketSafe` becomes inductive with the types and with `pingSet <=> sock = "open"`:
only then does the end of a socket stop the interval it started. `DashboardConnection` takes the
same invariant through the steps of the dashboard, each of which is a step of the connection, of its
messages or none of its.

**Remote commands.** `Marked`: without a failed save, what a handler has found it has saved or will
save before it answers, and what was ever started is no longer pending; so a command in the answer
the agent is about to get was never started. `Fresh`: until a poll was given up the agent waits for
the only handler at work, and the rows that handler has still to save are as it read them; hence no
result is overwritten. `EmptyHanded`: only a handler that has read the table holds rows.

**The list of alerts.** What the browser shows depends on replies that are applied at any later
moment, so the invariant is about them: an alert is `Due` when it is active, no race touched it and no
"created" for it is on the wire. `StoreInv` says that all of `Due` are shown active, and that every
call under way is `Harmless` to them whenever its reply is taken: a list that was served has them or
is a page full of active rows, and then taking it marks those it leaves out as raced
(`PageShowsActive`: a page that is not full of active rows has all of them); "resolve all" found none
of them, a POST for chosen rows has failed or has closed them. `Harmless` survives every step that
makes `Due` smaller and closes more rows (`HarmlessStays`); the only steps that make `Due` larger
receive a message, and those mark the row as raced when a call could hide it.

**The crash monitor.** RESOLVED is raised several steps after the breaker let a restart through. `Quiet`
adds that a check on its way to a restart finds `escalated` cleared, so the RESOLVED it raises cannot
be followed by a silence; every other event is raised in the step that sets `escalated`.

The budget compares the restarts, counted from the instant each is begun, with the time stamps that
the code keeps, and these differ: a stamp is older than its restart by what the check had taken
until then (`Dates`), a clean-up drops some and a cooldown drops all. `Aligned` says what is left in
common: counted from the end, the restarts younger than the window less the longest check are dated by
the last time stamps, one by one. A stamp that is still inside the window is not dropped, so there
are never more of them than the test for a full list allows. It needs that time
stamps are in order (`Sorted`) and none younger than the check under way (`Past`), and that the
cooldown is measured from the last restart (`Ended`), which no restart of the history is younger than;
with `RestartWindow <= CooldownDuration` a reset then forgets nothing that counts. `Cleaned` keeps the
stamps inside the window by their positions, not by `SelectSeq`, which the prover cannot expand.

**The alerts.** Requests that overlap each find no row and each insert one. `Counted` bounds the rows of a
condition *together with* the handlers that have asked in vain and may still insert one (`Pending`):
an insert makes one row out of one such handler, and a handler becomes one only when the query
failed, which is counted, or when there was no row, so that none but handlers are in the sum. `Linked`
says that what a handler has in hand fits where it stands; `Sustained`, that the number of normal
samples a rule counts is never ahead of the run of them that the history saw, whatever counts of
other requests come in between. So the count that resolves is the end of a run. An action property
speaks of every step: `ResolveByCount` shows that no other action leads from counting to resolving.

**The pages.** `Followed`: each load for another thing than the one selected is marked as overtaken,
as a lazy page's loads are at a selection, or the page is of the free kind and a load for the right
thing was issued after it. `Single`: a page that is mounted anew for each thing loads only what it
shows, and so do those of its handlers' calls that it still waits for. The proof goes through the
attributes of a policy (`own`, `timer`, what a write does) and names no page.

`SeesWrites` does depend on every page: that what was told is loaded again, or shown already. What is
needed of the 60 policies and their handlers is one lemma (`PoliciesTell`): whenever a handler awaits its
call, it loads again after the call, or it has patched what is shown at the click (then the page has
one thing to show only) or patches it at the answer. The invariant follows the answers: a load is
`Sure` when it has no answer yet or one that is not older than what the page was told, and every load
is sure, late, or has a sure one behind it (`Covered`). `Told` is the property with the state between
the click and the answer added (`Awaits`: some handler has patched and does not know yet). `UnderWay`
says of every handler under way what its call may be (`Known`): a call for the thing shown that was
served and that no other answer has crossed is not older than what the page was told of, so an answer
that brings an older version is one of a crossed call. `Versions` ties all versions to the moves
made; each call under way will be served once at most, so those not yet served count as moves
(`Pending`, the number of calls sent).

**The log view.** The queue is empty whenever lines are appended to those shown (`LogInv`), so what is
shown followed by the queue is always the end of what came in, the history reversed (`ReversedFits`)
and the rest behind it; the lemmas say what appending, concatenating and cutting to a limit do to the
end of a sequence.

**The query language.** `DrillDown` is a fact about any lines and any pipeline, so it rests on what
the stages compute and not on the steps of the view. `At` and `Descending` are defined through a
bijection from places to places (`ArrangedFits`: a strict total order arranges a finite set, the place
of a member being the number of those before it), so what they return can be counted without
recursion: to select from what was selected counts the places that pass both tests (`AtCounts`). Hence
it makes no difference whether the lines with a number are grouped, as `sum` does, or those with a
number are taken from the group a click displays (`GroupsAndNumbers`). Where a sum puts a 0 into
"(none)", its group is the one of the click and the lines with a 0, which have no line in common
(`SumsAndClicks`). A grouping therefore makes a result that is `Faithful` (every bucket agrees with
its click), and the stages that order, select or cut buckets keep it so, since they leave the lines
alone and invent no bucket (`Within`). The recursion over the stages is unrolled with least elements:
`StagesRun` shows that the recursive function exists and is what it says, by the least stage at which
it would not; `PipelineFaithful` takes the greatest grouping (`Greatest`), behind which, again by a
least counterexample, every result is faithful.

**The machine row.** `RowInv` adds to the property that nobody has a copy in hand that would undo what
the operator asked (the reason why a later save does not), and that a row whose status is BLOCKED is
marked blocked: otherwise a registration would block an open machine. `Proper` is the one argument
all actions share: the row a step leaves and the job it takes up are as the operator asked.

**The application.** The views and the row share no variable, and a step of the application is a step of
one of them and leaves the others alone; so a behaviour of `Frontend` is one of each (`ViewsAlone`), and
what was proved of each alone holds of all (`FrontendTypeCorrect`, `FrontendSafe`). A view added to the
application has to keep that theorem, or its proofs do not carry over.

**Types.** They follow from the invariants above, except for figures. Of the dashboard, `Figured` adds
that an answer is a failed one or a number of alerts; the badge takes only the latter and is otherwise
counted between 0 and its bound. Of the pages and of the log view, versions and numbers of lines are
bounded by the moves made and the lines published.

`IInv`, `NoLoss`, `Book`, `CInv`, `StoreInv`, `Figured`, `Budgeted`, `Sound` and `PanelSound` were
checked by TLC as invariants of the instances of the runs. The run `pages` has two moves, which keeps
it below some minutes; the theorems hold for any number.

Only model-checked: liveness and everything about fairness, which is out of reach of the prover. All
invariants and action properties of the runs are theorems. The induction theorems of the library
take an operator as a parameter, which none of the provers can instantiate; where a proof needs
induction (`MinIsIn`, `TotalIsNat`, `StagesRun`, `PipelineFaithful`) it takes a least counterexample
from the well-foundedness of `<` on the naturals instead. Some definitions are written with the
prover in mind: `Cleaned` (above), the selections and sorts of `LogStream` (by places, not by
`SelectSeq` and `SortSeq`, which the prover cannot expand), its recursive functions `TotalMs` and
`ExecuteMiniSPL` (not folds), and the line that `Publish` makes, a record in full and not an
extension by `@@`.

## 5. Abstractions, and what is not modelled

* `OfflineQueue`: the contents of samples; `state.Connected`, which nothing reads; logs.
  `SendLogs` and `PostWithRetryAndResponse` keep no state. The agent is one process; a second agent
  on the same file is not considered.
* `CrashMonitor`: one service (each has its own `Monitor`); counters that are only reported; what
  becomes of an event after it was raised; `ResetFlap`, which the agent never calls. `CheckHealth` is
  a second `IsActive`, as `AgentController` implements it.
* `AlertLifecycle`: the set of enabled rules is fixed; notifications, the e-mail cooldown and the
  wording of rows are left out, and so are the columns of rows that are no longer active. Other
  writers of alerts (`services/alert_engine.go`, `alert_service.go`, `alert_rule_service.go`,
  `handlers/remediation.go`, `handlers/service.go`) work on rules and rows of their own.
* `RemoteCommands`: one machine; output and verdict of a command, sessions, broadcasts, audit log.
* `Dashboard`: the figures by severity, the clean-up of duplicates, the legacy messages without an
  event name, rooms; a handler's read and save of a row are one step, so what an old copy of a row
  would write back into other columns is not followed (a hazard without a property). The order of
  rows of one status by their age, which decides what a full page leaves out.
* `Panels`: a page has one thing with one version; a page that shows several lists is a page per list
  where they are loaded apart. Buttons that are disabled while a call is under way: the model allows
  the click anyway. Live streaming of `LogsTab` is a choice between policies and not a switch the user
  turns during a behaviour. Which of two crossed saves was the last to be stored is known to the
  backend only; what a page shows after them is in doubt until it loads. That an agent carries out
  what was recorded is `RemoteCommands`.
* `MachineRow`: machines that share a name or an address, and with them the search for a row and
  its insertion as two steps; the status a PATCH may set freely; database errors.
* `LogStream`: parsing of a query, averages and percentages, the selection of a machine.

Not modelled, with the reason for each in `PROJECT.json`:

* *The markup of the web application.* The 72 000 lines of `frontend/src` are mostly JSX: tables,
  dialogs, inline styles and wording, computed from the state that `Dashboard`, `Panels`,
  `ServerList` and `LogStream` model. Their loads, timers, effects and handlers are mapped; the
  markup has no behaviour of its own that a model could get wrong, and no definition claims it.
  A fair share of the longest files (dialogs of `DockerPage`, `UsersPage`, `Reports`) are forms
  whose handlers are single calls.
* *Figures of machines.* Of the machine row only what concerns the status is modelled; old samples
  that overwrite newer figures are a hazard without a property.
* *Probes* (`synthetic/`, `network/`): their alerts go through the engine of `AlertLifecycle`.
* *Stream queue and worker pool*: nothing but the pools' own retries publishes to the streams.
* Disk and latency monitors, enrolment, key rotation, event bus, deployment, remediation,
  e-mail delivery, repositories, authentication, AI, analytics, generated code and deployment files.

## 6. Findings

Each is a disagreement between a comment and the code, shown by a run that violates what the
comment says.

1. `agent/internal/sremonitor/crash.go:265` "Auto-Reset if service has been running stably for >=
   CooldownDuration". Line 269 compares the age of the last *restart* and does not ask whether the
   service was down since; `lastHealthyTimestamp` is never read (`crash_cooldown`).
2. `backend/internal/alerts/alert_creator.go:122` "Require sustained breach before creating a new
   alert (prevents transient blip alerts)". Without an open row a normal sample leaves the breach
   count alone, so breaches need not be consecutive (`alert_blips`).
3. `backend/internal/alerts/evaluator.go:304` "Query active alerts for this machine that originate
   from health checkers (not user rules)". The query also selects rows raised by container and
   cluster events, and the next sample resolves them (`alert_events`).
4. `backend/internal/services/email_service.go:183` "Exactly ONE email on trigger breach, TOTAL
   SILENCE while unresolved, and exactly ONE email on resolution." When the engine resolves an alert
   every open browser posts a resolve of its own (`frontend/src/websocket/hooks.js:91`), and
   `ResolveAlert` sends an e-mail whatever the row's status was (`handlers/alerts.go:456`)
   (`dashboard_emails`).

Seen while modelling, without a run of their own: `LogsTab.jsx:150` compares the bare value of a line
with the key of a bucket, so the bucket "(none)" displays no line (`DrillDown` is about
`FleetTerminal`, which maps the value first; its seeded fault is what `LogsTab` does);
`MachineDetailPage.jsx:220` and `EnterpriseDashboard.jsx:400` wait with `Promise.allSettled`, which
never rejects, and report success when both calls failed (the policies `PatchesAnyway`, which
`SeesWrites` makes an exception for); `backend/internal/utils/decommission.go:32` promises "a
permanent decommission tombstone so the host cannot auto-resurrect", none is written, and the next
sample provisions the machine again (`handlers/metric.go:194`); the offline purge deletes blocked
machines too, whose `online` is false (`handlers/server_handler.go:395`); `UsersPage.jsx:197` confirms
an invitation and calls nobody (`NoCall`); `FleetTerminal.jsx` shows a history newest line first and
puts live lines behind it (`StreamKept` follows it); a click on the bucket "(none)" of a sum leaves
out the lines with a 0 (`miniSPL.js:1145` against `FleetTerminal.jsx:456`); of two saves of a policy
that overlap, `AdminSREPolicyControl.jsx:159` shows the one answered last, which need not be the one
stored last; a check that restarts late dates the restart too early (`crash.go:346`), so that a fourth
restart fits into ten minutes.

## 7. Where to go on

The next steps, in the order of what they would show: the figures of the machine row, composed with
the offline queue, for old samples that overwrite new states; a handler's read and save of an alert
row as two steps; the probes over the alert rows; the events of `CrashMonitor` on their way, once the
backend has a route for them.

On the side of the proofs: the refinement of further abstract specifications, such as one command
queue that `RemoteCommands` implements while nothing is given up.
