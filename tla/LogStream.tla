----------------------------- MODULE LogStream -----------------------------
(***************************************************************************)
(* The live log view (frontend/src/features/logs/FleetTerminal.jsx) and    *)
(* the query language over it (frontend/src/utils/miniSPL.js).             *)
(*                                                                         *)
(* The view loads the history, appends what its socket brings, or keeps it *)
(* apart while it is paused; a query is a pipeline of stages that filter,  *)
(* enrich and order the lines or group them into buckets, and a click on a *)
(* bucket shows its lines.                                                 *)
(*                                                                         *)
(* A line has a container (a name, never 0), which it may lack, and a      *)
(* duration, a number that may be 0, which it may lack and which is known  *)
(* after a stage has extracted it.  Missing stands for a duration that is  *)
(* null and for a container that is ''.  Lines are published in the order  *)
(* of their timestamps.  Left out: parsing, the selection of a machine,    *)
(* percentages, averages, the lines the view adds for its own commands.    *)
(***************************************************************************)
EXTENDS Integers, SequencesExt

CONSTANTS
  Queries,     \* pipelines: sequences of stages
  Kinds,       \* what a line may hold: [container, ms]
  Kept,        \* lines kept when one is appended: 400 in the code
  HistorySize, \* lines of a history: 200 in the code
  MaxLines,    \* bound: lines published
  MaxToggles   \* bound: pauses, resumptions, loads asked for

NoneKey == -1    \* '(none)'
Missing == -2

Columns == {"container", "ms"}

Stages ==
  [op : {"extract", "sort"}]
    \cup [op : {"count", "sum"}, field : Columns]
    \cup [op : {"filter", "limit"}, n : Nat]
    \cup [op : {"where"}, field : Columns \cup {"count"}, n : Nat]

ASSUME LogStreamAssumption ==
  /\ Queries \subseteq Seq(Stages)
  /\ Kinds \subseteq [container : (Nat \ {0}) \cup {Missing}, ms : Nat \cup {Missing}]
  /\ Kinds # {}
  /\ Kept \in Nat \ {0} /\ HistorySize \in Nat \ {0}
  /\ MaxLines \in Nat /\ MaxToggles \in Nat

VARIABLES
  published,  \* the backend: all lines
  lines,      \* what the view has (logs)
  queue,      \* what it keeps apart (pausedQueue)
  streaming,
  wired,      \* its socket is registered at the hub
  past,       \* the load of the history: "none", "sent" or what it got
  query,
  since,      \* ghost: the last history, the queue then and what came since
  toggles

logVars == <<published, lines, queue, streaming, wired, past, query, since, toggles>>

-----------------------------------------------------------------------------
(* The query language *)

(* The members of a set, one after the other in the order of a relation.   *)
Arranged(S, before) ==
  CHOOSE f \in [1 .. Cardinality(S) -> S] :
    \A i, j \in DOMAIN f : i < j => <<f[i], f[j]>> \in before

(* The elements of a sequence at some of its places. *)
At(s, places) ==
  LET order == Arranged(places, {p \in places \X places : p[1] < p[2]})
  IN [n \in DOMAIN order |-> s[order[n]]]

(* A sort by figures v: ties keep their order. *)
Descending(s, v) ==
  LET D == DOMAIN s
      order == Arranged(D, {p \in D \X D : v[p[1]] > v[p[2]] \/ (v[p[1]] = v[p[2]] /\ p[1] < p[2])})
  IN [n \in D |-> s[order[n]]]

NoStats == [by |-> "none", sums |-> FALSE, buckets |-> << >>]

(* getLogFieldValue *)
Value(l, field) ==
  CASE field = "container" -> l.container
    [] field = "ms" -> IF l.extracted THEN l.ms ELSE Missing

(* A count has '(none)' for null, undefined and ''; a sum also for 0.      *)
Key(l, field, sums) ==
  IF Value(l, field) = Missing \/ (sums /\ Value(l, field) = 0) THEN NoneKey ELSE Value(l, field)

Sharing(ls, field, sums, key) == At(ls, {i \in DOMAIN ls : Key(ls[i], field, sums) = key})
Numbered(ls)     == At(ls, {i \in DOMAIN ls : Value(ls[i], "ms") # Missing})
Zeros(ls, field) == At(ls, {i \in DOMAIN ls : Value(ls[i], field) = 0})

TotalMs(ls) ==
  LET sum[n \in 0 .. Len(ls)] == IF n = 0 THEN 0 ELSE sum[n - 1] + ls[n].ms
  IN sum[Len(ls)]

(* One bucket for each key, in the order of their first lines (a Map).     *)
Groups(ls, field, sums) ==
  {i \in DOMAIN ls :
     \A j \in 1 .. i - 1 : Key(ls[j], field, sums) # Key(ls[i], field, sums)}

Bucket(ls, field, sums, key) ==
  LET group == Sharing(ls, field, sums, key)
  IN [key |-> key, count |-> Len(group), value |-> IF sums THEN TotalMs(group) ELSE 0]

Buckets(ls, field, sums) ==
  LET firsts == At(ls, Groups(ls, field, sums))
  IN [n \in DOMAIN firsts |-> Bucket(ls, field, sums, Key(firsts[n], field, sums))]

(* aggregate_count, aggregate_sum: sum drops the lines without a number.   *)
Counts(ls, field) ==
  LET b == Buckets(ls, field, FALSE) IN Descending(b, [i \in DOMAIN b |-> b[i].count])

Sums(ls, field) ==
  LET b == Buckets(Numbered(ls), field, TRUE)
  IN Descending(b, [i \in DOMAIN b |-> b[i].value])

Take(s, n) == SubSeq(s, 1, IF Len(s) < n THEN Len(s) ELSE n)
Latest(s, n) == SubSeq(s, IF Len(s) > n THEN Len(s) - n + 1 ELSE 1, Len(s))

(* sort -ms: lines without the field come last; buckets have none, so they *)
(* are sorted by their keys, (none) last.                                  *)
SortLines(ls)        == Descending(ls, [i \in DOMAIN ls |-> Value(ls[i], "ms")])
SortBuckets(buckets) == Descending(buckets, [i \in DOMAIN buckets |-> buckets[i].key])

FilterLines(ls, n) == At(ls, {i \in DOMAIN ls : ls[i].container = n})

(* where: on the buckets when there are some, by a figure or by the key.   *)
Measure(b, field) == IF field = "count" THEN b.count ELSE b.key

WhereBuckets(buckets, stage) ==
  At(buckets, {i \in DOMAIN buckets :
                 LET m == Measure(buckets[i], stage.field) IN m # NoneKey /\ m >= stage.n})

(* A line without the field goes; a container that is '' compares as 0.    *)
AsNumber(l, field) ==
  IF field = "container" /\ l.container = Missing THEN 0 ELSE Value(l, field)

WhereLines(ls, stage) ==
  At(ls, {i \in DOMAIN ls :
            stage.field # "count" /\ AsNumber(ls[i], stage.field) >= stage.n})

(* One stage of executeMiniSPL.  A filter is of lines also when there are  *)
(* buckets already.                                                        *)
Stage(r, stage) ==
  CASE stage.op = "filter" ->
         [r EXCEPT !.lines = FilterLines(@, stage.n)]
    [] stage.op = "extract" ->
         [r EXCEPT !.lines = [i \in DOMAIN @ |-> [@[i] EXCEPT !.extracted = TRUE]]]
    [] stage.op = "count" ->
         [r EXCEPT !.stats = [by |-> stage.field, sums |-> FALSE, buckets |-> Counts(r.lines, stage.field)]]
    [] stage.op = "sum" ->
         [r EXCEPT !.stats = [by |-> stage.field, sums |-> TRUE, buckets |-> Sums(r.lines, stage.field)]]
    [] stage.op = "where" ->
         IF r.stats # NoStats
         THEN [r EXCEPT !.stats.buckets = WhereBuckets(@, stage)]
         ELSE [r EXCEPT !.lines = WhereLines(@, stage)]
    [] stage.op = "sort" ->
         IF r.stats # NoStats
         THEN [r EXCEPT !.stats.buckets = SortBuckets(@)]
         ELSE [r EXCEPT !.lines = SortLines(@)]
    [] stage.op = "limit" ->
         IF r.stats # NoStats
         THEN [r EXCEPT !.stats.buckets = Take(@, stage.n)]
         ELSE [r EXCEPT !.lines = Take(@, stage.n)]

ExecuteMiniSPL(ls, q) ==
  LET after[n \in 0 .. Len(q)] ==
        IF n = 0 THEN [lines |-> ls, stats |-> NoStats] ELSE Stage(after[n - 1], q[n])
  IN after[Len(q)]

\* Seeded fault: the bare value is compared, as LogsTab does.
DisplayedRaw(r, key) ==
  At(r.lines, {i \in DOMAIN r.lines : Value(r.lines[i], r.stats.by) = key})

(* displayedLogs, after a click on the bucket of that key: a 0 is a value  *)
(* here, also where a sum made the buckets.                                *)
DisplayedLogs(r, key) == Sharing(r.lines, r.stats.by, FALSE, key)

-----------------------------------------------------------------------------
(* The view *)

NoLoad  == [step |-> "none", lines |-> << >>]
Sent    == [step |-> "sent", lines |-> << >>]
Toggle  == toggles < MaxToggles /\ toggles' = toggles + 1

LogInit ==
  /\ published = << >> /\ lines = << >> /\ queue = << >>
  /\ streaming = TRUE /\ wired = FALSE
  /\ past = Sent
  /\ query \in Queries
  /\ since = << >>
  /\ toggles = 0

(* The effect of the socket runs: at the start and after each toggle.      *)
SocketOpens ==
  /\ ~wired
  /\ wired' = TRUE
  /\ UNCHANGED <<published, lines, queue, streaming, past, query, since, toggles>>

(* A line is stored, and broadcast to the sockets that are registered; the *)
(* view puts it behind the others and cuts at the front.                   *)
Publish(kind) ==
  LET l == [id |-> Len(published) + 1, container |-> kind.container, ms |-> kind.ms,
            extracted |-> FALSE]
  IN /\ Len(published) < MaxLines
     /\ published' = Append(published, l)
     /\ CASE ~wired -> UNCHANGED <<lines, queue, since>>
          [] wired /\ streaming ->
               /\ lines' = Append(Latest(lines, Kept), l)
               /\ since' = Append(since, l)
               /\ UNCHANGED queue
          [] wired /\ ~streaming ->
               /\ queue' = Append(queue, l)
               /\ since' = Append(since, l)
               /\ UNCHANGED lines
     /\ UNCHANGED <<streaming, wired, past, query, toggles>>

(* The effect closes the socket and opens another when streaming changes.  *)
Pause ==
  /\ streaming /\ Toggle
  /\ streaming' = FALSE /\ wired' = FALSE
  /\ UNCHANGED <<published, lines, queue, past, query, since>>

\* Seeded fault: the lines kept apart come before those that are shown.
ResumeInFront ==
  /\ ~streaming /\ Toggle
  /\ streaming' = TRUE /\ wired' = FALSE
  /\ lines' = queue \o Latest(lines, Kept)
  /\ queue' = << >>
  /\ UNCHANGED <<published, past, query, since>>

HandleResumeLive ==
  /\ ~streaming /\ Toggle
  /\ streaming' = TRUE /\ wired' = FALSE
  /\ lines' = IF queue = << >> THEN lines ELSE Latest(lines, Kept) \o queue
  /\ queue' = << >>
  /\ UNCHANGED <<published, past, query, since>>

FetchLogsHistory ==
  /\ past = NoLoad /\ Toggle
  /\ past' = Sent
  /\ UNCHANGED <<published, lines, queue, streaming, wired, query, since>>

(* The latest lines, newest first.                                         *)
ServeHistory ==
  /\ past = Sent
  /\ past' \in {[step |-> "answered", lines |-> Reverse(Latest(published, HistorySize))],
                   [step |-> "failed", lines |-> << >>]}
  /\ UNCHANGED <<published, lines, queue, streaming, wired, query, since, toggles>>

(* It is shown as it came, in the place of what came since it was served;  *)
(* the queue stays.                                                        *)
TakeHistory ==
  /\ past.step \in {"answered", "failed"}
  /\ past' = NoLoad
  /\ IF past.step = "answered"
     THEN lines' = past.lines /\ since' = past.lines \o queue
     ELSE UNCHANGED <<lines, since>>
  /\ UNCHANGED <<published, queue, streaming, wired, query, toggles>>

LogStep ==
  \/ SocketOpens \/ Pause \/ HandleResumeLive
  \/ FetchLogsHistory \/ ServeHistory \/ TakeHistory
  \/ \E kind \in Kinds : Publish(kind)

LogSpec == LogInit /\ [][LogStep]_logVars

-----------------------------------------------------------------------------
LineType ==
  [id : 1 .. MaxLines, container : Nat \cup {Missing}, ms : Nat \cup {Missing},
   extracted : BOOLEAN]

LogTypeOK ==
  /\ \A s \in {published, lines, queue, since, past.lines} :
       \A i \in DOMAIN s : s[i] \in LineType
  /\ streaming \in BOOLEAN /\ wired \in BOOLEAN
  /\ past.step \in {"none", "sent", "answered", "failed"}
  /\ query \in Queries /\ toggles \in 0 .. MaxToggles

(* Across pauses, resumptions and loads the view shows, and then keeps     *)
(* apart, the end of this: the last history, newest line first as the      *)
(* backend sent it, then every line it got since, oldest first.  There is  *)
(* no gap, and lines go only when there are Kept of them, at the front:    *)
(* the newest of the history first, any that came since it after them all. *)
StreamKept ==
  /\ IsSuffix(lines \o queue, since)
  /\ lines \o queue = since \/ Len(lines) >= Kept

(* No stage behind the last grouping changes the lines.                    *)
Groupings == {i \in DOMAIN query : query[i].op \in {"count", "sum"}}

GroupingStands ==
  \A i \in DOMAIN query :
    query[i].op \in {"filter", "extract"} => \E j \in Groupings : j > i

(* The figure of a bucket is the number of lines its click displays, also  *)
(* for the lines that lack the field, behind any stages that filter, order *)
(* or cut lines or buckets.  A sum leaves out the lines without a number,  *)
(* and its bucket (none) counts the lines with a 0 too, which no click     *)
(* displays: by so many, and only there, the figure is too large.          *)
Unclicked(r, key) ==
  IF r.stats.sums /\ key = NoneKey THEN Len(Numbered(Zeros(r.lines, r.stats.by))) ELSE 0

Figure(r, key) ==
  LET displayed == DisplayedLogs(r, key)
  IN Len(IF r.stats.sums THEN Numbered(displayed) ELSE displayed) + Unclicked(r, key)

DrillDown ==
  LET r == ExecuteMiniSPL(lines, query)
  IN GroupingStands =>
       \A i \in DOMAIN r.stats.buckets :
         r.stats.buckets[i].count = Figure(r, r.stats.buckets[i].key)

=============================================================================
