--------------------------- MODULE AlertLifecycle ---------------------------
(***************************************************************************)
(* The alerts of one machine (backend/internal/alerts and                  *)
(* backend/internal/handlers/alerts.go).                                   *)
(*                                                                         *)
(* Each metrics POST is evaluated by its own handler: first the users'     *)
(* rules, then the built-in health checks; then a sweep resolves the rows  *)
(* whose condition the sample no longer shows, and the events the sample   *)
(* carries are routed.  Handlers of one machine overlap: the agent's live  *)
(* samples, its replayed samples and its retries are separate requests.    *)
(* Each database call and each critical section of breachCountersMu is a   *)
(* step.                                                                   *)
(*                                                                         *)
(* A row is followed while its status is ACTIVE (or OPEN, which every      *)
(* query treats alike); acknowledged, silenced and resolved rows are seen  *)
(* by no query of these parts.  Left out: notifications, broadcasts, the   *)
(* wording and values of a row, and the event counters that only word it.  *)
(***************************************************************************)
EXTENDS Naturals, Integers, FiniteSets, FiniteSetsExt, Functions

CONSTANTS
  Rules,        \* enabled user rules of the machine
  Checks,       \* conditions the health checks raise
  Discrete,     \* the checks that alert at once: services and security
  Events,       \* container and cluster events
  Class,        \* category and component of a condition
  Handlers,     \* requests evaluated at a time
  ReqBreaches,  \* ConsecutiveBreachesRequired: 2 by default
  ReqNormal,    \* ConsecutiveNormalRequired: 2 by default
  MaxRows,      \* bound: rows of one condition in use
  MaxCloses, MaxDbFails, MaxRestarts  \* bounds on operators and faults

None == "none"

Conditions == Rules \cup Checks \cup Events

ASSUME AlertAssumption ==
  /\ Discrete \subseteq Checks
  /\ Rules \cap Checks = {} /\ Rules \cap Events = {} /\ Checks \cap Events = {}
  /\ None \notin Conditions
  /\ Class \in [Conditions -> Range(Class)]
  /\ \A r \in Rules \cup Events, k \in Conditions : Class[r] = Class[k] => r = k
  /\ IsFiniteSet(Handlers)
  /\ ReqBreaches \in Nat \ {0} /\ ReqNormal \in Nat \ {0}
  /\ MaxRows \in Nat /\ MaxCloses \in Nat
  /\ MaxDbFails \in Nat /\ MaxRestarts \in Nat

VARIABLES
  \* the table of alerts
  active,    \* the rows whose status is ACTIVE or OPEN
  \* the memory of the backend
  breach,    \* breachCounters, up to ReqBreaches
  normal,    \* normalCounters, up to ReqNormal
  \* the handlers
  pc, sample, todo, key, found, sweep,
  dups,      \* rows PerformAlertCleanup is about to resolve
  \* history
  trend,     \* of a rule: the last n counts were breaches (n) or normal (-n)
  closes, dbFails, restarts

handlers == <<pc, sample, todo, key, found, sweep>>
faults   == <<closes, dbFails, restarts>>
vars     == <<active, breach, normal, handlers, dups, trend, faults>>

Row      == Conditions \X (1 .. MaxRows)  \* what it is about, and an id
About(i) == i[1]
Counters == Range(Class)
PCs      == {"idle", "evaluate", "events", "count", "confirm", "create", "resolve",
             "reset", "sweep"}

Init ==
  /\ active = {}
  /\ breach = [c \in Counters |-> 0]
  /\ normal = [r \in Rules |-> 0]
  /\ pc = [h \in Handlers |-> "idle"]
  /\ sample = [h \in Handlers |-> {}]
  /\ todo = [h \in Handlers |-> {}]
  /\ key = [h \in Handlers |-> None]
  /\ found = [h \in Handlers |-> {}]
  /\ sweep = [h \in Handlers |-> {}]
  /\ dups = {}
  /\ trend = [r \in Rules |-> 0]
  /\ closes = 0 /\ dbFails = 0 /\ restarts = 0

-----------------------------------------------------------------------------
(* The WHERE clauses of FindOpenAlert, ProcessGeneratedAlert and           *)
(* RouteInfrastructureEvent: a check also finds the row of another check   *)
(* of its category and component.                                          *)
Matching(k) == {i \in active : Class[About(i)] = Class[k]}

(* Rows that some step still names by id are not used again. *)
InUse == active \cup dups \cup UNION {found[h] \cup sweep[h] : h \in Handlers}

Unused(k) == {n \in 1 .. MaxRows : <<k, n>> \notin InUse}

UpTo(n, max) == IF n < max THEN n ELSE max

(* A handler is done with a condition: on to the next one, to the sweep,   *)
(* to the events, or to the reply.                                         *)
Goto(h, where) ==
  /\ pc' = [pc EXCEPT ![h] = where]
  /\ key' = [key EXCEPT ![h] = None]
  /\ found' = [found EXCEPT ![h] = {}]
  /\ sample' = IF where = "idle" THEN [sample EXCEPT ![h] = {}] ELSE sample

Loop(h, k) ==
  IF k \in Rules \cup Checks THEN "evaluate"
  ELSE IF todo[h] \ {k} # {} THEN "events" ELSE "idle"

-----------------------------------------------------------------------------
\* Seeded fault: a rule is evaluated only when the sample breaches it.
ReceiveBreached(h) ==
  /\ pc[h] = "idle"
  /\ \E S \in SUBSET Conditions :
       /\ sample' = [sample EXCEPT ![h] = S]
       /\ todo' = [todo EXCEPT ![h] = S \cap (Rules \cup Checks)]
  /\ pc' = [pc EXCEPT ![h] = "evaluate"]
  /\ UNCHANGED <<active, breach, normal, key, found, sweep, dups, trend, faults>>

(* ReceiveMetrics calls EvaluateMetrics. A replayed sample may show any    *)
(* earlier state of the machine.                                           *)
Receive(h) ==
  /\ pc[h] = "idle"
  /\ \E S \in SUBSET Conditions :
       /\ sample' = [sample EXCEPT ![h] = S]
       /\ todo' = [todo EXCEPT ![h] = Rules \cup (S \cap Checks)]
  /\ pc' = [pc EXCEPT ![h] = "evaluate"]
  /\ UNCHANGED <<active, breach, normal, key, found, sweep, dups, trend, faults>>

(* IngestEventHTTP: an event on its own, or the end of one. *)
ReceiveEvent(h) ==
  /\ pc[h] = "idle"
  /\ \E e \in Events : todo' = [todo EXCEPT ![h] = {e}]
  /\ pc' = [pc EXCEPT ![h] = "events"]
  /\ UNCHANGED <<active, breach, normal, sample, key, found, sweep, dups, trend, faults>>

ReceiveRecovery(h) ==
  /\ pc[h] = "idle"
  /\ \E e \in Events : \E i \in Matching(e) :
       /\ key' = [key EXCEPT ![h] = e]
       /\ found' = [found EXCEPT ![h] = {i}]
  /\ pc' = [pc EXCEPT ![h] = "resolve"]
  /\ UNCHANGED <<active, breach, normal, sample, todo, sweep, dups, trend, faults>>

(* The rules come before the checks. *)
Ahead(h) == IF todo[h] \cap Rules # {} THEN todo[h] \cap Rules ELSE todo[h]

\* Seeded fault: hasOpenAlert is not tested before an auto-resolution.
AfterFindUntested(h, k, F) ==
  IF k \in Rules THEN "count"
  ELSE IF F # {} THEN Loop(h, k)
  ELSE IF k \in Discrete \cup Events THEN "create" ELSE "count"

AfterFind(h, k, F) ==
  IF k \in Rules
  THEN IF k \in sample[h] \/ F # {} THEN "count" ELSE "evaluate"
  ELSE IF F # {} THEN Loop(h, k)
  ELSE IF k \in Discrete \cup Events THEN "create" ELSE "count"

Calmer(n) == IF n > 0 THEN -1 ELSE IF n > -ReqNormal THEN n - 1 ELSE n

(* The query for an open alert. A query that fails counts as "none open".  *)
Query(k, F) ==
  \/ /\ IF Matching(k) = {} THEN F = {} ELSE \E i \in Matching(k) : F = {i}
     /\ UNCHANGED dbFails
  \/ /\ F = {} /\ Matching(k) # {}
     /\ dbFails < MaxDbFails
     /\ dbFails' = dbFails + 1

Find(h) ==
  /\ pc[h] \in {"evaluate", "events"}
  /\ \E k \in Ahead(h), F \in SUBSET active :
       /\ Query(k, F)
       /\ todo' = [todo EXCEPT ![h] = @ \ {k}]
       /\ LET where == AfterFind(h, k, F)
          IN IF where \in {"count", "create"}
             THEN /\ pc' = [pc EXCEPT ![h] = where]
                  /\ key' = [key EXCEPT ![h] = k]
                  /\ found' = [found EXCEPT ![h] = F]
                  /\ UNCHANGED <<sample, trend>>
             ELSE /\ Goto(h, where)
                  /\ trend' = [r \in Rules |-> IF r = k THEN Calmer(trend[r]) ELSE trend[r]]
  /\ UNCHANGED <<active, breach, normal, sweep, dups, closes, restarts>>

\* Seeded fault: a breach creates a row whether or not one was found.
CountBreachAgain(h) ==
  LET r == key[h]
      n == UpTo(breach[Class[r]] + 1, ReqBreaches)
  IN /\ pc[h] = "count" /\ r \in Rules /\ r \in sample[h]
     /\ normal' = [normal EXCEPT ![r] = 0]
     /\ breach' = [breach EXCEPT ![Class[r]] = n]
     /\ trend' = [trend EXCEPT ![r] = UpTo((IF @ > 0 THEN @ ELSE 0) + 1, ReqBreaches)]
     /\ IF n >= ReqBreaches
        THEN pc' = [pc EXCEPT ![h] = "create"] /\ UNCHANGED <<sample, key, found>>
        ELSE Goto(h, "evaluate")
     /\ UNCHANGED <<active, todo, sweep, dups, faults>>

\* Seeded fault: a breach leaves the count of normal samples as it is.
CountBreachKeepsNormal(h) ==
  LET r == key[h]
      n == UpTo(breach[Class[r]] + 1, ReqBreaches)
  IN /\ pc[h] = "count" /\ r \in Rules /\ r \in sample[h]
     /\ breach' = [breach EXCEPT ![Class[r]] = n]
     /\ trend' = [trend EXCEPT ![r] = UpTo((IF @ > 0 THEN @ ELSE 0) + 1, ReqBreaches)]
     /\ IF found[h] = {} /\ n >= ReqBreaches
        THEN pc' = [pc EXCEPT ![h] = "create"] /\ UNCHANGED <<sample, key, found>>
        ELSE Goto(h, "evaluate")
     /\ UNCHANGED <<active, normal, todo, sweep, dups, faults>>

(* ProcessAlertCondition, the rule is breached. *)
CountBreach(h) ==
  LET r == key[h]
      n == UpTo(breach[Class[r]] + 1, ReqBreaches)
  IN /\ pc[h] = "count" /\ r \in Rules /\ r \in sample[h]
     /\ normal' = [normal EXCEPT ![r] = 0]
     /\ breach' = [breach EXCEPT ![Class[r]] = n]
     /\ trend' = [trend EXCEPT ![r] = UpTo((IF @ > 0 THEN @ ELSE 0) + 1, ReqBreaches)]
     /\ IF found[h] = {} /\ n >= ReqBreaches
        THEN pc' = [pc EXCEPT ![h] = "create"] /\ UNCHANGED <<sample, key, found>>
        ELSE Goto(h, "evaluate")
     /\ UNCHANGED <<active, todo, sweep, dups, faults>>

CountNormal(h) ==
  LET r == key[h]
      n == UpTo(normal[r] + 1, ReqNormal)
  IN /\ pc[h] = "count" /\ r \in Rules /\ r \notin sample[h]
     /\ breach' = [breach EXCEPT ![Class[r]] = 0]
     /\ normal' = [normal EXCEPT ![r] = n]
     /\ trend' = [trend EXCEPT ![r] = Calmer(@)]
     /\ IF n >= ReqNormal
        THEN pc' = [pc EXCEPT ![h] = "resolve"] /\ UNCHANGED <<sample, key, found>>
        ELSE Goto(h, "evaluate")
     /\ UNCHANGED <<active, todo, sweep, dups, faults>>

\* Seeded fault: the count does not outlive the request.
CountCheckForgets(h) ==
  /\ pc[h] = "count" /\ key[h] \in Checks
  /\ IF ReqBreaches = 1
     THEN pc' = [pc EXCEPT ![h] = "confirm"] /\ UNCHANGED <<sample, key, found>>
     ELSE Goto(h, "evaluate")
  /\ UNCHANGED <<active, breach, normal, todo, sweep, dups, trend, faults>>

(* ProcessGeneratedAlert of a continuous metric, no row found. *)
CountCheck(h) ==
  LET n == UpTo(breach[Class[key[h]]] + 1, ReqBreaches)
  IN /\ pc[h] = "count" /\ key[h] \in Checks
     /\ breach' = [breach EXCEPT ![Class[key[h]]] = n]
     /\ IF n >= ReqBreaches
        THEN pc' = [pc EXCEPT ![h] = "confirm"] /\ UNCHANGED <<sample, key, found>>
        ELSE Goto(h, "evaluate")
     /\ UNCHANGED <<active, normal, todo, sweep, dups, trend, faults>>

Confirm(h) ==
  /\ pc[h] = "confirm"
  /\ breach' = [breach EXCEPT ![Class[key[h]]] = 0]
  /\ pc' = [pc EXCEPT ![h] = "create"]
  /\ UNCHANGED <<active, normal, sample, todo, key, found, sweep, dups, trend, faults>>

Create(h) ==
  /\ pc[h] = "create"
  /\ Unused(key[h]) # {}
  /\ active' = active \cup {<<key[h], Min(Unused(key[h]))>>}
  /\ Goto(h, Loop(h, key[h]))
  /\ UNCHANGED <<breach, normal, todo, sweep, dups, trend, faults>>

CreateFails(h) ==
  /\ pc[h] = "create"
  /\ dbFails < MaxDbFails
  /\ dbFails' = dbFails + 1
  /\ Goto(h, Loop(h, key[h]))
  /\ UNCHANGED <<active, breach, normal, todo, sweep, dups, trend, closes, restarts>>

(* A rule that is back to normal, or an event that is over: the row is     *)
(* resolved by its id.                                                     *)
Resolve(h) ==
  /\ pc[h] = "resolve"
  /\ active' = active \ found[h]
  /\ IF key[h] \in Rules
     THEN /\ pc' = [pc EXCEPT ![h] = "reset"]
          /\ found' = [found EXCEPT ![h] = {}]
          /\ UNCHANGED <<sample, key>>
     ELSE Goto(h, "idle")
  /\ UNCHANGED <<breach, normal, todo, sweep, dups, trend, faults>>

ResolveFails(h) ==
  /\ pc[h] = "resolve"
  /\ dbFails < MaxDbFails
  /\ dbFails' = dbFails + 1
  /\ Goto(h, Loop(h, key[h]))
  /\ UNCHANGED <<active, breach, normal, todo, sweep, dups, trend, closes, restarts>>

(* After the sweep come the events of the sample. *)
AfterSweep(h, rows) ==
  IF rows # {} THEN "sweep" ELSE IF sample[h] \cap Events # {} THEN "events" ELSE "idle"

(* ResetBreachCounter, of a resolved rule or in the sweep. *)
Reset(h) ==
  /\ pc[h] = "reset"
  /\ breach' = [breach EXCEPT ![Class[key[h]]] = 0]
  /\ normal' = [r \in Rules |-> IF r = key[h] THEN 0 ELSE normal[r]]
  /\ IF key[h] \in Rules
     THEN Goto(h, "evaluate") /\ UNCHANGED todo
     ELSE /\ Goto(h, AfterSweep(h, sweep[h]))
          /\ todo' = [todo EXCEPT ![h] = sample[h] \cap Events]
  /\ UNCHANGED <<active, sweep, dups, trend, faults>>

\* Seeded fault: the generated keys are not looked at.
StaleAll(h) == {i \in active : About(i) \in Events \cup Checks}

\* Seeded fault: the keys are compared without their type.
StaleByClass(h) ==
  {i \in active : About(i) \in Events \cup Checks
                    /\ \A k \in sample[h] : Class[k] # Class[About(i)]}

(* The sweep: the active rows of no rule whose key was not generated. No   *)
(* event has a generated key. Nothing looks at a database error here: a    *)
(* failed query is an empty list, a failed update leaves the row active.   *)
Stale(h) == {i \in active : About(i) \in Events \cup (Checks \ sample[h])}

SweepQuery(h) ==
  /\ pc[h] = "evaluate" /\ todo[h] = {}
  /\ \E rows \in {Stale(h), {}} :
       /\ \/ rows = Stale(h) /\ UNCHANGED dbFails
          \/ rows # Stale(h) /\ dbFails < MaxDbFails /\ dbFails' = dbFails + 1
       /\ sweep' = [sweep EXCEPT ![h] = rows]
       /\ Goto(h, AfterSweep(h, rows))
  /\ todo' = [todo EXCEPT ![h] = sample[h] \cap Events]
  /\ UNCHANGED <<active, breach, normal, dups, trend, closes, restarts>>

SweepRow(h) ==
  /\ pc[h] = "sweep"
  /\ \E i \in sweep[h] :
       /\ \/ active' = active \ {i} /\ UNCHANGED dbFails
          \/ dbFails < MaxDbFails /\ dbFails' = dbFails + 1 /\ UNCHANGED active
       /\ sweep' = [sweep EXCEPT ![h] = @ \ {i}]
       /\ key' = [key EXCEPT ![h] = About(i)]
  /\ pc' = [pc EXCEPT ![h] = "reset"]
  /\ UNCHANGED <<breach, normal, sample, todo, found, dups, trend, closes, restarts>>

-----------------------------------------------------------------------------
(* Acknowledge, silence or resolve: each writes its status whatever the    *)
(* status was.                                                             *)
Close(i) ==
  /\ i \in active
  /\ closes < MaxCloses
  /\ closes' = closes + 1
  /\ active' = active \ {i}
  /\ UNCHANGED <<breach, normal, handlers, dups, trend, dbFails, restarts>>

(* PerformAlertCleanup keeps one row per condition: the newest, and which  *)
(* one that is does not matter here.                                       *)
CleanupQuery ==
  /\ dups = {}
  /\ \E D \in SUBSET active :
       /\ D # {}
       /\ \A i \in active : \E j \in active \ D : About(j) = About(i)
       /\ \A i, j \in active \ D : About(i) = About(j) => i = j
       /\ dups' = D
  /\ UNCHANGED <<active, breach, normal, handlers, trend, faults>>

CleanupUpdate ==
  /\ dups # {}
  /\ active' = active \ dups
  /\ dups' = {}
  /\ UNCHANGED <<breach, normal, handlers, trend, faults>>

(* The counters and the requests under way are lost, the rows are not. *)
BackendRestarts ==
  /\ restarts < MaxRestarts
  /\ restarts' = restarts + 1
  /\ breach' = [c \in Counters |-> 0]
  /\ normal' = [r \in Rules |-> 0]
  /\ pc' = [h \in Handlers |-> "idle"]
  /\ sample' = [h \in Handlers |-> {}]
  /\ todo' = [h \in Handlers |-> {}]
  /\ key' = [h \in Handlers |-> None]
  /\ found' = [h \in Handlers |-> {}]
  /\ sweep' = [h \in Handlers |-> {}]
  /\ dups' = {}
  /\ UNCHANGED <<active, trend, closes, dbFails>>

-----------------------------------------------------------------------------
Evaluate(h) ==
  \/ Find(h) \/ CountBreach(h) \/ CountNormal(h) \/ CountCheck(h) \/ Confirm(h)
  \/ Create(h) \/ CreateFails(h) \/ Resolve(h) \/ ResolveFails(h) \/ Reset(h)
  \/ SweepQuery(h) \/ SweepRow(h)

Next ==
  \/ \E h \in Handlers : Receive(h) \/ ReceiveEvent(h) \/ ReceiveRecovery(h) \/ Evaluate(h)
  \/ \E i \in Row : Close(i)
  \/ CleanupQuery \/ CleanupUpdate \/ BackendRestarts

Spec == Init /\ [][Next]_vars

(* The agent posts a sample every interval; a request that is under way    *)
(* ends.                                                                   *)
FairSpec ==
  /\ Spec
  /\ \A h \in Handlers : WF_vars(Evaluate(h))
  /\ SF_vars(\E h \in Handlers : Receive(h))
  /\ WF_vars(CleanupUpdate)

-----------------------------------------------------------------------------
(* Types, and that a handler about to resolve has a row in hand: its       *)
(* existingAlert is not nil.                                               *)
TypeOK ==
  /\ active \in SUBSET Row
  /\ breach \in [Counters -> 0 .. ReqBreaches]
  /\ normal \in [Rules -> 0 .. ReqNormal]
  /\ pc \in [Handlers -> PCs]
  /\ sample \in [Handlers -> SUBSET Conditions]
  /\ todo \in [Handlers -> SUBSET Conditions]
  /\ key \in [Handlers -> Conditions \cup {None}]
  /\ found \in [Handlers -> SUBSET Row]
  /\ \A h \in Handlers : pc[h] = "resolve" => found[h] # {}
  /\ sweep \in [Handlers -> SUBSET Row]
  /\ dups \in SUBSET Row
  /\ trend \in [Rules -> -ReqNormal .. ReqBreaches]
  /\ closes \in 0 .. MaxCloses /\ dbFails \in 0 .. MaxDbFails
  /\ restarts \in 0 .. MaxRestarts

(* The query and the insert are separate, so requests that overlap can     *)
(* each insert a row where the code means to have one. But rows do not     *)
(* pile up: there are never more for one condition than requests evaluated *)
(* at a time and failed queries.                                           *)
DuplicatesBounded ==
  \A k \in Conditions : Cardinality(Matching(k)) <= Cardinality(Handlers) + dbFails

(* "waiting for sustained normal before auto-resolving": however requests  *)
(* interleave, the row of a rule is resolved only after ReqNormal counts   *)
(* of a normal sample in a row, with no breach counted in between.         *)
ResolveNeedsSustainedNormal ==
  [][\A h \in Handlers :
       pc[h] = "count" /\ pc'[h] = "resolve" => trend'[key[h]] <= -ReqNormal]_vars

Shows(k)  == \A h \in Handlers : pc[h] = "evaluate" => k \in sample[h]
Normal(k) == \A h \in Handlers : pc[h] = "evaluate" => k \notin sample[h]
Alone(k)  == \A j \in Conditions \ {k} : Class[j] # Class[k]

(* A breach that every sample shows is alerted for good, even after        *)
(* operators close its row, the backend restarts or the database fails.    *)
SustainedBreachStaysAlerted ==
  \A k \in Rules \cup Checks :
    Alone(k) /\ <>[]Shows(k) => <>[](Matching(k) # {})

(* A check that shares its category and component with others is hidden    *)
(* behind their rows, and loses its count when such a row is resolved; but *)
(* again and again there is a row of that category and component.          *)
SustainedBreachIsAlerted ==
  \A k \in Rules \cup Checks : <>[]Shows(k) => []<>(Matching(k) # {})

(* A condition that no sample shows any more ends with no active row, the  *)
(* duplicates included.                                                    *)
RecoveryIsResolved ==
  \A k \in Rules \cup Checks :
    <>[]Normal(k) => <>[](\A i \in active : About(i) # k)

(* alert_creator.go:122: "Require sustained breach before creating a new   *)
(* alert (prevents transient blip alerts)": the ReqBreaches breaches of a  *)
(* rule are consecutive.                                                   *)
CreateNeedsSustainedBreach ==
  [][\A h \in Handlers :
       pc[h] = "count" /\ pc'[h] = "create" /\ key[h] \in Rules
         => trend'[key[h]] >= ReqBreaches]_vars

(* evaluator.go:304: "Query active alerts for this machine that originate  *)
(* from health checkers (not user rules)": the sweep resolves no row that  *)
(* an event raised.                                                        *)
SweepLeavesEvents ==
  [][\A h \in Handlers :
       pc[h] = "sweep" /\ pc'[h] = "reset" => key'[h] \notin Events]_vars

=============================================================================
