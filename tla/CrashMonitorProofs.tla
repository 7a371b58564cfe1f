------------------------- MODULE CrashMonitorProofs -------------------------
(***************************************************************************)
(* The crash monitor keeps quiet only after it has raised the failure, and *)
(* never exceeds its budget of restarts by more than a slow check gives    *)
(* away, for every budget, window, cooldown and length of a check.         *)
(***************************************************************************)
EXTENDS CrashMonitor, FiniteSetTheorems, WellFoundedInduction, TLAPS

(* A check that restarts has cleared escalated before it reports RESOLVED, *)
(* and no other step sets it until the check is over.                      *)
Quiet ==
  /\ pc \in {"idle", "health", "restart", "verify"}
  /\ escalated \in BOOLEAN
  /\ pc = "restart" => ~escalated
  /\ EscalatedWasRaised

(* What starts or ends a check without an event. *)
LEMMA SilentStep ==
  ASSUME Quiet,
         Probe \/ Tolerate \/ RefuseUnlisted \/ RestartFails \/ Verify
           \/ Tick \/ ServiceChanges \/ OperatorActs \/ UNCHANGED vars
  PROVE  Quiet'
<1> USE DEF Quiet, EscalatedWasRaised, breaker, world, Return
<1>1. CASE Probe
  BY <1>1 DEF Probe
<1>2. CASE Tolerate
  BY <1>2 DEF Tolerate, Unhealthy
<1>3. CASE RefuseUnlisted
  BY <1>3 DEF RefuseUnlisted, Unhealthy
<1>4. CASE RestartFails
  BY <1>4 DEF RestartFails
<1>5. CASE Verify
  BY <1>5 DEF Verify
<1>6. CASE Tick
  BY <1>6 DEF Tick
<1>7. CASE ServiceChanges \/ OperatorActs \/ UNCHANGED vars
  BY <1>7 DEF ServiceChanges, OperatorActs, vars
<1>. QED
  BY <1>1, <1>2, <1>3, <1>4, <1>5, <1>6, <1>7

(* What sets or clears escalated, or sends an event. *)
LEMMA LoudStep ==
  ASSUME Quiet,
         Healthy \/ NotifyOnly \/ Suspend \/ Trigger \/ RestartSucceeds
  PROVE  Quiet'
<1> USE DEF Quiet, EscalatedWasRaised, breaker, world, Return
<1>1. CASE Healthy
  BY <1>1 DEF Healthy
<1>2. CASE NotifyOnly
  BY <1>2 DEF NotifyOnly, Unhealthy, Report
<1>3. CASE Suspend
  BY <1>3 DEF Suspend, Unhealthy, Report
<1>4. CASE Trigger
  BY <1>4 DEF Trigger, Unhealthy
<1>5. CASE RestartSucceeds
  BY <1>5 DEF RestartSucceeds
<1>. QED
  BY <1>1, <1>2, <1>3, <1>4, <1>5

(* While escalated silences the monitor, the last event it raised is the   *)
(* failure, through maintenance, changes of policy, resets by the cooldown *)
(* and restarts that fail; whether the event arrives is not claimed.       *)
THEOREM SilenceWasRaised == Spec => []EscalatedWasRaised
<1>1. Init => Quiet
  BY DEF Init, Quiet, EscalatedWasRaised
<1>2. Quiet /\ [Next]_vars => Quiet'
  BY SilentStep, LoudStep DEF Next, Check
<1>3. Quiet => EscalatedWasRaised
  BY DEF Quiet
<1>. QED
  BY <1>1, <1>2, <1>3, PTL DEF Spec

-----------------------------------------------------------------------------
(* A nonempty set of natural numbers has a least element. *)
LEMMA LeastOf ==
  ASSUME NEW S \in SUBSET Nat, S # {}
  PROVE  \E m \in S : \A n \in S : m <= n
<1>1. PICK m \in S : \A n \in S : <<n, m>> \notin OpToRel(<, Nat)
  BY WFMin, NatLessThanWellFounded
<1>2. \A n \in S : ~(n < m)
  BY <1>1, Zenon DEF OpToRel
<1>. QED
  BY <1>2

(* The size of an interval. *)
LEMMA Interval ==
  ASSUME NEW a \in Int, NEW b \in Int, a <= b + 1
  PROVE  Cardinality(a .. b) = b + 1 - a
<1>1. Cardinality(a .. b) = IF a > b THEN 0 ELSE b - a + 1
  BY FS_Interval
<1>. QED
  BY <1>1

(* The time stamps are in the order of the restarts, none is younger than  *)
(* the Check under way, and each of the restarts that still count has its  *)
(* time stamp, the last ones in the list: a restart is begun after its     *)
(* time stamp and at most one Check later, so the time stamp of one that   *)
(* counts is still in the window.  Only the cooldown forgets all of them,  *)
(* and then lastRestart, which is set when a restart is over, is older     *)
(* than the window.                                                        *)
Sorted ==
  \A i, j \in 1 .. Len(restartTimestamps) :
    i <= j => restartTimestamps[j] <= restartTimestamps[i]

Past ==
  \A i \in 1 .. Len(restartTimestamps) : elapsed <= restartTimestamps[i]

Ended ==
  pc # "restart" /\ lastRestart # Never => \A i \in 1 .. Len(recent) : lastRestart <= recent[i]

(* A restart begun r ago is dated by a time stamp of age t. *)
Dates(t, r) == r <= t /\ t <= r + MaxElapsed

Counts(r) == r <= RestartWindow - MaxElapsed

Aligned ==
  \A j \in 0 .. Len(recent) - 1 :
    Counts(recent[Len(recent) - j])
      => /\ j < Len(restartTimestamps)
         /\ Dates(restartTimestamps[Len(restartTimestamps) - j], recent[Len(recent) - j])

Budgeted == TypeOK /\ Sorted /\ Past /\ Ended /\ Aligned

(* The time stamp of a restart that counts is inside the window.           *)
LEMMA DatedInWindow ==
  ASSUME NEW t \in Nat, NEW r \in Nat, elapsed \in Nat, Dates(t, r), Counts(r)
  PROVE  InWindow(t)
BY MonitorAssumption DEF InWindow, SinceNow, Dates, Counts

(* An age is a natural number, and a tick keeps ages in their order. *)
LEMMA AgeFacts ==
  /\ Horizon \in Nat /\ MaxElapsed < Horizon
  /\ \A a \in Age : a \in Nat /\ a # Never /\ a <= Horizon /\ Older(a) \in Age /\ a <= Older(a)
  /\ \A a, b \in Age : a <= b => Older(a) <= Older(b)
  /\ \A a \in Age, n \in 0 .. MaxElapsed - 1 : n <= a => n + 1 <= Older(a)
  /\ \A t, r \in Age : Dates(t, r) /\ Counts(Older(r)) => Counts(r) /\ Dates(Older(t), Older(r))
  /\ \A r \in Age : Counts(Older(r)) => Counts(r)
  /\ \A a \in Age \cup {Never} : Older(a) \in Age \cup {Never} /\ (Older(a) = Never <=> a = Never)
BY MonitorAssumption DEF Horizon, Age, Older, Never, Dates, Counts

(* What cleanupOldRestarts keeps of an ordered list are its last elements, *)
(* and all those that are still in the window.                             *)
LEMMA CleanedIsSuffix ==
  ASSUME TypeOK, Sorted
  PROVE  \E k \in 0 .. Len(restartTimestamps) :
           /\ Cleaned \in Seq(Age)
           /\ Len(Cleaned) = Len(restartTimestamps) - k
           /\ \A n \in 1 .. Len(Cleaned) : Cleaned[n] = restartTimestamps[n + k]
           /\ \A i \in 1 .. Len(restartTimestamps) : InWindow(restartTimestamps[i]) => k < i
<1> DEFINE t == restartTimestamps
<1>1. t \in Seq(Age) /\ Len(t) \in Nat /\ DOMAIN t = 1 .. Len(t) /\ elapsed \in Int
  BY DEF TypeOK
<1>2. \A i \in 1 .. Len(t) : t[i] \in Age /\ t[i] \in Int
  BY <1>1, AgeFacts
<1>3. Kept \subseteq 1 .. Len(t)
  BY <1>1 DEF Kept
<1>4. PICK k \in 0 .. Len(t) : Kept = k + 1 .. Len(t)
  <2>1. CASE Kept = {}
    <3>1. Len(t) \in 0 .. Len(t) /\ Len(t) + 1 .. Len(t) = {}
      BY <1>1
    <3>. QED
      BY <2>1, <3>1
  <2>2. CASE Kept # {}
    <3>1. PICK m \in Kept : \A n \in Kept : m <= n
      BY <2>2, <1>3, LeastOf
    <3>2. \A i \in m .. Len(t) : i \in Kept
      <4> SUFFICES ASSUME NEW i \in m .. Len(t) PROVE i \in Kept
        OBVIOUS
      <4>1. m \in 1 .. Len(t) /\ i \in 1 .. Len(t) /\ m <= i /\ InWindow(t[m])
        BY <3>1, <1>3, <1>1 DEF Kept
      <4>2. t[i] <= t[m]
        BY <4>1 DEF Sorted
      <4>3. InWindow(t[i])
        BY <4>1, <4>2, <1>1, <1>2, MonitorAssumption DEF InWindow, SinceNow
      <4>. QED
        BY <4>1, <4>3, <1>1 DEF Kept
    <3>3. m \in 1 .. Len(t)
      BY <1>3
    <3>4. \A i \in Kept : i \in m .. Len(t)
      BY <3>1, <3>3, <1>1, <1>3
    <3>5. Kept = m .. Len(t)
      BY <3>2, <3>4
    <3>6. m - 1 \in 0 .. Len(t) /\ (m - 1) + 1 = m
      BY <3>3, <1>1
    <3>. QED
      BY <3>5, <3>6
  <2>. QED
    BY <2>1, <2>2
<1>5. Cardinality(Kept) = Len(t) - k
  <2> DEFINE n == Len(t)
  <2>0. n \in Nat /\ k \in 0 .. n
    BY <1>1
  <2> HIDE DEF n
  <2>1. k + 1 \in Int /\ n \in Int /\ k + 1 <= n + 1 /\ n + 1 - (k + 1) = n - k
    BY <2>0
  <2>. QED
    BY <2>1, <1>4, Interval DEF n
<1>6. \A n \in 1 .. Len(t) - k :
        n + k = CHOOSE i \in Kept : Cardinality({j \in Kept : j < i}) = n - 1
  <2>1. \A i \in Kept : {j \in Kept : j < i} = k + 1 .. i - 1
    BY <1>4, <1>1
  <2>2. \A i \in Kept : Cardinality({j \in Kept : j < i}) = i - 1 - k
    <3> TAKE i \in Kept
    <3>1. k + 1 \in Int /\ i - 1 \in Int /\ k + 1 <= (i - 1) + 1 /\ (i - 1) + 1 - (k + 1) = i - 1 - k
      BY <1>1, <1>4
    <3>. QED
      BY <3>1, <2>1, Interval
  <2>3. \A n \in 1 .. Len(t) - k : n + k \in Kept /\ \A i \in Kept : i - 1 - k = n - 1 <=> i = n + k
    BY <1>4, <1>1
  <2>. QED
    BY <2>2, <2>3
<1>7. Cleaned = [n \in 1 .. Len(t) - k |-> t[n + k]]
  <2>1. \A n \in 1 .. Len(t) - k :
          restartTimestamps[CHOOSE i \in Kept : Cardinality({j \in Kept : j < i}) = n - 1] = t[n + k]
    BY <1>6
  <2>. QED
    BY <1>5, <2>1 DEF Cleaned
<1>8. \A n \in 1 .. Len(t) - k : t[n + k] \in Age
  BY <1>1, <1>2
<1>9. Cleaned \in Seq(Age) /\ Len(Cleaned) = Len(t) - k
  BY <1>1, <1>7, <1>8
<1>10. \A i \in 1 .. Len(t) : InWindow(t[i]) => k < i
  BY <1>1, <1>4 DEF Kept
<1>. QED
  BY <1>7, <1>9, <1>10

(* The steps that leave the time stamps and the history alone. *)
LEMMA BudgetedQuietStep ==
  ASSUME Budgeted,
         Probe \/ Tolerate \/ RefuseUnlisted \/ NotifyOnly \/ RestartFails
           \/ RestartSucceeds \/ Verify \/ ServiceChanges \/ OperatorActs
           \/ UNCHANGED vars
  PROVE  Budgeted'
<1>1. restartTimestamps' = restartTimestamps /\ recent' = recent
  BY DEF Probe, Tolerate, RefuseUnlisted, NotifyOnly, RestartFails, RestartSucceeds, Verify,
         ServiceChanges, OperatorActs, vars, breaker, Unhealthy
<1>2. elapsed' \in {elapsed, 0}
  BY DEF Probe, Tolerate, RefuseUnlisted, NotifyOnly, RestartFails, RestartSucceeds, Verify,
         ServiceChanges, OperatorActs, vars, breaker, Unhealthy, Return
<1>3. \/ lastRestart' = 0
      \/ lastRestart' = lastRestart /\ (pc' # "restart" => pc # "restart")
  BY DEF Probe, Tolerate, RefuseUnlisted, NotifyOnly, RestartFails, RestartSucceeds, Verify,
         ServiceChanges, OperatorActs, vars, breaker, Unhealthy, Return
<1>4. /\ \A i \in 1 .. Len(restartTimestamps) : restartTimestamps[i] \in Nat
      /\ \A i \in 1 .. Len(recent) : recent[i] \in Nat
  BY AgeFacts DEF Budgeted, TypeOK
<1>5. TypeOK'
  <2> USE MonitorAssumption DEF Budgeted, TypeOK, breaker, world, Return
  <2>0. 0 \in Age /\ 0 \in 0 .. MaxElapsed
    BY AgeFacts DEF Age
  <2>1. CASE Probe
    BY <2>0, <2>1 DEF Probe
  <2>2. CASE Tolerate \/ RefuseUnlisted \/ NotifyOnly
    <3>1. FailCount \in 0 .. 3
      BY DEF FailCount
    <3>2. Report("PENDING_OPERATOR") \in {raised, "PENDING_OPERATOR"}
      BY DEF Report
    <3>. QED
      BY <2>0, <2>2, <3>1, <3>2 DEF Tolerate, RefuseUnlisted, NotifyOnly, Unhealthy
  <2>3. CASE RestartFails \/ RestartSucceeds
    BY <2>0, <2>3 DEF RestartFails, RestartSucceeds
  <2>4. CASE Verify
    BY <2>0, <2>4 DEF Verify
  <2>5. CASE ServiceChanges
    <3>1. up' \in BOOLEAN
      BY <2>5, Zenon DEF ServiceChanges
    <3>. QED
      BY <2>5, <3>1 DEF ServiceChanges
  <2>6. CASE OperatorActs
    <3>1. maintenance' \in BOOLEAN /\ policy' \in {"AUTO_REMEDIATE", "NOTIFY_EMAIL"}
      BY <2>6, Zenon DEF OperatorActs
    <3>. QED
      BY <2>6, <3>1 DEF OperatorActs
  <2>7. CASE UNCHANGED vars
    BY <2>7 DEF vars
  <2>. QED
    BY <2>1, <2>2, <2>3, <2>4, <2>5, <2>6, <2>7
<1>6. Sorted' /\ Aligned'
  BY <1>1 DEF Budgeted, Sorted, Aligned
<1>7. Past'
  BY <1>1, <1>2, <1>4 DEF Budgeted, Past
<1>8. Ended'
  BY <1>1, <1>3, <1>4 DEF Budgeted, Ended
<1>. QED
  BY <1>5, <1>6, <1>7, <1>8 DEF Budgeted

(* A tick makes every time stamp older, and Horizon holds them back only   *)
(* where no comparison looks at them any more.                             *)
LEMMA BudgetedTick ==
  ASSUME Budgeted, Tick
  PROVE  Budgeted'
<1> DEFINE t == restartTimestamps
           r == recent
<1>1. /\ t \in Seq(Age) /\ Len(t) \in Nat /\ DOMAIN t = 1 .. Len(t)
      /\ r \in Seq(Age) /\ Len(r) \in Nat /\ DOMAIN r = 1 .. Len(r)
  BY DEF Budgeted, TypeOK
<1>2. /\ \A i \in 1 .. Len(t) : t[i] \in Age
      /\ \A i \in 1 .. Len(r) : r[i] \in Age
  BY <1>1
<1>3. /\ t' = [i \in 1 .. Len(t) |-> Older(t[i])]
      /\ r' = [i \in 1 .. Len(r) |-> Older(r[i])]
  BY <1>1 DEF Tick
<1>4. /\ t' \in Seq(Age) /\ Len(t') = Len(t) /\ \A i \in 1 .. Len(t) : t'[i] = Older(t[i])
      /\ r' \in Seq(Age) /\ Len(r') = Len(r) /\ \A i \in 1 .. Len(r) : r'[i] = Older(r[i])
  BY <1>1, <1>2, <1>3, AgeFacts
<1>5. TypeOK'
  <2>1. elapsed' \in 0 .. MaxElapsed
    BY MonitorAssumption DEF Tick, Budgeted, TypeOK
  <2>2. stable' \in Age /\ lastRestart' \in Age \cup {Never}
    BY AgeFacts DEF Tick, Budgeted, TypeOK
  <2>. QED
    BY <1>4, <2>1, <2>2 DEF Tick, Budgeted, TypeOK, world
<1>6. Sorted'
  BY <1>2, <1>4, AgeFacts DEF Budgeted, Sorted
<1>7. Past'
  <2>1. CASE pc = "idle"
    <3>1. elapsed' = elapsed /\ elapsed \in Int
      BY <2>1, MonitorAssumption DEF Tick, Budgeted, TypeOK
    <3>. QED
      BY <3>1, <1>2, <1>4, AgeFacts DEF Past, Budgeted
  <2>2. CASE pc # "idle"
    <3>1. elapsed' = elapsed + 1 /\ elapsed \in 0 .. MaxElapsed - 1
      BY <2>2, MonitorAssumption DEF Tick, Budgeted, TypeOK
    <3>. QED
      BY <3>1, <1>2, <1>4, AgeFacts DEF Past, Budgeted
  <2>. QED
    BY <2>1, <2>2
<1>8. Ended'
  BY <1>2, <1>4, AgeFacts DEF Ended, Budgeted, Tick, TypeOK
<1>9. Aligned'
  <2> SUFFICES ASSUME NEW j \in 0 .. Len(r) - 1, Counts(r'[Len(r) - j])
               PROVE  j < Len(t) /\ Dates(t'[Len(t) - j], r'[Len(r) - j])
    BY <1>4 DEF Aligned, Dates, Counts
  <2>1. Len(r) - j \in 1 .. Len(r) /\ r[Len(r) - j] \in Age
    BY <1>1, <1>2
  <2>2. r'[Len(r) - j] = Older(r[Len(r) - j])
    BY <2>1, <1>4
  <2>3. Counts(r[Len(r) - j])
    BY <2>1, <2>2, AgeFacts DEF Counts
  <2>4. j < Len(t) /\ Dates(t[Len(t) - j], r[Len(r) - j])
    BY <2>3 DEF Budgeted, Aligned
  <2>5. Len(t) - j \in 1 .. Len(t) /\ t[Len(t) - j] \in Age
    BY <2>4, <1>1, <1>2
  <2>6. t'[Len(t) - j] = Older(t[Len(t) - j])
    BY <2>5, <1>4
  <2>7. Counts(Older(r[Len(r) - j]))
    BY <2>2 DEF Counts
  <2>8. Dates(Older(t[Len(t) - j]), Older(r[Len(r) - j]))
    BY <2>1, <2>4, <2>5, <2>7, AgeFacts
  <2>. QED
    BY <2>2, <2>4, <2>6, <2>8 DEF Dates
<1>. QED
  BY <1>5, <1>6, <1>7, <1>8, <1>9 DEF Budgeted

(* A healthy check forgets the time stamps only when the last restart, and *)
(* with it every one before, is older than the window.                     *)
LEMMA BudgetedHealthy ==
  ASSUME Budgeted, Healthy
  PROVE  Budgeted'
<1> USE DEF breaker, world
<1>1. /\ pc = "health" /\ pc' = "idle" /\ recent' = recent /\ lastRestart' = lastRestart
      /\ elapsed' = 0
      /\ \/ CoolsDown /\ restartTimestamps' = << >>
         \/ restartTimestamps' = restartTimestamps
  BY DEF Healthy, Return
<1>2. TypeOK'
  <2>1. escalated' \in BOOLEAN
    <3>1. escalated' = FALSE \/ escalated' = escalated
      BY DEF Healthy
    <3>2. escalated \in BOOLEAN
      BY DEF Budgeted, TypeOK
    <3>. QED
      BY <3>1, <3>2
  <2>2. restartTimestamps' \in Seq(Age) /\ Len(restartTimestamps') <= MaxRestarts
    <3>1. restartTimestamps \in Seq(Age) /\ Len(restartTimestamps) <= MaxRestarts
      BY DEF Budgeted, TypeOK
    <3>2. << >> \in Seq(Age) /\ Len(<< >>) = 0 /\ 0 <= MaxRestarts
      BY MonitorAssumption
    <3>. QED
      BY <1>1, <3>1, <3>2
  <2>. QED
    BY <2>1, <2>2, MonitorAssumption DEF Healthy, Return, Budgeted, TypeOK
<1>3. Sorted' /\ Past' /\ Ended'
  <2>1. \A i \in 1 .. Len(restartTimestamps) : 0 <= restartTimestamps[i]
    BY AgeFacts DEF Budgeted, TypeOK
  <2>. QED
    BY <1>1, <2>1 DEF Budgeted, Sorted, Past, Ended
<1>4. Aligned'
  <2>1. CASE restartTimestamps' = restartTimestamps
    BY <2>1, <1>1 DEF Budgeted, Aligned, Counts, Dates
  <2>2. CASE CoolsDown /\ restartTimestamps' = << >>
    <3> SUFFICES ASSUME NEW j \in 0 .. Len(recent) - 1, Counts(recent[Len(recent) - j])
                 PROVE  FALSE
      BY <1>1, <2>2 DEF Aligned, Counts
    <3>1. Len(recent) - j \in 1 .. Len(recent) /\ recent[Len(recent) - j] \in Nat
      BY AgeFacts DEF Budgeted, TypeOK
    <3>2. lastRestart <= recent[Len(recent) - j]
      BY <1>1, <2>2, <3>1 DEF CoolsDown, Budgeted, Ended
    <3>3. lastRestart \in Nat /\ elapsed \in Nat /\ CooldownDuration <= lastRestart - elapsed
      BY <2>2, AgeFacts DEF CoolsDown, SinceNow, Budgeted, TypeOK
    <3>. QED
      BY <3>1, <3>2, <3>3, MonitorAssumption DEF Counts
  <2>. QED
    BY <1>1, <2>1, <2>2
<1>. QED
  BY <1>2, <1>3, <1>4 DEF Budgeted

(* What cleanupOldRestarts keeps is still ordered, past and aligned. *)
LEMMA CleanedIsBudgeted ==
  ASSUME Budgeted
  PROVE  /\ Cleaned \in Seq(Age) /\ Len(Cleaned) <= Len(restartTimestamps)
         /\ \A i, j \in 1 .. Len(Cleaned) : i <= j => Cleaned[j] <= Cleaned[i]
         /\ \A i \in 1 .. Len(Cleaned) : elapsed <= Cleaned[i]
         /\ \A j \in 0 .. Len(recent) - 1 :
              Counts(recent[Len(recent) - j])
                => j < Len(Cleaned) /\ Dates(Cleaned[Len(Cleaned) - j], recent[Len(recent) - j])
<1> DEFINE t == restartTimestamps
<1>1. PICK k \in 0 .. Len(t) :
           /\ Cleaned \in Seq(Age)
           /\ Len(Cleaned) = Len(t) - k
           /\ \A n \in 1 .. Len(Cleaned) : Cleaned[n] = t[n + k]
           /\ \A i \in 1 .. Len(t) : InWindow(t[i]) => k < i
  BY CleanedIsSuffix DEF Budgeted
<1>2. Len(t) \in Nat /\ k \in Nat /\ Len(Cleaned) \in Nat
  BY <1>1 DEF Budgeted, TypeOK
<1>3. \A n \in 1 .. Len(Cleaned) : n + k \in 1 .. Len(t)
  BY <1>1, <1>2
<1>4. \A i, j \in 1 .. Len(Cleaned) : i <= j => Cleaned[j] <= Cleaned[i]
  <2> TAKE i, j \in 1 .. Len(Cleaned)
  <2> HAVE i <= j
  <2>1. i + k \in 1 .. Len(t) /\ j + k \in 1 .. Len(t) /\ i + k <= j + k
    BY <1>2, <1>3
  <2>2. t[j + k] <= t[i + k]
    BY <2>1 DEF Budgeted, Sorted
  <2>. QED
    BY <2>2, <1>1
<1>5. \A i \in 1 .. Len(Cleaned) : elapsed <= Cleaned[i]
  BY <1>1, <1>3 DEF Budgeted, Past
<1>6. \A j \in 0 .. Len(recent) - 1 :
        Counts(recent[Len(recent) - j])
          => j < Len(Cleaned) /\ Dates(Cleaned[Len(Cleaned) - j], recent[Len(recent) - j])
  <2> TAKE j \in 0 .. Len(recent) - 1
  <2> HAVE Counts(recent[Len(recent) - j])
  <2>1. j < Len(t) /\ Dates(t[Len(t) - j], recent[Len(recent) - j])
    BY DEF Budgeted, Aligned
  <2>2. Len(t) - j \in 1 .. Len(t)
    BY <2>1, <1>2
  <2>3. t[Len(t) - j] \in Nat /\ elapsed \in Nat
    BY <2>2, AgeFacts DEF Budgeted, TypeOK
  <2>4. InWindow(t[Len(t) - j])
    <3>1. Len(recent) - j \in 1 .. Len(recent) /\ recent[Len(recent) - j] \in Nat
      BY AgeFacts DEF Budgeted, TypeOK
    <3>. QED
      BY <2>1, <2>3, <3>1, DatedInWindow
  <2>5. k < Len(t) - j
    BY <2>2, <2>4, <1>1
  <2>6. Len(Cleaned) - j \in 1 .. Len(Cleaned) /\ (Len(Cleaned) - j) + k = Len(t) - j
    BY <2>5, <1>1, <1>2
  <2>7. Cleaned[Len(Cleaned) - j] = t[Len(t) - j]
    BY <2>6, <1>1
  <2>. QED
    BY <2>1, <2>6, <2>7, <1>2
<1>. QED
  BY <1>1, <1>2, <1>4, <1>5, <1>6

(* A check that finds the breaker open. *)
LEMMA BudgetedSuspend ==
  ASSUME Budgeted, Suspend
  PROVE  Budgeted'
<1> USE DEF breaker, world
<1>1. /\ restartTimestamps' = Cleaned /\ recent' = recent /\ elapsed' = 0
      /\ lastRestart' = lastRestart /\ pc = "health" /\ pc' = "idle"
  BY DEF Suspend, Unhealthy, Return
<1>2. TypeOK'
  <2>1. healthFailCount' \in 0 .. 3
    BY DEF Suspend, Unhealthy, FailCount, Budgeted, TypeOK
  <2>2. raised' \in {raised, "FAILED"} /\ escalated' = TRUE
    BY DEF Suspend, Report
  <2>3. stable' \in Age
    BY AgeFacts DEF Suspend, Unhealthy, Age
  <2>4. restartTimestamps' \in Seq(Age) /\ Len(restartTimestamps') <= MaxRestarts
    BY <1>1, CleanedIsBudgeted, MonitorAssumption DEF Budgeted, TypeOK
  <2>. QED
    BY <1>1, <2>1, <2>2, <2>3, <2>4, MonitorAssumption DEF Suspend, Unhealthy, Return, Budgeted, TypeOK
<1>3. Sorted' /\ Past' /\ Aligned'
  <2>1. \A i \in 1 .. Len(Cleaned) : 0 <= Cleaned[i]
    BY CleanedIsBudgeted, AgeFacts
  <2>2. \A i, j \in 1 .. Len(Cleaned) : i <= j => Cleaned[j] <= Cleaned[i]
    BY CleanedIsBudgeted
  <2>3. Sorted' /\ Past'
    BY <1>1, <2>1, <2>2 DEF Sorted, Past
  <2>4. Aligned'
    BY <1>1, CleanedIsBudgeted DEF Aligned, Counts, Dates
  <2>. QED
    BY <2>3, <2>4
<1>4. Ended'
  BY <1>1 DEF Budgeted, Ended
<1>. QED
  BY <1>2, <1>3, <1>4 DEF Budgeted

(* A check that restarts the service: it found room in the window, and     *)
(* notes the restart in the list as in the history.                        *)
LEMMA BudgetedTrigger ==
  ASSUME Budgeted, Trigger
  PROVE  Budgeted'
<1> USE DEF breaker, world
<1> DEFINE c == Cleaned
           kept == IF Len(recent) > MaxRestarts THEN Tail(recent) ELSE recent
<1>1. /\ restartTimestamps' = Append(c, elapsed) /\ recent' = Append(kept, 0)
      /\ elapsed' = elapsed /\ lastRestart' = lastRestart /\ pc' = "restart"
      /\ Len(c) < MaxRestarts
  <2>1. Len(c) \in Nat
    BY CleanedIsBudgeted
  <2>. QED
    BY <2>1, MonitorAssumption DEF Trigger, Unhealthy, Full
<1>2. /\ elapsed \in Nat /\ elapsed \in Age /\ elapsed <= MaxElapsed /\ 0 \in Age
      /\ recent \in Seq(Age) /\ Len(recent) \in Nat /\ Len(recent) <= MaxRestarts + 1
  BY MonitorAssumption DEF Budgeted, TypeOK, Age, Horizon
<1>3. /\ c \in Seq(Age) /\ Len(c) \in Nat
      /\ \A i \in 1 .. Len(c) : c[i] \in Nat
  BY CleanedIsBudgeted, AgeFacts
<1>4. /\ kept \in Seq(Age) /\ Len(kept) \in Nat /\ Len(kept) <= MaxRestarts
      /\ Len(kept) <= Len(recent)
      /\ \A j \in 0 .. Len(kept) - 1 : kept[Len(kept) - j] = recent[Len(recent) - j]
  <2>1. CASE Len(recent) > MaxRestarts
    <3>1. recent # << >>
      BY <2>1, <1>2, MonitorAssumption
    <3>2. /\ kept = Tail(recent) /\ kept \in Seq(Age) /\ Len(kept) = Len(recent) - 1
          /\ \A i \in 1 .. Len(recent) - 1 : kept[i] = recent[i + 1]
      BY <2>1, <3>1, <1>2
    <3>3. Len(kept) \in Nat /\ Len(kept) <= MaxRestarts /\ Len(kept) <= Len(recent)
      BY <3>2, <1>2, <2>1, MonitorAssumption
    <3>4. \A j \in 0 .. Len(kept) - 1 : kept[Len(kept) - j] = recent[Len(recent) - j]
      <4> TAKE j \in 0 .. Len(kept) - 1
      <4>1. Len(kept) - j \in 1 .. Len(recent) - 1 /\ (Len(kept) - j) + 1 = Len(recent) - j
        BY <3>2, <3>3, <1>2
      <4>. QED
        BY <4>1, <3>2
    <3>. QED
      BY <3>2, <3>3, <3>4
  <2>2. CASE ~(Len(recent) > MaxRestarts)
    BY <2>2, <1>2, MonitorAssumption
  <2>. QED
    BY <2>1, <2>2
<1> HIDE DEF kept, c
<1>5. /\ restartTimestamps' \in Seq(Age) /\ Len(restartTimestamps') = Len(c) + 1
      /\ restartTimestamps'[Len(c) + 1] = elapsed
      /\ \A i \in 1 .. Len(c) : restartTimestamps'[i] = c[i]
  BY <1>1, <1>2, <1>3
<1>6. /\ recent' \in Seq(Age) /\ Len(recent') = Len(kept) + 1
      /\ recent'[Len(kept) + 1] = 0
      /\ \A i \in 1 .. Len(kept) : recent'[i] = kept[i]
  BY <1>1, <1>2, <1>4
<1>7. TypeOK'
  <2>1. healthFailCount' \in 0 .. 3
    BY DEF Trigger, Unhealthy, FailCount, Budgeted, TypeOK
  <2>2. stable' \in Age
    BY AgeFacts DEF Trigger, Unhealthy, Age
  <2>3. Len(restartTimestamps') <= MaxRestarts /\ Len(recent') <= MaxRestarts + 1
    BY <1>1, <1>3, <1>4, <1>5, <1>6, MonitorAssumption
  <2>. QED
    BY <1>1, <1>5, <1>6, <2>1, <2>2, <2>3 DEF Trigger, Unhealthy, Budgeted, TypeOK
<1>8. Sorted'
  <2> SUFFICES ASSUME NEW i \in 1 .. Len(c) + 1, NEW j \in 1 .. Len(c) + 1, i <= j
               PROVE  restartTimestamps'[j] <= restartTimestamps'[i]
    BY <1>5 DEF Sorted
  <2>1. CASE j = Len(c) + 1
    BY <2>1, <1>2, <1>3, <1>5, CleanedIsBudgeted DEF c
  <2>2. CASE j # Len(c) + 1
    <3>1. i \in 1 .. Len(c) /\ j \in 1 .. Len(c)
      BY <2>2, <1>3
    <3>. QED
      BY <3>1, <1>5, CleanedIsBudgeted DEF c
  <2>. QED
    BY <2>1, <2>2
<1>9. Past'
  <2>1. \A i \in 1 .. Len(c) + 1 : elapsed <= restartTimestamps'[i]
    <3> TAKE i \in 1 .. Len(c) + 1
    <3>1. CASE i = Len(c) + 1
      BY <3>1, <1>2, <1>5
    <3>2. CASE i # Len(c) + 1
      BY <3>2, <1>3, <1>5, CleanedIsBudgeted DEF c
    <3>. QED
      BY <3>1, <3>2
  <2>. QED
    BY <2>1, <1>1, <1>5 DEF Past
<1>10. Ended'
  BY <1>1 DEF Ended
<1>11. Aligned'
  <2> SUFFICES ASSUME NEW j \in 0 .. Len(kept), Counts(recent'[Len(kept) + 1 - j])
               PROVE  /\ j < Len(c) + 1
                      /\ Dates(restartTimestamps'[Len(c) + 1 - j], recent'[Len(kept) + 1 - j])
    BY <1>4, <1>5, <1>6 DEF Aligned, Counts, Dates
  <2>1. CASE j = 0
    BY <2>1, <1>2, <1>3, <1>4, <1>5, <1>6, MonitorAssumption DEF Dates
  <2>2. CASE j # 0
    <3>1. /\ j - 1 \in 0 .. Len(kept) - 1 /\ j - 1 \in 0 .. Len(recent) - 1
          /\ Len(kept) + 1 - j = Len(kept) - (j - 1) /\ Len(kept) + 1 - j \in 1 .. Len(kept)
      BY <2>2, <1>2, <1>4
    <3>2. recent'[Len(kept) + 1 - j] = recent[Len(recent) - (j - 1)]
      BY <3>1, <1>4, <1>6
    <3>3. j - 1 < Len(c) /\ Dates(c[Len(c) - (j - 1)], recent[Len(recent) - (j - 1)])
      <4>1. Counts(recent[Len(recent) - (j - 1)])
        BY <3>2 DEF Counts
      <4>. QED
        BY <3>1, <4>1, CleanedIsBudgeted DEF c
    <3>4. Len(c) + 1 - j \in 1 .. Len(c) /\ Len(c) + 1 - j = Len(c) - (j - 1) /\ j < Len(c) + 1
      BY <3>1, <3>3, <1>3
    <3>5. restartTimestamps'[Len(c) + 1 - j] = c[Len(c) - (j - 1)]
      BY <3>4, <1>5
    <3>. QED
      BY <3>2, <3>3, <3>4, <3>5 DEF Dates
  <2>. QED
    BY <2>1, <2>2
<1>. QED
  BY <1>7, <1>8, <1>9, <1>10, <1>11 DEF Budgeted

(* As many restarts in the window as time stamps at most. *)
LEMMA BudgetedMeansBudget ==
  ASSUME Budgeted
  PROVE  RestartBudget
<1> DEFINE W == {i \in DOMAIN recent : recent[i] <= RestartWindow - MaxElapsed}
           a == Len(recent) - Len(restartTimestamps) + 1
<1>1. /\ Len(recent) \in Nat /\ DOMAIN recent = 1 .. Len(recent)
      /\ Len(restartTimestamps) \in Nat /\ Len(restartTimestamps) <= MaxRestarts
  BY DEF Budgeted, TypeOK
<1>2. W \subseteq a .. Len(recent)
  <2> SUFFICES ASSUME NEW i \in 1 .. Len(recent), recent[i] <= RestartWindow - MaxElapsed
               PROVE  i \in a .. Len(recent)
    BY <1>1
  <2>1. Len(recent) - i \in 0 .. Len(recent) - 1 /\ Len(recent) - (Len(recent) - i) = i
    BY <1>1
  <2>2. Len(recent) - i < Len(restartTimestamps)
    BY <2>1 DEF Budgeted, Aligned, Counts
  <2>. QED
    BY <2>2, <1>1
<1>3. Cardinality(a .. Len(recent)) = Len(restartTimestamps) /\ IsFiniteSet(a .. Len(recent))
  <2>1. /\ a \in Int /\ Len(recent) \in Int /\ a <= Len(recent) + 1
        /\ Len(recent) + 1 - a = Len(restartTimestamps)
    BY <1>1
  <2>. QED
    BY <2>1, Interval, FS_Interval
<1>4. IsFiniteSet(W) /\ Cardinality(W) <= Cardinality(a .. Len(recent))
  BY <1>2, <1>3, FS_Subset
<1>5. Cardinality(W) \in Nat
  BY <1>4, FS_CardinalityType
<1>6. Cardinality(W) <= MaxRestarts
  BY <1>1, <1>3, <1>4, <1>5, MonitorAssumption
<1>. QED
  BY <1>6 DEF RestartBudget

(* The invariant of the budget holds in every state. *)
THEOREM BudgetInvariance == Spec => []Budgeted
<1>1. Init => Budgeted
  <2> SUFFICES ASSUME Init PROVE Budgeted
    OBVIOUS
  <2>1. 0 \in Age
    BY AgeFacts DEF Age
  <2>2. TypeOK
    <3>1. << >> \in Seq(Age) /\ Len(<< >>) = 0 /\ 0 <= MaxRestarts /\ 0 <= MaxRestarts + 1
      BY MonitorAssumption
    <3>2. 0 \in 0 .. MaxElapsed
      BY MonitorAssumption
    <3>3. active \in BOOLEAN /\ escalated \in BOOLEAN /\ up \in BOOLEAN /\ maintenance \in BOOLEAN
      BY DEF Init
    <3>. QED
      BY <2>1, <3>1, <3>2, <3>3 DEF Init, TypeOK
  <2>3. Sorted /\ Past /\ Ended /\ Aligned
    BY DEF Init, Sorted, Past, Ended, Aligned
  <2>. QED
    BY <2>2, <2>3 DEF Budgeted
<1>2. Budgeted /\ [Next]_vars => Budgeted'
  BY BudgetedQuietStep, BudgetedTick, BudgetedHealthy, BudgetedSuspend, BudgetedTrigger
     DEF Next, Check
<1>. QED
  BY <1>1, <1>2, PTL DEF Spec

(* The types of the monitor: its list of restarts never holds more than    *)
(* MaxRestarts, and a check never counts beyond the three failures it      *)
(* compares with.                                                          *)
THEOREM MonitorTypeCorrect == Spec => []TypeOK
<1>1. Budgeted => TypeOK
  BY DEF Budgeted
<1>. QED
  BY <1>1, BudgetInvariance, PTL

(* "Sliding Window: 3 restarts in 10 minutes", less the longest Check:     *)
(* counted from the instants at which they are begun, there are never more *)
(* than MaxRestarts restarts in a RestartWindow shortened by MaxElapsed,   *)
(* whatever the policy and the resets by the cooldown.  It is as much as   *)
(* the code gives: it dates a restart by the start of its Check.           *)
THEOREM BudgetKept == Spec => []RestartBudget
<1>1. Budgeted => RestartBudget
  BY BudgetedMeansBudget
<1>. QED
  BY <1>1, BudgetInvariance, PTL

=============================================================================
