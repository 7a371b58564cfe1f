---------------------------- MODULE CrashMonitor ----------------------------
(***************************************************************************)
(* The agent's crash monitor for one service                               *)
(* (agent/internal/sremonitor/crash.go, Check): restart a service that is  *)
(* down, but at most MaxRestarts times per RestartWindow; beyond that, or  *)
(* when the policy of the service says so, report and leave it to a human. *)
(*                                                                         *)
(* Check reads the state of the service several times and the service, the *)
(* policy (updated by the heartbeat) and the clock move between the reads, *)
(* so it is several steps here.  A time stamp is represented by its age in *)
(* ticks, up to Horizon: only differences to the current time matter.      *)
(*                                                                         *)
(* Left out: what is only reported (totalRestarts, the systemd restart     *)
(* counter, durations, logs, inMaintenance) and ResetFlap, which no code   *)
(* of the agent calls.  CheckHealth is IsActive asked a second time, as    *)
(* AgentController implements it.  Left out too is what becomes of an      *)
(* event: SendRemoteEvent logs it at once and posts it from a goroutine of *)
(* its own, which drops its errors, and to a path no route of the backend  *)
(* has.  The model follows the events raised, not their arrival.           *)
(***************************************************************************)
EXTENDS Integers, Sequences, FiniteSets

CONSTANTS
  MaxRestarts,       \* 3 in the code
  RestartWindow,     \* 10 minutes in the code
  CooldownDuration,  \* 10 minutes in the code
  MaxElapsed         \* ticks one Check may take, its restart included

ASSUME MonitorAssumption ==
  /\ MaxRestarts \in Nat \ {0}
  /\ RestartWindow \in Nat \ {0}
  /\ CooldownDuration \in Nat \ {0}
  /\ RestartWindow <= CooldownDuration  \* run.go passes the same value twice
  /\ MaxElapsed \in Nat \ {0}         \* a Check asks systemctl: it takes time

VARIABLES
  \* the Monitor
  pc,                 \* how far Check is
  active,             \* the local variable of that name
  elapsed,            \* ticks since Check took `now`
  healthFailCount,    \* up to 3: only compared with 3
  restartTimestamps,  \* ages, oldest first
  lastRestart,        \* age of lastRestartTimestamp, or Never
  escalated,
  \* the world
  up,                 \* the service runs
  policy,             \* GetServicePolicyMode of the service
  maintenance,        \* the maintenance flag file exists
  accepted,           \* the service is on the accept-list
  \* history
  raised,             \* the phase of the last call of SendRemoteEvent
  recent,             \* times since the last MaxRestarts + 1 restarts were begun
  stable              \* ticks since a Check found the service down

vars == <<pc, active, elapsed, healthFailCount, restartTimestamps, lastRestart,
          escalated, up, policy, maintenance, accepted, raised, recent, stable>>

breaker == <<restartTimestamps, lastRestart, escalated, recent>>
world   == <<up, policy, maintenance, accepted>>

Horizon == CooldownDuration + MaxElapsed + 1
Age     == 0 .. Horizon
Never   == -1
Older(a) == IF a = Never \/ a = Horizon THEN a ELSE a + 1

Init ==
  /\ pc = "idle" /\ active = TRUE /\ elapsed = 0 /\ healthFailCount = 0
  /\ restartTimestamps = << >> /\ lastRestart = Never /\ escalated = FALSE
  /\ up = TRUE /\ maintenance = FALSE
  /\ policy \in {"AUTO_REMEDIATE", "NOTIFY_EMAIL"}
  /\ accepted \in BOOLEAN
  /\ raised = "none" /\ recent = << >> /\ stable = 0

-----------------------------------------------------------------------------
(* now.Sub(t) for a time stamp of age a, in the Check under way. *)
SinceNow(a) == a - elapsed

(* cleanupOldRestarts *)
InWindow(a) == SinceNow(a) <= RestartWindow
\* Seeded fault: old restarts are never forgotten.
NotCleaned == restartTimestamps

Kept == {i \in DOMAIN restartTimestamps : InWindow(restartTimestamps[i])}

(* The kept ones in their order: the n-th is the one with n - 1 before it. *)
Cleaned ==
  [n \in 1 .. Cardinality(Kept) |->
     restartTimestamps[CHOOSE i \in Kept : Cardinality({j \in Kept : j < i}) = n - 1]]

(* The flap test of step 8. *)
\* Seeded fault: off by one.
FullLate == Len(Cleaned) > MaxRestarts

Full == Len(Cleaned) >= MaxRestarts

(* SendRemoteEvent on the way to setting escalated. *)
\* Seeded fault: the flag is set and no event raised.
ReportForgotten(phase) == raised

Report(phase) == IF escalated THEN raised ELSE phase

(* The first reads of Check; in maintenance it changes nothing. *)
Probe ==
  /\ pc = "idle"
  /\ ~maintenance
  /\ pc' = "health"
  /\ active' = up
  /\ UNCHANGED <<elapsed, healthFailCount, breaker, world, raised, stable>>

FailCount == IF up THEN 0 ELSE IF healthFailCount = 3 THEN 3 ELSE healthFailCount + 1

NeedsRemediation == ~active \/ FailCount = 3

\* Seeded fault: the first healthy Check re-arms the breaker.
CoolsDownAtOnce == restartTimestamps # << >> /\ lastRestart # Never

CoolsDown ==
  /\ restartTimestamps # << >>
  /\ lastRestart # Never
  /\ SinceNow(lastRestart) >= CooldownDuration

(* Check is over, and with it its local variables. *)
Return == pc' = "idle" /\ active' = TRUE /\ elapsed' = 0

Healthy ==
  /\ pc = "health" /\ active /\ up
  /\ Return
  /\ healthFailCount' = 0
  /\ IF CoolsDown
     THEN restartTimestamps' = << >> /\ escalated' = FALSE
     ELSE UNCHANGED <<restartTimestamps, escalated>>
  /\ UNCHANGED <<lastRestart, recent, world, raised, stable>>

(* What every path below has in common. *)
Unhealthy ==
  /\ pc = "health" /\ ~(active /\ up)
  /\ healthFailCount' = FailCount
  /\ stable' = 0
  /\ UNCHANGED <<lastRestart, world>>

Tolerate ==
  /\ Unhealthy
  /\ ~NeedsRemediation
  /\ Return
  /\ UNCHANGED <<restartTimestamps, escalated, recent, raised>>

RefuseUnlisted ==
  /\ Unhealthy
  /\ NeedsRemediation /\ ~accepted
  /\ Return
  /\ UNCHANGED <<restartTimestamps, escalated, recent, raised>>

NotifyOnly ==
  /\ Unhealthy
  /\ NeedsRemediation /\ accepted /\ policy = "NOTIFY_EMAIL"
  /\ Return
  /\ escalated' = TRUE
  /\ raised' = Report("PENDING_OPERATOR")
  /\ UNCHANGED <<restartTimestamps, recent>>

(* The breaker: escalated is cleared by cleanupOldRestarts when there is   *)
(* room again, and tested afterwards.                                      *)
Suspend ==
  /\ Unhealthy
  /\ NeedsRemediation /\ accepted /\ policy = "AUTO_REMEDIATE"
  /\ Full
  /\ Return
  /\ restartTimestamps' = Cleaned
  /\ escalated' = TRUE
  /\ raised' = Report("FAILED")
  /\ UNCHANGED recent

(* The list gets the `now` Check was entered with, `elapsed` ago; the      *)
(* restart itself is begun at this instant.                                *)
Trigger ==
  /\ Unhealthy
  /\ NeedsRemediation /\ accepted /\ policy = "AUTO_REMEDIATE"
  /\ ~Full
  /\ pc' = "restart"
  /\ restartTimestamps' = Append(Cleaned, elapsed)
  /\ recent' = Append(IF Len(recent) > MaxRestarts THEN Tail(recent) ELSE recent, 0)
  /\ escalated' = FALSE
  /\ UNCHANGED <<active, elapsed, raised>>

RestartFails ==
  /\ pc = "restart"
  /\ Return
  /\ lastRestart' = 0
  /\ up' \in {up, FALSE}
  /\ UNCHANGED <<healthFailCount, restartTimestamps, escalated, recent,
                 policy, maintenance, accepted, raised, stable>>

(* "RESOLVED" goes out before the verification. *)
RestartSucceeds ==
  /\ pc = "restart"
  /\ pc' = "verify"
  /\ lastRestart' = 0
  /\ up' = TRUE
  /\ raised' = "RESOLVED"
  /\ UNCHANGED <<active, elapsed, healthFailCount, restartTimestamps, escalated, recent,
                 policy, maintenance, accepted, stable>>

(* After VerifyDuration: a service that is down again is only logged. *)
Verify ==
  /\ pc = "verify"
  /\ Return
  /\ healthFailCount' = 0
  /\ stable' = IF up THEN stable ELSE 0
  /\ UNCHANGED <<breaker, world, raised>>

Check ==
  \/ Probe \/ Healthy \/ Tolerate \/ RefuseUnlisted \/ NotifyOnly \/ Suspend
  \/ Trigger \/ RestartFails \/ RestartSucceeds \/ Verify

-----------------------------------------------------------------------------
Tick ==
  /\ pc # "idle" => elapsed < MaxElapsed
  /\ elapsed' = IF pc = "idle" THEN elapsed ELSE elapsed + 1
  /\ restartTimestamps' = [i \in DOMAIN restartTimestamps |-> Older(restartTimestamps[i])]
  /\ recent' = [i \in DOMAIN recent |-> Older(recent[i])]
  /\ lastRestart' = Older(lastRestart)
  /\ stable' = Older(stable)
  /\ UNCHANGED <<pc, active, healthFailCount, escalated, world, raised>>

(* The service crashes, or systemd or an operator starts it. *)
ServiceChanges ==
  /\ up' = ~up
  /\ UNCHANGED <<pc, active, elapsed, healthFailCount, breaker, policy, maintenance,
                 accepted, raised, stable>>

OperatorActs ==
  /\ \/ policy' \in {"AUTO_REMEDIATE", "NOTIFY_EMAIL"} \ {policy} /\ UNCHANGED maintenance
     \/ maintenance' = ~maintenance /\ UNCHANGED policy
  /\ UNCHANGED <<pc, active, elapsed, healthFailCount, breaker, up, accepted, raised, stable>>

Next == Check \/ Tick \/ ServiceChanges \/ OperatorActs

Spec == Init /\ [][Next]_vars

(* RunAgent calls Check every 15 seconds, and the commands it waits for    *)
(* end.  Of two outcomes of a restart neither is promised.                 *)
FairSpec ==
  /\ Spec
  /\ WF_vars(Check)
  /\ WF_vars(Tick)

-----------------------------------------------------------------------------
TypeOK ==
  /\ pc \in {"idle", "health", "restart", "verify"}
  /\ active \in BOOLEAN
  /\ elapsed \in 0 .. MaxElapsed
  /\ healthFailCount \in 0 .. 3
  /\ restartTimestamps \in Seq(Age) /\ Len(restartTimestamps) <= MaxRestarts
  /\ lastRestart \in Age \cup {Never}
  /\ escalated \in BOOLEAN
  /\ up \in BOOLEAN /\ maintenance \in BOOLEAN /\ accepted \in BOOLEAN
  /\ policy \in {"AUTO_REMEDIATE", "NOTIFY_EMAIL"}
  /\ raised \in {"none", "RESOLVED", "FAILED", "PENDING_OPERATOR"}
  /\ recent \in Seq(Age) /\ Len(recent) <= MaxRestarts + 1
  /\ stable \in Age

(* "Sliding Window: 3 restarts in 10 minutes", as far as the code keeps    *)
(* it: the list dates a restart by the start of its Check, so a restart    *)
(* that came late in its Check leaves the list that much too early.        *)
(* Whatever the policy and the cooldown do in between, a RestartWindow     *)
(* shortened by the longest Check never holds more than MaxRestarts        *)
(* restarts, failed ones included; a whole RestartWindow may.              *)
RestartBudget ==
  Cardinality({i \in DOMAIN recent : recent[i] <= RestartWindow - MaxElapsed}) <= MaxRestarts

(* The breaker and the policy keep quiet only after they have said so:     *)
(* while escalated is set, the last event the monitor raised (and logged)  *)
(* is that failure, not a RESOLVED.  That the backend hears of it, or      *)
(* hears of the two in this order, the code does not promise.              *)
EscalatedWasRaised == escalated => raised \in {"FAILED", "PENDING_OPERATOR"}

(* The breaker is half-open: a listed service under AUTO_REMEDIATE that    *)
(* stays down is restarted again and again, a suspension is never final.   *)
RemediationResumes ==
  <>[](~up /\ accepted /\ policy = "AUTO_REMEDIATE" /\ ~maintenance)
    => []<>(pc = "restart")

(* crash.go:265: "Auto-Reset if service has been running stably for >=     *)
(* CooldownDuration": the flap counter is reset by the cooldown only if no *)
(* Check in that time found the service down.                              *)
ResetOnlyWhenStable ==
  [][pc = "health" /\ pc' = "idle" /\ active /\ up
       /\ restartTimestamps # << >> /\ restartTimestamps' = << >>
       => SinceNow(stable) >= CooldownDuration]_vars

=============================================================================
