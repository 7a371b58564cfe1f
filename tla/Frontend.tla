------------------------------ MODULE Frontend ------------------------------
(***************************************************************************)
(* One view of the web application at a time: a page that shows one thing  *)
(* (Panels), the list of machines (ServerList) or the live log view        *)
(* (LogStream); or the row of a machine that the views show (MachineRow).  *)
(* They have no state in common, so a behaviour follows the scene it       *)
(* starts with and leaves the others as they were.                         *)
(***************************************************************************)
EXTENDS Panels, ServerList, LogStream, MachineRow

CONSTANT Scenes

ASSUME FrontendAssumption == Scenes \subseteq {"page", "list", "logs", "row"}

VARIABLE scene

vars == <<scene, panelVars, listVars, logVars, rowVars>>

(* A view that is not on the scene stays in one of its initial states.  A  *)
(* page begins with one of the things: they are alike.                     *)
Still ==
  /\ sel = CHOOSE t \in Things : TRUE
  /\ scene # "page" => page = SyntheticTestDetailsPage
  /\ scene # "list" => machine = [m \in Machines |-> "absent"]
  /\ scene # "logs" => query = CHOOSE q \in Queries : TRUE

Init == scene \in Scenes /\ PanelInit /\ ListInit /\ LogInit /\ RowInit /\ Still

Next ==
  \/ scene = "page" /\ PanelStep /\ UNCHANGED <<scene, listVars, logVars, rowVars>>
  \/ scene = "list" /\ ListStep /\ UNCHANGED <<scene, panelVars, logVars, rowVars>>
  \/ scene = "logs" /\ LogStep /\ UNCHANGED <<scene, panelVars, listVars, rowVars>>
  \/ scene = "row"  /\ RowStep /\ UNCHANGED <<scene, panelVars, listVars, logVars>>

Spec == Init /\ [][Next]_vars

(* Calls are answered, the handlers go on after them, messages arrive and  *)
(* timers run.                                                             *)
PageFairness ==
  /\ WF_panelVars(scene = "page" /\ Poll)
  /\ WF_panelVars(scene = "page" /\ \E i \in DOMAIN loads : Serve(i))
  /\ WF_panelVars(scene = "page" /\ \E i \in DOMAIN loads : Reply(i))
  /\ WF_panelVars(scene = "page" /\ \E w \in Writers : ServeWrite(w))
  /\ WF_panelVars(scene = "page" /\ \E w \in Writers : EndWrite(w))

ListFairness ==
  /\ WF_listVars(scene = "list" /\ FetchServers)
  /\ WF_listVars(scene = "list" /\ \E i \in DOMAIN fetches : ServeServers(i))
  /\ WF_listVars(scene = "list" /\ \E i \in DOMAIN fetches : TakeServers(i))
  /\ \A m \in Machines : WF_listVars(scene = "list" /\ UpdateServerMetrics(m))
  /\ WF_listVars(scene = "list" /\ ServePurge)

(* Handlers and the monitor go on, the agent that lives sends heartbeats   *)
(* and time passes.                                                        *)
RowFairness ==
  /\ \A j \in Jobs : WF_rowVars(scene = "row" /\ Proceeds(j))
  /\ WF_rowVars(scene = "row" /\ Silence)
  /\ WF_rowVars(scene = "row" /\ StatusMonitor)
  /\ WF_rowVars(scene = "row" /\ Heartbeat(Beat))

FairSpec == Spec /\ PageFairness /\ ListFairness /\ RowFairness

TypeOK == PanelTypeOK /\ ListTypeOK /\ LogTypeOK /\ RowTypeOK /\ scene \in Scenes

=============================================================================
