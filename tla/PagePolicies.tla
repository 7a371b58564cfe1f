---------------------------- MODULE PagePolicies ----------------------------
(***************************************************************************)
(* The pages of the web application (frontend/src), each by the choices    *)
(* its code makes; Panels has the behaviour.                               *)
(*                                                                         *)
(*   own      what happens when the user selects another thing: the page   *)
(*            is "remounted"; its effect is "guarded" by an active flag,   *)
(*            and the old data is hidden or "kept"; it is "free" (the      *)
(*            effect runs again over the old data); it is "lazy" (no       *)
(*            effect runs, the next load is for the new thing); or there   *)
(*            is one thing only: "fixed"                                   *)
(*   timer    loads again by itself ("poll"), when asked ("button"), or    *)
(*            not ("once")                                                 *)
(*   onError  a failed load keeps what is shown, or replaces it            *)
(*   writes   what the handlers do that change the thing                   *)
(*                                                                         *)
(* A write patches what is shown at the click, when the call was served or *)
(* when it was refused, and loads again when it was served or refused,     *)
(* some after a moment.  Done is what the backend has recorded: that an    *)
(* agent carries it out later is RemoteCommands.                           *)
(***************************************************************************)

Page(own, timer, onError, writes) ==
  [own |-> own, timer |-> timer, onError |-> onError, writes |-> writes]

Kind(patch, reload) ==
  [patch |-> patch, reload |-> reload, mask |-> FALSE, call |-> TRUE]

NoCall == [patch |-> {}, reload |-> {}, mask |-> FALSE, call |-> FALSE]

LoadsAgain    == Kind({}, {"served"})
LoadsAnyway   == Kind({}, {"served", "refused"})
Patches       == Kind({"served"}, {})
PatchesAnyway == Kind({"served", "refused"}, {})
PatchesAndLoads       == Kind({"served"}, {"served"})
PatchesAndLoadsAnyway == Kind({"served", "refused"}, {"served", "refused"})

Keep    == {"keep"}
Replace == {"replace"}
Either  == {"keep", "replace"}

-----------------------------------------------------------------------------
(* Tabs of a machine: the page of the machine unmounts them while it loads *)

DockerTab     == Page("remounted", "poll", Keep, {})
KubernetesTab == Page("remounted", "poll", Either, {})
StorageTab    == Page("remounted", "poll", Keep, {})
HistoryTab    == Page("remounted", "button", Keep, {})
OverviewTab   == Page("remounted", "once", Replace, {})

ProcessesReset == {LoadsAgain}
(* The list of samples it has built in *)
ProcessesTab   == Page("remounted", "poll", Replace, ProcessesReset)

SoftwareTasks == {LoadsAgain}
SoftwareTab   == Page("remounted", "button", Replace, SoftwareTasks)

FilesUpload == {LoadsAgain}
FilesCreate == {LoadsAgain}
FilesRenameDelete == {LoadsAgain}
FilesSave   == {LoadsAgain}
(* A directory and its path change together, when its load is answered.    *)
FilesTab ==
  Page("remounted", "button", Either, FilesUpload \cup FilesCreate \cup FilesRenameDelete \cup FilesSave)

ServicesMonitored == {LoadsAgain}
ServicesRestart   == {Patches}
ServicesTab == Page("remounted", "button", Keep, ServicesMonitored \cup ServicesRestart)

(* The filters are the thing it shows, or the search, which no effect      *)
(* depends on but the interval's: typing loads nothing.  The interval runs *)
(* while live streaming is on; when it is paused a button is left.         *)
LogsTab             == Page("free", "poll", Keep, {})
LogsTabSearch       == Page("lazy", "poll", Keep, {})
LogsTabPaused       == Page("free", "button", Keep, {})
LogsTabPausedSearch == Page("lazy", "button", Keep, {})

-----------------------------------------------------------------------------
(* Pages and dialogs of one machine *)

(* They wait for both calls to settle and then patch.                      *)
MachineStopResume == {PatchesAnyway}
MachineDetailPage == Page("guarded", "poll", Either, MachineStopResume)
QuickHostDrawer   == Page("guarded", "once", Replace, {})
(* The correlations of a line of a log *)
LogDetailsDrawer  == Page("kept", "once", Keep, {})

AccessPermission  == {Patches}
HostAccessModal   == Page("guarded", "once", Replace, AccessPermission)

SecurityPlaybook  == {LoadsAgain}
HostSecurityModal == Page("free", "button", Replace, SecurityPlaybook)

LiveMetricsPage   == Page("free", "poll", Keep, {})

(* A command that is refused is put into the list by the page.             *)
TerminalExecute   == {Kind({"refused"}, {"served"})}
TerminalPage      == Page("free", "poll", Keep, TerminalExecute)

LatencyChecks     == {LoadsAgain}
SRELatencyPage    == Page("free", "poll", Either, LatencyChecks)

CrashResetFlap    == {LoadsAnyway}
CrashRemediate    == {PatchesAnyway}
SRECrashPage      == Page("free", "poll", Replace, CrashResetFlap \cup CrashRemediate)

(* An execution is written into the history also when the call failed.     *)
DiskRemediate     == {PatchesAndLoadsAnyway}
SREDiskPage       == Page("fixed", "poll", Either, DiskRemediate)

-----------------------------------------------------------------------------
(* Pages of the fleet *)

(* A machine deleted here is left out of all later loads: by one dialog    *)
(* when the call was served, by the menu when it has settled.              *)
FleetConfirmDelete == {[LoadsAgain EXCEPT !.patch = {"served"}, !.mask = TRUE]}
FleetDelete == {[LoadsAnyway EXCEPT !.patch = {"served", "refused"}, !.mask = TRUE]}
FleetPurge  == {LoadsAgain}
FleetBlocks == {PatchesAnyway}
EnterpriseDashboard ==
  Page("fixed", "poll", Either, FleetConfirmDelete \cup FleetDelete \cup FleetPurge \cup FleetBlocks)

ContainerAction == {LoadsAgain}
DockerPage      == Page("fixed", "poll", Either, ContainerAction)

(* What was not run is shown with figures made up by the page.             *)
OperationsReset == {PatchesAnyway}
OperationsRuns  == {PatchesAnyway}
SREOperationsPage == Page("fixed", "once", Keep, OperationsReset \cup OperationsRuns)

SyntheticRunDelete       == {LoadsAgain}
SyntheticMonitoringPage  == Page("fixed", "poll", Keep, SyntheticRunDelete)
SyntheticRun             == {LoadsAgain}
SyntheticTestDetailsPage == Page("free", "once", Keep, SyntheticRun)

ReportsGenerate == {PatchesAndLoads}
ReportsDelete   == {PatchesAndLoadsAnyway}
Reports == Page("fixed", "poll", Keep, ReportsGenerate \cup ReportsDelete)

ReportFiles == {LoadsAgain}
ReportsPage == Page("fixed", "once", Keep, ReportFiles)

AICenter       == Page("fixed", "poll", Replace, {})
AIInsights     == Page("fixed", "poll", Replace, {})
APMDashboard   == Page("fixed", "poll", Keep, {})
AnalyticsSuite == Page("free", "button", Keep, {})
TracingSuite   == Page("free", "button", Keep, {})
(* Its load begins with the moment it waits for the next key.              *)
GlobalSearch   == Page("free", "once", Keep, {})
SearchResults  == Page("free", "once", Replace, {})
LogPatternsTab == Page("free", "button", Replace, {})
AuditLogsPage  == Page("fixed", "button", Keep, {})
DigitalTwinDAG == Page("fixed", "once", Keep, {})
DeployPage     == Page("free", "once", Keep, {})

AutomationRule     == {LoadsAgain}
AutomationRun      == {LoadsAgain}
AutomationApproval == {LoadsAgain}
AutomationSuite ==
  Page("fixed", "button", Keep, AutomationRule \cup AutomationRun \cup AutomationApproval)

(* The list and its filters; the pane of one incident is left out.         *)
IncidentResolve == {LoadsAgain}
IncidentCenter  == Page("free", "once", Keep, IncidentResolve)

AIOpsRemediation == {LoadsAgain}
AIOpsDashboard   == Page("fixed", "button", Keep, AIOpsRemediation)
CloudConnect     == {LoadsAgain}
CloudSuite       == Page("fixed", "button", Keep, CloudConnect)
APIKeys          == {LoadsAgain}
SecuritySuitePage == Page("fixed", "button", Keep, APIKeys)
RuleChanges      == {LoadsAgain}
AlertRules       == Page("fixed", "button", Keep, RuleChanges)

-----------------------------------------------------------------------------
(* Administration *)

(* The invitation puts the user into the list and calls nobody.            *)
UserInvite  == {[NoCall EXCEPT !.patch = {"click"}]}
UserChanges == {LoadsAgain}
UsersPage   == Page("fixed", "button", Keep, UserChanges \cup UserInvite)

(* They save at the click in the browser, then in the backend.             *)
SaveNotifications     == {Kind({"click"}, {})}
NotificationStore     == Page("fixed", "button", Keep, SaveNotifications)
SavePolicy            == {Kind({"click", "served"}, {})}
AdminSREPolicyControl == Page("fixed", "once", Keep, SavePolicy)

PlatformBackups        == {LoadsAgain}
PlatformAdminDashboard == Page("fixed", "poll", Keep, PlatformBackups)
RecoveryBackups           == {LoadsAgain}
DisasterRecoveryDashboard == Page("fixed", "once", Keep, RecoveryBackups)

ComplianceMFA == {LoadsAgain}
ComplianceGovernanceDashboard == Page("fixed", "button", Keep, ComplianceMFA)
ProductionEngineeringDashboard == Page("fixed", "button", Keep, {})
SuperAdminDashboard            == Page("fixed", "button", Keep, {})
OrganizationSwitcher           == Page("fixed", "once", Replace, {})

(* The organizations it may show are those with an id: the stand-in that   *)
(* is called default has nothing to load.                                  *)
OrganizationChanges    == {LoadsAgain}
OrganizationManagement == Page("free", "once", Keep, OrganizationChanges)

BuilderWidgets   == {Patches}
DashboardBuilder == Page("free", "once", Keep, BuilderWidgets)
DashboardChanges == {LoadsAgain}
DashboardManager == Page("fixed", "once", Keep, DashboardChanges)

ExtractionRuleChanges       == {PatchesAnyway}
SavedExtractionRulesCatalog == Page("fixed", "once", Replace, ExtractionRuleChanges)

-----------------------------------------------------------------------------
Pages ==
  {DockerTab, KubernetesTab, StorageTab, HistoryTab, OverviewTab, ProcessesTab,
   SoftwareTab, FilesTab, ServicesTab,
   LogsTab, LogsTabSearch, LogsTabPaused, LogsTabPausedSearch,
   MachineDetailPage, QuickHostDrawer, LogDetailsDrawer, HostAccessModal,
   HostSecurityModal, LiveMetricsPage, TerminalPage, SRELatencyPage,
   SRECrashPage, SREDiskPage,
   EnterpriseDashboard, DockerPage, SREOperationsPage, SyntheticMonitoringPage,
   SyntheticTestDetailsPage, Reports, ReportsPage, AICenter, AIInsights,
   APMDashboard, AnalyticsSuite, TracingSuite, GlobalSearch, SearchResults,
   LogPatternsTab, AuditLogsPage, DigitalTwinDAG, DeployPage, AutomationSuite,
   IncidentCenter, AIOpsDashboard, CloudSuite, SecuritySuitePage, AlertRules,
   UsersPage, NotificationStore, AdminSREPolicyControl, PlatformAdminDashboard,
   DisasterRecoveryDashboard, ComplianceGovernanceDashboard,
   ProductionEngineeringDashboard, SuperAdminDashboard, OrganizationSwitcher,
   OrganizationManagement, DashboardBuilder, DashboardManager,
   SavedExtractionRulesCatalog}

=============================================================================
