------------------------------ MODULE Services ------------------------------
(***************************************************************************)
(* The components that share no state with each other or with the          *)
(* incidents, side by side: in each behaviour one of them moves, the part, *)
(* and the others stay as they began.                                      *)
(***************************************************************************)
EXTENDS Sequences, WorkflowSession

CONSTANTS
  Volumes, Links, SixHours,                       \* AgentCollect
  Keep, MaxReleases, MaxEnrolments, MaxStops,     \* AgentInstall
  Requests, Values, MaxVersions, Forms,           \* Versions
  Applications, Targets,                          \* Probes
  Day, MaxSwaps,                                  \* Certificates
  Days, MaxOutage, MaxHeld,                       \* Retention
  Items, PerUser, States, Cap,                    \* Inventory
  StallAfter, MaxAge                              \* Watchdog

VARIABLES
  part,
  usage, usageAge, scan, open, history, sample, seen,
  server, issued, answer, config, loop, release, newest, bad, copies, stops,
  profile, deleted, versions, edit,
  application, target, checked, diagnosed,
  secured, actual, stored, readAge, checking,
  keepIncidents, keepMail, incident, mail, held, purgedOn, worker, delivered,
  category, snapshot, request, begun, told, sure,
  stamp, cycle, database, web, mailServer, reported, lastMail

-----------------------------------------------------------------------------
Collect == INSTANCE AgentCollect
Installed == INSTANCE AgentInstall
Edits == INSTANCE Versions
Probe == INSTANCE Probes
Certs == INSTANCE Certificates
Purge == INSTANCE Retention
Drift == INSTANCE Inventory WITH Values <- States
Watch == INSTANCE Watchdog WITH worker <- cycle, mail <- mailServer, told <- lastMail

-----------------------------------------------------------------------------
workflow == workflowVars
collect == <<usage, usageAge, scan, open, history, sample, seen>>
install == <<server, issued, answer, config, loop, release, newest, bad, copies, stops>>
edits == <<profile, deleted, versions, edit>>
probes == <<application, target, checked, diagnosed>>
certs == <<secured, actual, stored, readAge, checking>>
purge == <<keepIncidents, keepMail, incident, mail, held, purgedOn, worker, delivered>>
drift == <<category, snapshot, request, begun, told, sure>>
watch == <<stamp, cycle, database, web, mailServer, reported, lastMail>>
allVars == <<part, workflow, collect, install, edits, probes, certs, purge, drift, watch>>

\* Where a component can begin in several ways, one of them stands for all
\* while another component is the part, and in Versions always: which values
\* a profile begins with makes no difference.
Init ==
  /\ part \in {"workflow", "collect", "install", "edits", "probes", "certs", "purge", "drift", "watch"}
  /\ WorkflowInit /\ IF part = "workflow" THEN TRUE ELSE marked /\ spotted
  /\ Collect!CollectInit /\ IF part = "collect" THEN TRUE ELSE usageAge = 0
  /\ Installed!InstallInit /\ IF part = "install" THEN TRUE ELSE bad = {}
  /\ Edits!VersionsInit /\ profile.enabled /\ profile.field = 1
  /\ IF part = "probes" THEN Probe!ProbesInit
     ELSE /\ application = CHOOSE a \in Applications : TRUE
          /\ target = CHOOSE t \in Targets : TRUE
          /\ checked = Probe!NotYet /\ diagnosed = << >>
  /\ Certs!CertInit /\ IF part = "certs" THEN TRUE ELSE secured
  /\ Purge!RetentionInit
  /\ IF part = "purge" THEN TRUE ELSE keepIncidents = keepMail /\ keepMail = CHOOSE d \in Days : TRUE
  /\ Drift!InventoryInit /\ IF part = "drift" THEN TRUE ELSE category = "SERVICE"
  /\ Watch!Init /\ IF part = "watch" THEN TRUE ELSE stamp = 0

Next ==
  \/ /\ part = "workflow" /\ WorkflowNext
     /\ UNCHANGED <<part, collect, install, edits, probes, certs, purge, drift, watch>>
  \/ /\ part = "collect" /\ Collect!CollectNext
     /\ UNCHANGED <<part, workflow, install, edits, probes, certs, purge, drift, watch>>
  \/ /\ part = "install" /\ Installed!InstallNext
     /\ UNCHANGED <<part, workflow, collect, edits, probes, certs, purge, drift, watch>>
  \/ /\ part = "edits" /\ Edits!VersionsNext
     /\ UNCHANGED <<part, workflow, collect, install, probes, certs, purge, drift, watch>>
  \/ /\ part = "probes" /\ Probe!ProbesNext
     /\ UNCHANGED <<part, workflow, collect, install, edits, certs, purge, drift, watch>>
  \/ /\ part = "certs" /\ Certs!CertNext
     /\ UNCHANGED <<part, workflow, collect, install, edits, probes, purge, drift, watch>>
  \/ /\ part = "purge" /\ Purge!RetentionNext
     /\ UNCHANGED <<part, workflow, collect, install, edits, probes, certs, drift, watch>>
  \/ /\ part = "drift" /\ Drift!InventoryNext
     /\ UNCHANGED <<part, workflow, collect, install, edits, probes, certs, purge, watch>>
  \/ /\ part = "watch" /\ Watch!Next
     /\ UNCHANGED <<part, workflow, collect, install, edits, probes, certs, purge, drift>>

\* Time passes; the worker's checks of a workflow go on, those by hand need not.
WorkflowFairness ==
  /\ WF_workflow(part = "workflow" /\ PassTime)
  /\ \A r \in Worker : WF_workflow(part = "workflow" /\ Attempt(r))

\* Heartbeats follow each other, and so do the samples; a scan that is not
\* stopped goes on.
CollectFairness ==
  /\ WF_collect(part = "collect" /\ Collect!PassTime)
  /\ WF_collect(part = "collect" /\ Collect!AskForUsage)
  /\ WF_collect(part = "collect" /\ Collect!ScanOn)
  /\ \A t \in Collect!Threads : WF_collect(part = "collect" /\ Collect!FoldSample(t))

\* The service starts with the machine, the loop turns, operators restore.
InstallFairness ==
  /\ WF_install(part = "install" /\ Installed!StartAgent)
  /\ WF_install(part = "install" /\ Installed!Reload)
  /\ WF_install(part = "install" /\ Installed!Restore)

\* Checks go on, and each ends with its reading.
CertFairness ==
  /\ WF_certs(part = "certs" /\ Certs!Tick)
  /\ WF_certs(part = "certs" /\ Certs!Measure)
  /\ WF_certs(part = "certs" /\ \E readable \in BOOLEAN : Certs!RefreshCertificate(readable))

\* The scheduler starts a cycle when its trigger fires; how long one takes is
\* open. The watchdog runs every ten minutes and not every write of its state
\* file fails.
WatchFairness ==
  /\ WF_watch(part = "watch" /\ Watch!PollPasses)
  /\ WF_watch(part = "watch" /\ (Watch!StartCycle \/ Watch!SkipCycle))
  /\ WF_watch(part = "watch" /\ Watch!RecordCycle)
  /\ WF_watch(part = "watch" /\ Watch!EndCycle)
  /\ WF_watch(part = "watch" /\ Watch!FindFailure(TRUE))
  /\ WF_watch(part = "watch" /\ Watch!FindAllWell(TRUE))

FairSpec ==
  /\ Init /\ [][Next]_allVars
  /\ WorkflowFairness /\ CollectFairness /\ InstallFairness /\ CertFairness
  /\ WatchFairness

-----------------------------------------------------------------------------
(* Properties: those of the modules, by their names there.                 *)

\* The worker's workflow checks succeed again. (WorkflowSession)
WorkflowComesBack == <>[](part = "workflow") => WorkflowRecovers

\* Every readable volume is spoken of again and again. (AgentCollect)
VolumesComeBack == <>[](part = "collect") => Collect!VolumesComeBack

\* A connection to a database is reported for six hours. (AgentCollect)
LinksRemembered == Collect!LinksRemembered

\* The hub hears the agent again, in its newest working release. (AgentInstall)
AgentReconnects == <>[](part = "install") => Installed!AgentReconnects

\* What an edit replaced can be brought back. (Versions)
UndoIsPossible == Edits!UndoIsPossible

\* A diagnosis agrees with the check. (Probes)
DiagnosisAgrees == Probe!DiagnosisAgrees

\* The expiry shown is that of the certificate presented, if of the reads due
\* of an https URL not all fail. (Certificates)
ReadDue == part = "certs" /\ secured /\ readAge = Day
CertificateFollows ==
  <>[](part = "certs") /\ SF_certs(ReadDue /\ Certs!RefreshCertificate(TRUE))
    => Certs!CertificateFollows

\* What a mail that waited depends on to go out, and to go out once. (Retention)
HeldMailGoesOnce == Purge!HeldMailGoesOnce

\* The changes of an inventory add up to it. (Inventory)
DriftRecorded == Drift!DriftRecorded

\* Quick cycles see again after any absence. (Watchdog)
QuickCyclesSee == <>[](part = "watch") => Watch!QuickCyclesSee

\* The watchdog reports no worker whose cycles are not too slow. (Watchdog)
NoFalseAlarm == <>[](part = "watch") => Watch!NoFalseAlarm

\* It reports one that stays away. (Watchdog)
StallTold == <>[](part = "watch") => Watch!StallTold
=============================================================================
