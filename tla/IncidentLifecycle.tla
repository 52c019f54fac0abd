------------------------- MODULE IncidentLifecycle -------------------------
(***************************************************************************)
(* The outage record of the monitored applications: how one completed      *)
(* health check (_apply_transition, run by the worker's cycle or by a      *)
(* user's "Run check") moves an application's status and failure streak    *)
(* and opens or resolves incidents, and what users and administrators may  *)
(* do to incidents and applications between two checks.                    *)
(*                                                                         *)
(* A check's transition is one step here; ConcurrentChecks splits it at    *)
(* its database commits. The emails a transition asks for are the subject  *)
(* of NotificationDelivery.                                                *)
(***************************************************************************)
EXTENDS Integers

CONSTANTS
  Apps,           \* the applications
  Servers,        \* the servers whose agents report heartbeats
  NoServer,       \* "no host and no network witness recorded"
  HostOf,         \* hosted_on_server_id or else network_witness_server_id
  DependsOn,      \* depends_on
  Results,        \* the statuses a check of these applications can have
  Scopes,         \* what maintenance windows cover: an application, or "ALL"
  Required,       \* failed_checks_before_incident
  MaxIncidents    \* bound on the rows of the incidents table

ASSUME HostAssumption == HostOf \in [Apps -> Servers \cup {NoServer}]
ASSUME DependsAssumption == DependsOn \in [Apps -> SUBSET Apps]
ASSUME ResultsAssumption == Results \subseteq {"UP", "DEGRADED", "DOWN", "UNKNOWN"}
ASSUME ScopesAssumption == Scopes \subseteq Apps \cup {"ALL"}
ASSUME RequiredAssumption == Required \in Nat \ {0}
ASSUME BoundAssumption == MaxIncidents \in Nat
ASSUME NoServerAssumption == NoServer \notin Servers

VARIABLES
  registered,  \* monitoring_enabled and deleted_at of each application
  status,      \* current_status
  streak,      \* failure_streak; only "at least Required" matters, so it
               \* saturates there
  lastCheck,   \* status of the application's newest health_checks row
  heeded,      \* that row went through the streak: not taken in a
               \* maintenance window nor in a blind cycle
  okSince,     \* last_successful_check_at is later than the started_at of
               \* the application's newest incident
  windows,     \* the scopes of the active maintenance windows
  contact,     \* last heartbeat of each server
  created,     \* rows in the incidents table
  incident     \* the rows, numbered in creation order

vars == <<registered, status, streak, lastCheck, heeded, okSince, windows,
          contact, created, incident>>

appVars == <<registered, status, streak, lastCheck, heeded, okSince>>

Outcomes == {"UP", "DEGRADED", "DOWN", "UNKNOWN"}
Successes == {"UP", "DEGRADED"}
Ids == 1 .. MaxIncidents

\* The incidents columns the lifecycle reads or writes: reopened_count is
\* kept as "reopened at least once", resolved_by_id as "closed by a user".
Incident == [app : Apps, state : {"OPEN", "RESOLVED"},
             reopened : BOOLEAN, byHand : BOOLEAN]
NoRow == [state |-> "ABSENT"]

TypeOK ==
  /\ registered \in [Apps -> {"ENABLED", "DISABLED", "DELETED"}]
  /\ status \in [Apps -> Outcomes \cup {"DISABLED"}]
  /\ streak \in [Apps -> 0 .. Required]
  /\ lastCheck \in [Apps -> Outcomes \cup {"NONE"}]
  /\ heeded \in [Apps -> BOOLEAN]
  /\ okSince \in [Apps -> BOOLEAN]
  /\ windows \subseteq Scopes
  /\ contact \in [Servers -> {"NEVER", "RECENT", "STALE"}]
  /\ created \in 0 .. MaxIncidents
  /\ incident \in [Ids -> Incident \cup {NoRow}]
  /\ \A i \in Ids : i <= created <=> incident[i] # NoRow

-----------------------------------------------------------------------------
(* What a check looks up.                                                  *)

IncidentsOf(a) == {i \in 1 .. created : incident[i].app = a}

OpenIncidents(a) == {i \in IncidentsOf(a) : incident[i].state = "OPEN"}

\* Mutant: the query without its descending order.
IsActive_Oldest(i, a) ==
  i \in OpenIncidents(a) /\ \A j \in OpenIncidents(a) : i <= j

\* get_active_incident: the newest OPEN one.
IsActive(i, a) ==
  /\ i \in OpenIncidents(a)
  /\ \A j \in OpenIncidents(a) : j <= i

\* Mutant: deduplication by the status transition instead of by the table.
NoActive_ByStatus(a) == status[a] # "DOWN"

\* get_active_incident returned None.
NoActive(a) == OpenIncidents(a) = {}

IsInMaintenance(a) == windows \cap {a, "ALL"} # {}

\* host_is_reachable returns False: there is a host, it has reported before,
\* and not within the last three intervals.
HostSilent(a) == HostOf[a] # NoServer /\ contact[HostOf[a]] = "STALE"

\* Mutant: the query without its deleted_at filter.
UpstreamFailed_Deleted(a) == \E d \in DependsOn[a] \ {a} : OpenIncidents(d) # {}

\* failed_dependency finds one. A disabled dependency still counts.
UpstreamFailed(a) ==
  \E d \in DependsOn[a] \ {a} : registered[d] # "DELETED" /\ ~NoActive(d)

-----------------------------------------------------------------------------
(* One whole check with result r, and its transition.                      *)

\* Mutant: a success leaves the streak alone.
NextStreak_NoReset(a, r) ==
  IF r = "DOWN" /\ streak[a] < Required THEN streak[a] + 1 ELSE streak[a]

\* A check that could not run is neither a failure nor a success.
NextStreak(a, r) ==
  CASE r = "DOWN"       -> IF streak[a] < Required THEN streak[a] + 1 ELSE Required
    [] r = "UNKNOWN"    -> streak[a]
    [] r \in Successes  -> 0

\* The health_checks row and the columns every transition writes first.
Record(a, r, shown, heed) ==
  /\ lastCheck' = [lastCheck EXCEPT ![a] = r]
  /\ heeded' = [heeded EXCEPT ![a] = heed]
  /\ status' = [status EXCEPT ![a] = shown]
  /\ UNCHANGED <<registered, windows, contact>>

Succeeded(a, r) ==
  okSince' = [okSince EXCEPT ![a] = okSince[a] \/ r \in Successes]

CheckInMaintenance(a, r) ==
  /\ IsInMaintenance(a)
  /\ Record(a, r, r, FALSE)
  /\ Succeeded(a, r)
  /\ UNCHANGED <<streak, created, incident>>

\* Failed while the host is silent and nothing is open: UNKNOWN, no incident.
CheckPathLost(a) ==
  /\ ~IsInMaintenance(a)
  /\ HostSilent(a)
  /\ NoActive(a)
  /\ Record(a, "DOWN", "UNKNOWN", TRUE)
  /\ streak' = [streak EXCEPT ![a] = NextStreak(a, "DOWN")]
  /\ UNCHANGED <<okSince, created, incident>>

\* Failed and no incident of its own opens: a dependency has one open, or one
\* is open already (a reminder may go out), or the streak is too short.
CheckStillFailing(a) ==
  /\ ~IsInMaintenance(a)
  /\ \/ ~NoActive(a)
     \/ NoActive(a) /\ ~HostSilent(a) /\ UpstreamFailed(a)
     \/ NoActive(a) /\ ~HostSilent(a) /\ NextStreak(a, "DOWN") < Required
  /\ Record(a, "DOWN", "DOWN", TRUE)
  /\ streak' = [streak EXCEPT ![a] = NextStreak(a, "DOWN")]
  /\ UNCHANGED <<okSince, created, incident>>

CheckOpensIncident(a) ==
  /\ ~IsInMaintenance(a)
  /\ NoActive(a)
  /\ ~HostSilent(a)
  /\ ~UpstreamFailed(a)
  /\ NextStreak(a, "DOWN") >= Required
  /\ created < MaxIncidents
  /\ Record(a, "DOWN", "DOWN", TRUE)
  /\ streak' = [streak EXCEPT ![a] = NextStreak(a, "DOWN")]
  /\ okSince' = [okSince EXCEPT ![a] = FALSE]
  /\ created' = created + 1
  /\ incident' = [incident EXCEPT ![created + 1] =
       [app |-> a, state |-> "OPEN", reopened |-> FALSE, byHand |-> FALSE]]

\* Mutant: a recovery is only noticed as a transition from DOWN.
CheckSucceeds_OnTransition(a, r) ==
  /\ ~IsInMaintenance(a)
  /\ Record(a, r, r, TRUE)
  /\ Succeeded(a, r)
  /\ streak' = [streak EXCEPT ![a] = NextStreak(a, r)]
  /\ \/ (NoActive(a) \/ status[a] # "DOWN") /\ UNCHANGED incident
     \/ \E i \in IncidentsOf(a) :
          /\ IsActive(i, a) /\ status[a] = "DOWN"
          /\ incident' = [incident EXCEPT ![i].state = "RESOLVED"]
  /\ UNCHANGED created

CheckSucceeds(a, r) ==
  /\ ~IsInMaintenance(a)
  /\ Record(a, r, r, TRUE)
  /\ Succeeded(a, r)
  /\ streak' = [streak EXCEPT ![a] = NextStreak(a, r)]
  /\ \/ NoActive(a) /\ UNCHANGED incident
     \/ \E i \in IncidentsOf(a) :
          /\ IsActive(i, a)
          /\ incident' = [incident EXCEPT ![i].state = "RESOLVED"]
  /\ UNCHANGED created

\* Mutant: any result that is not DOWN closes the incident.
CheckUnrunnable_Closes(a) ==
  /\ ~IsInMaintenance(a)
  /\ Record(a, "UNKNOWN", "UNKNOWN", TRUE)
  /\ incident' = [i \in Ids |->
       IF i <= created /\ IsActive(i, a) THEN [incident[i] EXCEPT !.state = "RESOLVED"]
                                         ELSE incident[i]]
  /\ UNCHANGED <<streak, okSince, created>>

CheckUnrunnable(a) ==
  /\ ~IsInMaintenance(a)
  /\ Record(a, "UNKNOWN", "UNKNOWN", TRUE)
  /\ streak' = [streak EXCEPT ![a] = NextStreak(a, "UNKNOWN")]
  /\ UNCHANGED <<okSince, created, incident>>

Check(a) ==
  \E r \in Results :
    \/ CheckInMaintenance(a, r)
    \/ r = "DOWN" /\ (CheckPathLost(a) \/ CheckStillFailing(a) \/ CheckOpensIncident(a))
    \/ r \in Successes /\ CheckSucceeds(a, r)
    \/ r = "UNKNOWN" /\ CheckUnrunnable(a)

-----------------------------------------------------------------------------
(* Who runs checks.                                                        *)

\* The worker only takes monitored applications ...
WorkerCheck(a) == registered[a] = "ENABLED" /\ Check(a)

\* ... and in a blind cycle records the result and concludes nothing.
BlindCheck(a, r) ==
  /\ registered[a] = "ENABLED"
  /\ Record(a, r, status[a], FALSE)
  /\ UNCHANGED <<streak, okSince, created, incident>>

\* "Run check" asks only that the application is not deleted: it also checks
\* an application whose monitoring is switched off.
ManualCheck(a) == registered[a] = "DISABLED" /\ Check(a)

-----------------------------------------------------------------------------
(* Users and administrators.                                               *)

SetMonitoringEnabled(a, enabled) ==
  /\ registered[a] # "DELETED"
  /\ registered' = [registered EXCEPT ![a] = IF enabled THEN "ENABLED" ELSE "DISABLED"]
  /\ status' = [status EXCEPT ![a] =
       IF ~enabled THEN "DISABLED" ELSE IF @ = "DISABLED" THEN "UNKNOWN" ELSE @]
  /\ UNCHANGED <<streak, lastCheck, heeded, okSince, windows, contact, created, incident>>

\* The edit form, and a rollback to an older version of the profile, carry the
\* switch too: they leave the status as it is.
UpdateApplication(a, enabled) ==
  /\ registered[a] # "DELETED"
  /\ registered' = [registered EXCEPT ![a] = IF enabled THEN "ENABLED" ELSE "DISABLED"]
  /\ UNCHANGED <<status, streak, lastCheck, heeded, okSince, windows, contact, created, incident>>

SoftDelete(a) ==
  /\ registered[a] # "DELETED"
  /\ registered' = [registered EXCEPT ![a] = "DELETED"]
  /\ status' = [status EXCEPT ![a] = "DISABLED"]
  /\ UNCHANGED <<streak, lastCheck, heeded, okSince, windows, contact, created, incident>>

ResolveManually(i) ==
  /\ i <= created
  /\ incident[i].state = "OPEN"
  /\ incident' = [incident EXCEPT ![i].state = "RESOLVED", ![i].byHand = TRUE]
  /\ UNCHANGED <<appVars, windows, contact, created>>

\* reopen looks at no other incident of the application.
Reopen(i) ==
  /\ i <= created
  /\ incident[i].state = "RESOLVED"
  /\ incident' = [incident EXCEPT ![i].state = "OPEN", ![i].reopened = TRUE,
                                  ![i].byHand = FALSE]
  /\ UNCHANGED <<appVars, windows, contact, created>>

-----------------------------------------------------------------------------
(* The clock: windows start and end, heartbeats arrive and grow stale.     *)

WindowStarts(w) ==
  /\ w \notin windows
  /\ windows' = windows \cup {w}
  /\ UNCHANGED <<appVars, contact, created, incident>>

WindowEnds(w) ==
  /\ w \in windows
  /\ windows' = windows \ {w}
  /\ UNCHANGED <<appVars, contact, created, incident>>

HeartbeatHeard(s) ==
  /\ contact[s] # "RECENT"
  /\ contact' = [contact EXCEPT ![s] = "RECENT"]
  /\ UNCHANGED <<appVars, windows, created, incident>>

HeartbeatGoesStale(s) ==
  /\ contact[s] = "RECENT"
  /\ contact' = [contact EXCEPT ![s] = "STALE"]
  /\ UNCHANGED <<appVars, windows, created, incident>>

-----------------------------------------------------------------------------
Init ==
  /\ registered \in [Apps -> {"ENABLED", "DISABLED"}]
  /\ status = [a \in Apps |-> "UNKNOWN"]
  /\ streak = [a \in Apps |-> 0]
  /\ lastCheck = [a \in Apps |-> "NONE"]
  /\ heeded = [a \in Apps |-> FALSE]
  /\ okSince = [a \in Apps |-> FALSE]
  /\ windows = {}
  /\ contact = [s \in Servers |-> "NEVER"]
  /\ created = 0
  /\ incident = [i \in Ids |-> NoRow]

Next ==
  \/ \E a \in Apps :
       \/ WorkerCheck(a)
       \/ \E r \in Results : BlindCheck(a, r)
       \/ ManualCheck(a)
       \/ \E enabled \in BOOLEAN : SetMonitoringEnabled(a, enabled) \/ UpdateApplication(a, enabled)
       \/ SoftDelete(a)
  \/ \E i \in Ids : ResolveManually(i) \/ Reopen(i)
  \/ \E w \in Scopes : WindowStarts(w) \/ WindowEnds(w)
  \/ \E s \in Servers : HeartbeatHeard(s) \/ HeartbeatGoesStale(s)

Spec == Init /\ [][Next]_vars

\* The worker's scheduler runs a cycle every poll interval and every cycle
\* checks the applications that are due. Blind cycles come in between and are
\* taken to end: a cycle longer than four poll intervals makes the next one
\* blind, and where every cycle is that long none of this holds. Users owe
\* nothing.
FairSpec == Spec /\ \A a \in Apps : WF_vars(WorkerCheck(a))

-----------------------------------------------------------------------------
(* Properties.                                                             *)

Newest(i, a) == i \in IncidentsOf(a) /\ \A j \in IncidentsOf(a) : j <= i

Opens(a) == created' = created + 1 /\ incident'[created'].app = a

\* open_incident never adds a second open row for an application: when two
\* are open, a user reopened the older one, which docs/database.md:34 rules
\* out. (monitoring_service 565-608, incident_service 38-80)
DuplicateOnlyByReopen ==
  \A i, j \in 1 .. created :
    (/\ i < j
     /\ incident[i].app = incident[j].app
     /\ incident[i].state = "OPEN"
     /\ incident[j].state = "OPEN") => incident[i].reopened

\* After a check that succeeded and was heeded, whatever is still open was
\* reopened by a user: no outage outlives the recovery it had.
\* (monitoring_service 612-618)
RecoveredMeansClosed ==
  \A a \in Apps : heeded[a] /\ lastCheck[a] \in Successes =>
    \A i \in OpenIncidents(a) : incident[i].reopened

\* A second incident is a second outage: the application answered since the
\* newest one started, or a user closed that one by hand. A maintenance
\* window, an unrunnable check, a silent host or a switch-off in the middle
\* of an outage never splits it in two. (monitoring_service 534-618)
NewIncidentIsNewOutage ==
  [][\A a \in Apps : Opens(a) =>
       okSince[a] \/ \A i \in 1 .. created : Newest(i, a) => incident[i].byHand]_vars

\* With two or more failures required, the failing check right after a heeded
\* success opens nothing. (monitoring_service 39-43, 555-559, 595-596)
NoAlertOnABlip ==
  [][\A a \in Apps : Opens(a) /\ Required > 1 /\ heeded[a] =>
       lastCheck[a] \notin Successes]_vars

Excused(a) ==
  \/ windows \cap {a, "ALL"} # {}
  \/ HostOf[a] # NoServer /\ contact[HostOf[a]] = "STALE"
  \/ \E d \in DependsOn[a] \ {a}, i \in 1 .. created :
       registered[d] # "DELETED" /\ incident[i].app = d /\ incident[i].state = "OPEN"

\* An outage is never silent: a monitored application whose checks keep
\* failing, outside maintenance, with its host in contact and no live
\* dependency's incident open, gets an incident, also after a user closed
\* one. (monitoring_service 534-608)
OutageAlerted ==
  \A a \in Apps :
    <>[](registered[a] = "ENABLED" /\ lastCheck[a] = "DOWN" /\ ~Excused(a))
      => []<>(\E i \in 1 .. created : incident[i].app = a /\ incident[i].state = "OPEN")

\* An incident does not outlive its outage: once checks keep succeeding
\* outside maintenance and users stop reopening, every incident of the
\* application closes, duplicates included. (monitoring_service 612-618)
RecoveryClosesAll ==
  \A a \in Apps :
    /\ <>[](/\ registered[a] = "ENABLED" /\ lastCheck[a] \in Successes
            /\ windows \cap {a, "ALL"} = {})
    /\ <>[][~\E i \in Ids : Reopen(i)]_vars
    => <>[](\A i \in 1 .. created : incident[i].app = a => incident[i].state = "RESOLVED")
=============================================================================
