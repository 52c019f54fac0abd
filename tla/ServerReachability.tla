------------------------- MODULE ServerReachability -------------------------
(***************************************************************************)
(* Is one enrolled server reachable? Its agent's heartbeats arrive in the  *)
(* web process (record_heartbeat) while the worker's cycle looks for       *)
(* missed ones (check_missed_heartbeats); both write the server's status   *)
(* and its REACHABILITY incidents, one commit at a time. A missing         *)
(* heartbeat alone is not an outage: applications answering on the host,   *)
(* or the platform itself running there, make it the agent's fault.        *)
(*                                                                         *)
(* RESOURCE and COMPONENT incidents are apart from these. The heartbeat's  *)
(* other columns and the emails (NotificationDelivery) are left out.       *)
(***************************************************************************)
EXTENDS Integers

CONSTANTS
  ThisMachine,   \* is_this_machine: the platform runs on this server
  MaxIncidents   \* bound on the rows of the incidents table

ASSUME ThisMachineAssumption == ThisMachine \in BOOLEAN
ASSUME BoundAssumption == MaxIncidents \in Nat

VARIABLES
  status,    \* current_status
  contact,   \* last_heartbeat_at: none, recent, or older than three intervals
  serving,   \* a recent check of an application hosted here succeeded
  created,   \* rows in the incidents table
  incident,  \* the rows, in creation order
  worker,    \* where the worker's scan of this server is
  request    \* where the heartbeat request is

vars == <<status, contact, serving, created, incident, worker, request>>

Ids == 1 .. MaxIncidents
Incident == [open : BOOLEAN, reopened : BOOLEAN]
NoRow == [open |-> FALSE]

\* sees is the status the scan or the request loaded; cut, that the last scan
\* was cut short.
Statuses == {"UNKNOWN", "UP", "DOWN", "AGENT_DOWN"}
WorkerIdle == [at |-> "idle", blind |-> FALSE, sees |-> "UNKNOWN", cut |-> FALSE]
RequestIdle == [at |-> "idle", sees |-> "UNKNOWN"]

TypeOK ==
  /\ status \in Statuses
  /\ contact \in {"NEVER", "RECENT", "OVERDUE"}
  /\ serving \in BOOLEAN
  /\ created \in 0 .. MaxIncidents
  /\ incident \in [Ids -> Incident \cup {NoRow}]
  /\ \A i \in Ids : i <= created <=> incident[i] # NoRow
  /\ worker \in [at : {"idle", "vouched", "vouchedFor", "missed", "marked"},
                 blind : BOOLEAN, sees : Statuses, cut : BOOLEAN]
  /\ request \in [at : {"idle", "loaded", "stored"}, sees : Statuses]

OpenIncidents == {i \in 1 .. created : incident[i].open}

\* get_active_incident for this server: the newest open one.
IsActive(i) == i \in OpenIncidents /\ \A j \in OpenIncidents : j <= i

CloseActive ==
  IF OpenIncidents = {} THEN UNCHANGED incident
  ELSE \E i \in OpenIncidents : IsActive(i) /\ incident' = [incident EXCEPT ![i].open = FALSE]

-----------------------------------------------------------------------------
(* record_heartbeat.                                                       *)

\* was_down is read before anything is written.
HeartbeatArrives ==
  /\ request.at = "idle"
  /\ request' = [at |-> "loaded", sees |-> status]
  /\ UNCHANGED <<status, contact, serving, created, incident, worker>>

\* Mutant: only an outage is ended by a heartbeat.
HeartbeatStored_FromDown ==
  /\ request.at = "loaded"
  /\ contact' = "RECENT"
  /\ status' = IF request.sees \in {"DOWN", "UNKNOWN"} THEN "UP" ELSE status
  /\ request' = [request EXCEPT !.at = "stored"]
  /\ UNCHANGED <<serving, created, incident, worker>>

\* Setting UP on a row loaded as UP writes nothing, unless a recorded
\* inventory change committed, and so unloaded the row, in between.
HeartbeatStored ==
  /\ request.at = "loaded"
  /\ contact' = "RECENT"
  /\ \/ status' = "UP"
     \/ request.sees = "UP" /\ status' = status
  /\ request' = [request EXCEPT !.at = "stored"]
  /\ UNCHANGED <<serving, created, incident, worker>>

HeartbeatEnds ==
  /\ request.at = "stored"
  /\ IF request.sees = "DOWN" THEN CloseActive ELSE UNCHANGED incident
  /\ request' = RequestIdle
  /\ UNCHANGED <<status, contact, serving, created, worker>>

-----------------------------------------------------------------------------
(* check_missed_heartbeats, in a cycle that is blind or not.               *)

\* The row is loaded and the heartbeat found overdue.
ScanFindsMissed(blind) ==
  /\ worker.at = "idle"
  /\ contact = "OVERDUE"
  /\ worker' = [at |-> IF ThisMachine \/ serving THEN "vouched" ELSE "missed",
                blind |-> blind, sees |-> status, cut |-> FALSE]
  /\ UNCHANGED <<status, contact, serving, created, incident, request>>

\* Mutant: an alarm is withdrawn only when the status changes.
MarkAgentDown_OnlyOnce ==
  /\ worker.at = "vouched"
  /\ status' = "AGENT_DOWN"
  /\ worker' = IF worker.sees = "AGENT_DOWN" THEN WorkerIdle
               ELSE [worker EXCEPT !.at = "vouchedFor"]
  /\ UNCHANGED <<contact, serving, created, incident, request>>

\* Also in a blind cycle. A status loaded as AGENT_DOWN is not written again.
MarkAgentDown ==
  /\ worker.at = "vouched"
  /\ status' = IF worker.sees = "AGENT_DOWN" THEN status ELSE "AGENT_DOWN"
  /\ worker' = [worker EXCEPT !.at = "vouchedFor"]
  /\ UNCHANGED <<contact, serving, created, incident, request>>

\* What is open was a false alarm: closed, and nobody is told.
WithdrawAlarm ==
  /\ worker.at = "vouchedFor"
  /\ CloseActive
  /\ worker' = WorkerIdle
  /\ UNCHANGED <<status, contact, serving, created, request>>

\* Already known: nothing happens, in this cycle or a later one.
StillMissing ==
  /\ worker.at = "missed"
  /\ worker.sees \in {"DOWN", "AGENT_DOWN"}
  /\ worker' = WorkerIdle
  /\ UNCHANGED <<status, contact, serving, created, incident, request>>

\* A blind cycle leaves it at the status.
MarkDown ==
  /\ worker.at = "missed"
  /\ worker.sees \notin {"DOWN", "AGENT_DOWN"}
  /\ status' = "DOWN"
  /\ worker' = IF worker.blind THEN WorkerIdle ELSE [worker EXCEPT !.at = "marked"]
  /\ UNCHANGED <<contact, serving, created, incident, request>>

\* Mutant: the status is trusted to prevent duplicates.
OpenIncident_Unguarded ==
  /\ worker.at = "marked"
  /\ created < MaxIncidents
  /\ created' = created + 1
  /\ incident' = [incident EXCEPT ![created + 1] = [open |-> TRUE, reopened |-> FALSE]]
  /\ worker' = WorkerIdle
  /\ UNCHANGED <<status, contact, serving, request>>

\* Mutant: the look for an existing incident forgets the status filter.
OpenIncident_AnyExisting ==
  /\ worker.at = "marked"
  /\ \/ created > 0 /\ UNCHANGED <<created, incident>>
     \/ /\ created = 0
        /\ created' = created + 1
        /\ incident' = [incident EXCEPT ![created + 1] = [open |-> TRUE, reopened |-> FALSE]]
  /\ worker' = WorkerIdle
  /\ UNCHANGED <<status, contact, serving, request>>

\* open_incident; an incident still open is kept.
OpenIncident ==
  /\ worker.at = "marked"
  /\ \/ OpenIncidents # {} /\ UNCHANGED <<created, incident>>
     \/ /\ OpenIncidents = {}
        /\ created < MaxIncidents
        /\ created' = created + 1
        /\ incident' = [incident EXCEPT ![created + 1] = [open |-> TRUE, reopened |-> FALSE]]
  /\ worker' = WorkerIdle
  /\ UNCHANGED <<status, contact, serving, request>>

\* The cycle's except clause, or a crash of the worker; a request that fails.
AbandonScan ==
  /\ worker.at # "idle"
  /\ worker' = [WorkerIdle EXCEPT !.cut = TRUE]
  /\ UNCHANGED <<status, contact, serving, created, incident, request>>

AbandonRequest ==
  /\ request.at # "idle"
  /\ request' = RequestIdle
  /\ UNCHANGED <<status, contact, serving, created, incident, worker>>

-----------------------------------------------------------------------------
(* Users, the clock and the applications on the host.                      *)

ResolveManually(i) ==
  /\ i \in OpenIncidents
  /\ incident' = [incident EXCEPT ![i].open = FALSE]
  /\ UNCHANGED <<status, contact, serving, created, worker, request>>

Reopen(i) ==
  /\ i <= created
  /\ ~incident[i].open
  /\ incident' = [incident EXCEPT ![i].open = TRUE, ![i].reopened = TRUE]
  /\ UNCHANGED <<status, contact, serving, created, worker, request>>

HeartbeatBecomesOverdue ==
  /\ contact = "RECENT"
  /\ contact' = "OVERDUE"
  /\ UNCHANGED <<status, serving, created, incident, worker, request>>

ServingChanges ==
  /\ serving' = ~serving
  /\ UNCHANGED <<status, contact, created, incident, worker, request>>

-----------------------------------------------------------------------------
Init ==
  /\ status = "UNKNOWN"
  /\ contact = "NEVER"
  /\ serving = FALSE
  /\ created = 0
  /\ incident = [i \in Ids |-> NoRow]
  /\ worker = WorkerIdle
  /\ request = RequestIdle

Scan ==
  \/ MarkAgentDown \/ WithdrawAlarm \/ StillMissing \/ MarkDown \/ OpenIncident

Next ==
  \/ HeartbeatArrives \/ HeartbeatStored \/ HeartbeatEnds \/ AbandonRequest
  \/ \E blind \in BOOLEAN : ScanFindsMissed(blind)
  \/ Scan \/ AbandonScan
  \/ \E i \in Ids : ResolveManually(i) \/ Reopen(i)
  \/ HeartbeatBecomesOverdue \/ ServingChanges

Spec == Init /\ [][Next]_vars

\* Every cycle scans, and cycles that can see come again and again; a scan may
\* fail at any of its commits, but not every time. Agents owe nothing.
FairSpec ==
  /\ Spec
  /\ SF_vars(ScanFindsMissed(FALSE)) /\ WF_vars(Scan)
  /\ SF_vars(MarkAgentDown) /\ SF_vars(WithdrawAlarm)
  /\ SF_vars(MarkDown) /\ SF_vars(OpenIncident)
  /\ WF_vars(HeartbeatEnds)

-----------------------------------------------------------------------------
(* Properties.                                                             *)

\* However scans and heartbeats overlap, the worker opens no second incident:
\* when two are open, a user reopened the older. (incident_service 56-80,
\* server_service 640-661)
OneOpenUnlessReopened ==
  \A i, j \in OpenIncidents : i < j => incident[i].reopened

\* Once applications keep answering on a silent host, every open incident is
\* withdrawn, also one whose withdrawal failed when the status was written,
\* and one reopened while the status already was AGENT_DOWN.
\* (server_service 539-571, 634-638)
FalseAlarmWithdrawn ==
  /\ <>[](contact = "OVERDUE" /\ (serving \/ ThisMachine))
  /\ <>[][~\E i \in Ids : Reopen(i)]_vars
  => <>[](OpenIncidents = {})

\* While heartbeats keep coming the status settles at UP, whatever a scan
\* that began before them writes. (server_service 150-228, 539-661)
StatusRecovers ==
  <>[](contact = "RECENT") /\ []<>(request.at = "stored") => <>[](status = "UP")

\* Each new silence of a server that was UP is noticed, whatever happened
\* before: an incident is open or a heartbeat comes, unless a scan was blind
\* or cut short or applications answer. (server_service 595-661)
NewOutageNoticed ==
  (status = "UP" /\ contact = "OVERDUE" /\ worker.at = "idle")
    ~> \/ OpenIncidents # {} \/ contact = "RECENT"
       \/ worker.blind \/ worker.cut \/ serving \/ ThisMachine
       \/ created = MaxIncidents
=============================================================================
