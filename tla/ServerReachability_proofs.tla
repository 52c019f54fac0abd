---------------------- MODULE ServerReachability_proofs ----------------------
(***************************************************************************)
(* What the run of ServerReachability checks of two incident rows, for a   *)
(* table of any size, on the machine the platform runs on or another:      *)
(* however scans, heartbeats and users overlap, the worker opens no second *)
(* incident of a server beside one that nobody reopened.                   *)
(***************************************************************************)
EXTENDS ServerReachability, TLAPS

-----------------------------------------------------------------------------
(* Type correctness.                                                       *)

\* A row in use is an incident, and one beyond them is not.
LEMMA RowsAreIncidents ==
  ASSUME TypeOK
  PROVE  \A i \in 1 .. created : i \in Ids /\ incident[i] \in Incident
BY BoundAssumption DEF TypeOK, Ids

\* Rewriting an existing row keeps the table well formed.
LEMMA RowChangeTyped ==
  ASSUME TypeOK, NEW i \in 1 .. created, NEW row \in Incident,
         incident' = [incident EXCEPT ![i] = row], created' = created
  PROVE  /\ created' \in 0 .. MaxIncidents
         /\ incident' \in [Ids -> Incident \cup {NoRow}]
         /\ \A j \in Ids : j <= created' <=> incident'[j] # NoRow
<1>1. i \in Ids
  BY BoundAssumption DEF TypeOK, Ids
<1>2. row # NoRow
  BY DEF Incident, NoRow
<1>. QED
  BY <1>1, <1>2 DEF TypeOK

\* Closing changes a row that exists.
LEMMA CloseTyped ==
  ASSUME TypeOK, CloseActive, created' = created
  PROVE  /\ created' \in 0 .. MaxIncidents
         /\ incident' \in [Ids -> Incident \cup {NoRow}]
         /\ \A j \in Ids : j <= created' <=> incident'[j] # NoRow
<1>1. CASE UNCHANGED incident
  BY <1>1 DEF TypeOK
<1>2. ASSUME NEW i \in OpenIncidents, incident' = [incident EXCEPT ![i].open = FALSE]
      PROVE  /\ created' \in 0 .. MaxIncidents
             /\ incident' \in [Ids -> Incident \cup {NoRow}]
             /\ \A j \in Ids : j <= created' <=> incident'[j] # NoRow
  <2>. DEFINE row == [incident[i] EXCEPT !.open = FALSE]
  <2>1. i \in 1 .. created /\ row \in Incident
    BY RowsAreIncidents DEF OpenIncidents, Incident
  <2>2. incident' = [incident EXCEPT ![i] = row]
    BY <1>2
  <2>. HIDE DEF row
  <2>. QED
    BY <2>1, <2>2, RowChangeTyped
<1>. QED
  BY <1>1, <1>2 DEF CloseActive

\* So does a user.
LEMMA ByHandTyped ==
  ASSUME TypeOK, NEW i \in Ids, ResolveManually(i) \/ Reopen(i)
  PROVE  TypeOK'
<1>. DEFINE closed == [incident[i] EXCEPT !.open = FALSE]
            again == [incident[i] EXCEPT !.open = TRUE, !.reopened = TRUE]
<1>1. i \in 1 .. created /\ UNCHANGED <<status, contact, serving, created, worker, request>>
  BY DEF ResolveManually, Reopen, OpenIncidents, Ids
<1>2. closed \in Incident /\ again \in Incident
  BY <1>1, RowsAreIncidents DEF Incident
<1>3. \/ incident' = [incident EXCEPT ![i] = closed]
      \/ incident' = [incident EXCEPT ![i] = again]
  BY DEF ResolveManually, Reopen
<1>. HIDE DEF closed, again
<1>4. /\ created' \in 0 .. MaxIncidents
      /\ incident' \in [Ids -> Incident \cup {NoRow}]
      /\ \A j \in Ids : j <= created' <=> incident'[j] # NoRow
  BY <1>1, <1>2, <1>3, RowChangeTyped
<1>. QED
  BY <1>1, <1>4 DEF TypeOK

\* Opening adds the next row.
LEMMA OpenTyped == ASSUME TypeOK, OpenIncident PROVE TypeOK'
<1>1. worker' = WorkerIdle /\ UNCHANGED <<status, contact, serving, request>>
  BY DEF OpenIncident
<1>2. /\ created' \in 0 .. MaxIncidents
      /\ incident' \in [Ids -> Incident \cup {NoRow}]
      /\ \A j \in Ids : j <= created' <=> incident'[j] # NoRow
  <2>1. CASE UNCHANGED <<created, incident>>
    BY <2>1 DEF TypeOK
  <2>. DEFINE row == [open |-> TRUE, reopened |-> FALSE]
  <2>2. CASE /\ created < MaxIncidents /\ created' = created + 1
             /\ incident' = [incident EXCEPT ![created + 1] = row]
    <3>1. row \in Incident /\ row # NoRow
      BY DEF Incident, NoRow
    <3>2. created + 1 \in Ids /\ created' \in 0 .. MaxIncidents
      BY <2>2, BoundAssumption DEF TypeOK, Ids
    <3>3. incident' \in [Ids -> Incident \cup {NoRow}]
      BY <2>2, <3>1, <3>2 DEF TypeOK
    <3>4. ASSUME NEW j \in Ids PROVE j <= created' <=> incident'[j] # NoRow
      BY <2>2, <3>1, <3>2, <3>4 DEF TypeOK, Ids
    <3>. QED
      BY <3>2, <3>3, <3>4
  <2>. QED
    BY <2>1, <2>2 DEF OpenIncident
<1>. QED
  BY <1>1, <1>2 DEF TypeOK, WorkerIdle, Statuses

\* In every step.
LEMMA NextTyped == TypeOK /\ [Next]_vars => TypeOK'
<1>. SUFFICES ASSUME TypeOK, [Next]_vars PROVE TypeOK'
  OBVIOUS
<1>. USE DEF Statuses, WorkerIdle, RequestIdle
<1>1. CASE HeartbeatArrives \/ HeartbeatStored \/ AbandonRequest
  BY <1>1 DEF HeartbeatArrives, HeartbeatStored, AbandonRequest, TypeOK
<1>2. CASE HeartbeatEnds
  <2>1. request' = RequestIdle /\ UNCHANGED <<status, contact, serving, created, worker>>
    BY <1>2 DEF HeartbeatEnds
  <2>2. CASE CloseActive
    BY <2>1, <2>2, CloseTyped DEF TypeOK
  <2>3. CASE UNCHANGED incident
    BY <2>1, <2>3 DEF TypeOK
  <2>. QED
    BY <1>2, <2>2, <2>3 DEF HeartbeatEnds
<1>3. ASSUME NEW blind \in BOOLEAN, ScanFindsMissed(blind) PROVE TypeOK'
  BY <1>3 DEF ScanFindsMissed, TypeOK
<1>4. CASE MarkAgentDown \/ StillMissing \/ MarkDown \/ AbandonScan
  <2>1. CASE MarkAgentDown
    BY <2>1 DEF MarkAgentDown, TypeOK
  <2>2. CASE StillMissing
    BY <2>2 DEF StillMissing, TypeOK
  <2>3. CASE MarkDown
    BY <2>3 DEF MarkDown, TypeOK
  <2>4. CASE AbandonScan
    BY <2>4 DEF AbandonScan, TypeOK
  <2>. QED
    BY <1>4, <2>1, <2>2, <2>3, <2>4
<1>5. CASE WithdrawAlarm
  <2>1. worker' = WorkerIdle /\ UNCHANGED <<status, contact, serving, created, request>>
    BY <1>5 DEF WithdrawAlarm
  <2>. QED
    BY <1>5, <2>1, CloseTyped DEF WithdrawAlarm, TypeOK
<1>6. CASE OpenIncident
  BY <1>6, OpenTyped
<1>7. ASSUME NEW i \in Ids, ResolveManually(i) \/ Reopen(i) PROVE TypeOK'
  BY <1>7, ByHandTyped
<1>8. CASE HeartbeatBecomesOverdue \/ ServingChanges
  BY <1>8 DEF HeartbeatBecomesOverdue, ServingChanges, TypeOK
<1>9. CASE UNCHANGED vars
  BY <1>9 DEF vars, TypeOK
<1>. QED
  BY <1>1, <1>2, <1>3, <1>4, <1>5, <1>6, <1>7, <1>8, <1>9 DEF Next, Scan

\* At the beginning.
LEMMA InitTyped == Init => TypeOK
<1>. SUFFICES ASSUME Init PROVE TypeOK
  OBVIOUS
<1>1. \A i \in Ids : i <= created <=> incident[i] # NoRow
  BY BoundAssumption DEF Init, Ids
<1>2. created \in 0 .. MaxIncidents /\ incident \in [Ids -> Incident \cup {NoRow}]
  BY BoundAssumption DEF Init
<1>3. /\ worker \in [at : {"idle", "vouched", "vouchedFor", "missed", "marked"},
                     blind : BOOLEAN, sees : Statuses, cut : BOOLEAN]
      /\ request \in [at : {"idle", "loaded", "stored"}, sees : Statuses]
  BY DEF Init, WorkerIdle, RequestIdle, Statuses
<1>. QED
  BY <1>1, <1>2, <1>3 DEF Init, TypeOK, Statuses

\* Every variable keeps its type; in particular the table is filled without
\* gaps and a row is never lost. (server_service 150-228, 539-661)
THEOREM TypeCorrect == Spec => []TypeOK
BY InitTyped, NextTyped, PTL DEF Spec

-----------------------------------------------------------------------------
(* The outage record.                                                      *)

\* An open incident that is not the newest was reopened. The property itself
\* is not inductive: it says nothing of an older open incident whose newer
\* sibling is closed, and may be reopened next.
OlderOpenReopened ==
  \A i, j \in 1 .. created : i < j /\ incident[i].open => incident[i].reopened

\* Closing rows, and reopening one, keep it.
LEMMA ChangeKeepsOlder ==
  ASSUME TypeOK, OlderOpenReopened, created' = created,
         \A j \in 1 .. created :
           \/ incident'[j] = incident[j]
           \/ ~incident'[j].open
           \/ incident'[j].reopened
  PROVE  OlderOpenReopened'
BY DEF OlderOpenReopened

\* Closing the newest open row.
LEMMA CloseKeepsOlder ==
  ASSUME TypeOK, OlderOpenReopened, CloseActive, created' = created
  PROVE  OlderOpenReopened'
<1>1. CASE UNCHANGED incident
  BY <1>1, ChangeKeepsOlder
<1>2. ASSUME NEW i \in OpenIncidents, incident' = [incident EXCEPT ![i].open = FALSE]
      PROVE  OlderOpenReopened'
  <2>1. \A j \in 1 .. created : incident'[j] = incident[j] \/ ~incident'[j].open
    BY <1>2, RowsAreIncidents DEF OpenIncidents, Incident, TypeOK
  <2>. QED
    BY <2>1, ChangeKeepsOlder
<1>. QED
  BY <1>1, <1>2 DEF CloseActive

\* The row that is added is the newest, and none was open before it.
LEMMA OpenKeepsOlder ==
  ASSUME TypeOK, OlderOpenReopened, OpenIncident
  PROVE  OlderOpenReopened'
<1>1. CASE UNCHANGED <<created, incident>>
  BY <1>1, ChangeKeepsOlder
<1>2. CASE /\ OpenIncidents = {} /\ created' = created + 1 /\ created < MaxIncidents
           /\ incident' = [incident EXCEPT ![created + 1] = [open |-> TRUE, reopened |-> FALSE]]
  <2>1. \A i \in 1 .. created : ~incident'[i].open
    BY <1>2, RowsAreIncidents DEF OpenIncidents, TypeOK
  <2>2. \A i, j \in 1 .. created' : i < j => i \in 1 .. created
    BY <1>2 DEF TypeOK
  <2>. QED
    BY <2>1, <2>2 DEF OlderOpenReopened
<1>. QED
  BY <1>1, <1>2 DEF OpenIncident

\* A user closes a row, or marks the one reopened.
LEMMA ByHandKeepsOlder ==
  ASSUME TypeOK, OlderOpenReopened, NEW i \in Ids, ResolveManually(i) \/ Reopen(i)
  PROVE  OlderOpenReopened'
<1>1. created' = created /\ i \in 1 .. created
  BY DEF ResolveManually, Reopen, OpenIncidents, Ids
<1>2. \A j \in 1 .. created :
        incident'[j] = incident[j] \/ ~incident'[j].open \/ incident'[j].reopened
  BY <1>1, RowsAreIncidents DEF ResolveManually, Reopen, Incident, TypeOK
<1>. QED
  BY <1>1, <1>2, ChangeKeepsOlder

\* In every step.
LEMMA NextKeepsOlder == TypeOK /\ OlderOpenReopened /\ [Next]_vars => OlderOpenReopened'
<1>. SUFFICES ASSUME TypeOK, OlderOpenReopened, [Next]_vars PROVE OlderOpenReopened'
  OBVIOUS
<1>1. CASE UNCHANGED <<created, incident>>
  BY <1>1, ChangeKeepsOlder
<1>2. CASE HeartbeatArrives \/ HeartbeatStored \/ AbandonRequest \/ AbandonScan
  BY <1>1, <1>2 DEF HeartbeatArrives, HeartbeatStored, AbandonRequest, AbandonScan
<1>3. CASE HeartbeatEnds
  BY <1>1, <1>3, CloseKeepsOlder DEF HeartbeatEnds
<1>4. ASSUME NEW blind \in BOOLEAN, ScanFindsMissed(blind) PROVE OlderOpenReopened'
  BY <1>1, <1>4 DEF ScanFindsMissed
<1>5. CASE MarkAgentDown \/ StillMissing \/ MarkDown
  BY <1>1, <1>5 DEF MarkAgentDown, StillMissing, MarkDown
<1>6. CASE WithdrawAlarm
  BY <1>6, CloseKeepsOlder DEF WithdrawAlarm
<1>7. CASE OpenIncident
  BY <1>7, OpenKeepsOlder
<1>8. ASSUME NEW i \in Ids, ResolveManually(i) \/ Reopen(i) PROVE OlderOpenReopened'
  BY <1>8, ByHandKeepsOlder
<1>9. CASE HeartbeatBecomesOverdue \/ ServingChanges \/ UNCHANGED vars
  BY <1>1, <1>9 DEF HeartbeatBecomesOverdue, ServingChanges, vars
<1>. QED
  BY <1>2, <1>3, <1>4, <1>5, <1>6, <1>7, <1>8, <1>9 DEF Next, Scan

\* The inductive invariant.
LEMMA Inductive == Spec => [](TypeOK /\ OlderOpenReopened)
<1>1. Init => TypeOK /\ OlderOpenReopened
  BY InitTyped DEF Init, OlderOpenReopened
<1>2. TypeOK /\ OlderOpenReopened /\ [Next]_vars => (TypeOK /\ OlderOpenReopened)'
  BY NextTyped, NextKeepsOlder
<1>. QED
  BY <1>1, <1>2, PTL DEF Spec

\* Two incidents of a server are open together only after a user reopened the
\* older: a scan that loaded the status before a heartbeat, was cut short or
\* was blind opens no duplicate. (incident_service 56-80, server_service
\* 640-661)
THEOREM DuplicatesOnlyByReopening == Spec => []OneOpenUnlessReopened
<1>1. TypeOK /\ OlderOpenReopened => OneOpenUnlessReopened
  BY DEF OlderOpenReopened, OneOpenUnlessReopened, OpenIncidents
<1>. QED
  BY <1>1, Inductive, PTL
=============================================================================
