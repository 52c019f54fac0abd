---------------------- MODULE IncidentLifecycle_proofs ----------------------
(***************************************************************************)
(* What IncidentLifecycle guarantees for every set of applications and     *)
(* servers, every dependency graph, every number of required failures and  *)
(* every size of the incidents table.                                      *)
(***************************************************************************)
EXTENDS IncidentLifecycle, TLAPS

-----------------------------------------------------------------------------
(* The inductive invariant.                                                *)

\* An open incident that is not the application's newest was reopened.
\* DuplicateOnlyByReopen is not inductive: it says nothing of an older open
\* incident whose newer sibling is resolved and about to be reopened.
OlderOpenReopened ==
  \A i, j \in 1 .. created :
    i < j /\ incident[i].app = incident[j].app /\ incident[i].state = "OPEN"
      => incident[i].reopened

\* A newest incident that no user closed was closed by a success, and the
\* application has not started another outage since.
ClosedByRecovery ==
  \A a \in Apps : \A i \in 1 .. created :
    Newest(i, a) /\ incident[i].state = "RESOLVED" /\ ~incident[i].byHand => okSince[a]

\* A heeded success left no failures behind.
SuccessClearsStreak ==
  \A a \in Apps : heeded[a] /\ lastCheck[a] \in Successes => streak[a] = 0

Sound ==
  /\ OlderOpenReopened
  /\ RecoveredMeansClosed
  /\ ClosedByRecovery
  /\ SuccessClearsStreak

-----------------------------------------------------------------------------
(* Type correctness.                                                       *)

LEMMA StreakBounded ==
  ASSUME TypeOK, NEW a \in Apps, NEW r \in Outcomes
  PROVE  NextStreak(a, r) \in 0 .. Required
<1>1. streak[a] \in 0 .. Required /\ Required \in Nat \ {0}
  BY RequiredAssumption DEF TypeOK
<1>2. CASE r = "DOWN"
  BY <1>1, <1>2 DEF NextStreak, Successes
<1>3. CASE r = "UNKNOWN"
  BY <1>1, <1>3 DEF NextStreak, Successes
<1>4. CASE r \in Successes
  BY <1>1, <1>4 DEF NextStreak, Successes
<1>. QED
  BY <1>2, <1>3, <1>4 DEF Outcomes, Successes

\* What a check writes before it judges keeps its type.
LEMMA RecordTyped ==
  ASSUME TypeOK, NEW a \in Apps, NEW r \in Outcomes, NEW shown \in Outcomes,
         NEW heed \in BOOLEAN, Record(a, r, shown, heed)
  PROVE  /\ lastCheck' \in [Apps -> Outcomes \cup {"NONE"}]
         /\ heeded' \in [Apps -> BOOLEAN]
         /\ status' \in [Apps -> Outcomes \cup {"DISABLED"}]
         /\ UNCHANGED <<registered, windows, contact>>
BY DEF TypeOK, Record

\* Rewriting the state of an existing row keeps the table well formed.
LEMMA RowChangeTyped ==
  ASSUME TypeOK, NEW i \in 1 .. created, NEW row \in Incident,
         incident' = [incident EXCEPT ![i] = row], created' = created
  PROVE  /\ created' \in 0 .. MaxIncidents
         /\ incident' \in [Ids -> Incident \cup {NoRow}]
         /\ \A j \in Ids : j <= created' <=> incident'[j] # NoRow
<1>1. i \in Ids
  BY BoundAssumption DEF TypeOK, Ids
<1>2. row # NoRow
  BY DEF Incident, NoRow
<1>. QED
  BY <1>1, <1>2 DEF TypeOK

\* A row in use is an incident.
LEMMA RowsAreIncidents ==
  ASSUME TypeOK
  PROVE  \A i \in 1 .. created : i \in Ids /\ incident[i] \in Incident
BY BoundAssumption DEF TypeOK, Ids

LEMMA CheckTyped ==
  ASSUME TypeOK, NEW a \in Apps, Check(a)
  PROVE  TypeOK'
<1>. PICK r \in Outcomes :
       \/ CheckInMaintenance(a, r)
       \/ CheckPathLost(a)
       \/ CheckStillFailing(a)
       \/ CheckOpensIncident(a)
       \/ r \in Successes /\ CheckSucceeds(a, r)
       \/ CheckUnrunnable(a)
  BY ResultsAssumption DEF Check, Outcomes
<1>. DEFINE S(x) == streak' = [streak EXCEPT ![a] = NextStreak(a, x)]
<1>1. ASSUME NEW x \in Outcomes, S(x) PROVE streak' \in [Apps -> 0 .. Required]
  BY <1>1, StreakBounded DEF TypeOK
<1>2. "DOWN" \in Outcomes /\ "UNKNOWN" \in Outcomes /\ "DOWN" \notin Successes
  BY DEF Outcomes, Successes
<1>3. ASSUME NEW x, Succeeded(a, x) PROVE okSince' \in [Apps -> BOOLEAN]
  BY <1>3 DEF Succeeded, TypeOK
<1>4. CASE CheckInMaintenance(a, r)
  BY <1>4, <1>3, RecordTyped DEF CheckInMaintenance, TypeOK
<1>5. CASE CheckPathLost(a)
  BY <1>5, <1>1, <1>2, RecordTyped DEF CheckPathLost, TypeOK
<1>6. CASE CheckStillFailing(a)
  BY <1>6, <1>1, <1>2, RecordTyped DEF CheckStillFailing, TypeOK
<1>7. CASE CheckUnrunnable(a)
  BY <1>7, <1>1, <1>2, RecordTyped DEF CheckUnrunnable, TypeOK
<1>8. CASE CheckOpensIncident(a)
  <2>. DEFINE row == [app |-> a, state |-> "OPEN", reopened |-> FALSE, byHand |-> FALSE]
  <2>1. /\ streak' \in [Apps -> 0 .. Required]
        /\ okSince' \in [Apps -> BOOLEAN]
    BY <1>8, <1>1, <1>2 DEF CheckOpensIncident, TypeOK
  <2>2. row \in Incident /\ row # NoRow
    BY DEF Incident, NoRow
  <2>3. /\ created + 1 \in Ids
        /\ created' \in 0 .. MaxIncidents
    BY <1>8, BoundAssumption DEF CheckOpensIncident, TypeOK, Ids
  <2>4. incident' = [incident EXCEPT ![created + 1] = row] /\ created' = created + 1
    BY <1>8 DEF CheckOpensIncident
  <2>5. incident' \in [Ids -> Incident \cup {NoRow}]
    BY <2>2, <2>3, <2>4 DEF TypeOK
  <2>6. ASSUME NEW j \in Ids PROVE j <= created' <=> incident'[j] # NoRow
    BY <2>2, <2>3, <2>4, <2>6 DEF TypeOK, Ids
  <2>7. /\ Record(a, "DOWN", "DOWN", TRUE)
    BY <1>8 DEF CheckOpensIncident
  <2>. QED
    BY <2>1, <2>3, <2>5, <2>6, <2>7, <1>2, RecordTyped DEF TypeOK
<1>9. CASE r \in Successes /\ CheckSucceeds(a, r)
  <2>1. /\ streak' \in [Apps -> 0 .. Required]
        /\ okSince' \in [Apps -> BOOLEAN]
        /\ created' = created
        /\ Record(a, r, r, TRUE)
    BY <1>9, <1>1, <1>3 DEF CheckSucceeds
  <2>2. /\ incident' \in [Ids -> Incident \cup {NoRow}]
        /\ \A j \in Ids : j <= created' <=> incident'[j] # NoRow
    <3>1. CASE UNCHANGED incident
      BY <3>1, <2>1 DEF TypeOK
    <3>2. ASSUME NEW i \in IncidentsOf(a),
                 incident' = [incident EXCEPT ![i].state = "RESOLVED"]
          PROVE  /\ incident' \in [Ids -> Incident \cup {NoRow}]
                 /\ \A j \in Ids : j <= created' <=> incident'[j] # NoRow
      <4>. DEFINE row == [incident[i] EXCEPT !.state = "RESOLVED"]
      <4>1. i \in 1 .. created /\ row \in Incident
        BY <3>2, RowsAreIncidents DEF IncidentsOf, Incident
      <4>2. incident' = [incident EXCEPT ![i] = row]
        BY <3>2
      <4>. HIDE DEF row
      <4>. QED
        BY <4>1, <4>2, <2>1, RowChangeTyped
    <3>. QED
      BY <1>9, <3>1, <3>2 DEF CheckSucceeds
  <2>. QED
    BY <2>1, <2>2, RecordTyped DEF TypeOK
<1>. QED
  BY <1>4, <1>5, <1>6, <1>7, <1>8, <1>9

LEMMA ByHandTyped ==
  ASSUME TypeOK, NEW i \in Ids, ResolveManually(i) \/ Reopen(i)
  PROVE  TypeOK'
<1>. DEFINE closed == [incident[i] EXCEPT !.state = "RESOLVED", !.byHand = TRUE]
            again == [incident[i] EXCEPT !.state = "OPEN", !.reopened = TRUE, !.byHand = FALSE]
<1>1. i \in 1 .. created /\ created' = created
  BY DEF ResolveManually, Reopen, Ids
<1>2. closed \in Incident /\ again \in Incident
  BY <1>1, RowsAreIncidents DEF Incident
<1>3. \/ incident' = [incident EXCEPT ![i] = closed]
      \/ incident' = [incident EXCEPT ![i] = again]
  BY DEF ResolveManually, Reopen
<1>4. UNCHANGED <<appVars, windows, contact>>
  BY DEF ResolveManually, Reopen
<1>. HIDE DEF closed, again
<1>5. /\ created' \in 0 .. MaxIncidents
      /\ incident' \in [Ids -> Incident \cup {NoRow}]
      /\ \A j \in Ids : j <= created' <=> incident'[j] # NoRow
  BY <1>1, <1>2, <1>3, RowChangeTyped
<1>. QED
  BY <1>4, <1>5 DEF TypeOK, appVars

LEMMA NextTyped == TypeOK /\ [Next]_vars => TypeOK'
<1>. SUFFICES ASSUME TypeOK, [Next]_vars PROVE TypeOK'
  OBVIOUS
<1>1. ASSUME NEW a \in Apps, WorkerCheck(a) \/ ManualCheck(a) PROVE TypeOK'
  BY <1>1, CheckTyped DEF WorkerCheck, ManualCheck
<1>2. ASSUME NEW a \in Apps, NEW r \in Results, BlindCheck(a, r) PROVE TypeOK'
  BY <1>2, ResultsAssumption DEF BlindCheck, Record, TypeOK, Outcomes
<1>3. ASSUME NEW a \in Apps, NEW enabled \in BOOLEAN,
             SetMonitoringEnabled(a, enabled) \/ UpdateApplication(a, enabled)
      PROVE  TypeOK'
  BY <1>3 DEF SetMonitoringEnabled, UpdateApplication, TypeOK, Outcomes
<1>4. ASSUME NEW a \in Apps, SoftDelete(a) PROVE TypeOK'
  BY <1>4 DEF SoftDelete, TypeOK
<1>5. ASSUME NEW i \in Ids, ResolveManually(i) \/ Reopen(i) PROVE TypeOK'
  BY <1>5, ByHandTyped
<1>6. ASSUME NEW w \in Scopes, WindowStarts(w) \/ WindowEnds(w) PROVE TypeOK'
  BY <1>6 DEF WindowStarts, WindowEnds, appVars, TypeOK
<1>7. ASSUME NEW s \in Servers, HeartbeatHeard(s) \/ HeartbeatGoesStale(s) PROVE TypeOK'
  BY <1>7 DEF HeartbeatHeard, HeartbeatGoesStale, appVars, TypeOK
<1>8. CASE UNCHANGED vars
  BY <1>8 DEF vars, TypeOK
<1>. QED
  BY <1>1, <1>2, <1>3, <1>4, <1>5, <1>6, <1>7, <1>8 DEF Next

LEMMA InitTyped == Init => TypeOK
BY RequiredAssumption, BoundAssumption DEF Init, TypeOK, Ids, Outcomes

\* Every variable keeps its type; in particular the table is filled without
\* gaps and a row is never lost.
THEOREM TypeCorrect == Spec => []TypeOK
BY InitTyped, NextTyped, PTL DEF Spec

-----------------------------------------------------------------------------
(* The outage record.                                                      *)

\* A step that leaves the table alone and reports no new heeded success.
LEMMA QuietStep ==
  ASSUME Sound,
         UNCHANGED <<created, incident>>,
         \A a \in Apps : okSince[a] => okSince'[a],
         \A a \in Apps : heeded'[a] /\ lastCheck'[a] \in Successes =>
           heeded[a] /\ lastCheck[a] \in Successes /\ streak'[a] = streak[a]
  PROVE  Sound'
BY DEF Sound, OlderOpenReopened, RecoveredMeansClosed, ClosedByRecovery,
       SuccessClearsStreak, OpenIncidents, IncidentsOf, Newest

\* What the failing and unrunnable checks write is no success.
LEMMA RecordFailure ==
  ASSUME TypeOK, NEW a \in Apps, NEW r \in {"DOWN", "UNKNOWN"}, NEW shown,
         Record(a, r, shown, TRUE), NEW n, streak' = [streak EXCEPT ![a] = n]
  PROVE  \A b \in Apps : heeded'[b] /\ lastCheck'[b] \in Successes =>
           heeded[b] /\ lastCheck[b] \in Successes /\ streak'[b] = streak[b]
BY DEF Record, TypeOK, Successes

\* A row the check does not heed is no heeded success either.
LEMMA RecordUnheeded ==
  ASSUME TypeOK, NEW a \in Apps, NEW r, NEW shown, Record(a, r, shown, FALSE),
         UNCHANGED streak
  PROVE  \A b \in Apps : heeded'[b] /\ lastCheck'[b] \in Successes =>
           heeded[b] /\ lastCheck[b] \in Successes /\ streak'[b] = streak[b]
BY DEF Record, TypeOK

LEMMA OpeningSound ==
  ASSUME TypeOK, Sound, NEW a \in Apps, CheckOpensIncident(a)
  PROVE  Sound'
<1>. DEFINE new == created + 1
<1>1. /\ created \in Nat /\ created' = new /\ new \in Ids
      /\ \A i \in 1 .. created : i \in Ids /\ i # new
  BY BoundAssumption DEF CheckOpensIncident, TypeOK, Ids
<1>2. /\ \A i \in 1 .. created : incident'[i] = incident[i]
      /\ incident'[new].app = a
      /\ incident'[new].state = "OPEN"
  BY <1>1 DEF CheckOpensIncident, TypeOK
<1>3. \A i \in 1 .. created : incident[i].app = a => incident[i].state # "OPEN"
  BY DEF CheckOpensIncident, NoActive, OpenIncidents, IncidentsOf
<1>4. \A b \in Apps : heeded'[b] /\ lastCheck'[b] \in Successes =>
        b # a /\ heeded[b] /\ lastCheck[b] \in Successes /\ streak'[b] = streak[b]
  BY DEF CheckOpensIncident, Record, TypeOK, Successes
<1>5. \A b \in Apps : b # a => okSince'[b] = okSince[b]
  BY DEF CheckOpensIncident, TypeOK
<1>6. \A i \in 1 .. created' : i = new \/ i \in 1 .. created
  BY <1>1
<1>7. OlderOpenReopened'
  <2>. SUFFICES ASSUME NEW i \in 1 .. created', NEW j \in 1 .. created', i < j,
                       incident'[i].app = incident'[j].app, incident'[i].state = "OPEN"
                PROVE  incident'[i].reopened
    BY DEF OlderOpenReopened
  <2>1. i \in 1 .. created
    BY <1>1, <1>6
  <2>2. CASE j = new
    BY <2>1, <2>2, <1>2, <1>3
  <2>3. CASE j \in 1 .. created
    BY <2>1, <2>3, <1>2 DEF Sound, OlderOpenReopened
  <2>. QED
    BY <2>2, <2>3, <1>6
<1>8. RecoveredMeansClosed'
  <2>. SUFFICES ASSUME NEW b \in Apps, heeded'[b], lastCheck'[b] \in Successes,
                       NEW i \in 1 .. created', incident'[i].app = b,
                       incident'[i].state = "OPEN"
                PROVE  incident'[i].reopened
    BY DEF RecoveredMeansClosed, OpenIncidents, IncidentsOf
  <2>1. b # a /\ heeded[b] /\ lastCheck[b] \in Successes
    BY <1>4
  <2>2. i \in 1 .. created
    BY <2>1, <1>2, <1>6
  <2>. QED
    BY <2>1, <2>2, <1>2 DEF Sound, RecoveredMeansClosed, OpenIncidents, IncidentsOf
<1>9. ClosedByRecovery'
  <2>. SUFFICES ASSUME NEW b \in Apps, NEW i \in 1 .. created', Newest(i, b)',
                       incident'[i].state = "RESOLVED", ~incident'[i].byHand
                PROVE  okSince'[b]
    BY DEF ClosedByRecovery
  <2>1. i \in 1 .. created
    BY <1>2, <1>6
  <2>2. b # a
    <3>. SUFFICES ASSUME b = a PROVE FALSE
      OBVIOUS
    <3>1. new \in 1 .. created' /\ ~(new <= i)
      BY <1>1, <2>1
    <3>. QED
      BY <3>1, <1>2 DEF Newest, IncidentsOf
  <2>3. Newest(i, b)
    BY <2>1, <1>1, <1>2 DEF Newest, IncidentsOf
  <2>. QED
    BY <2>1, <2>2, <2>3, <1>2, <1>5 DEF Sound, ClosedByRecovery
<1>10. SuccessClearsStreak'
  BY <1>4 DEF Sound, SuccessClearsStreak
<1>. QED
  BY <1>7, <1>8, <1>9, <1>10 DEF Sound

LEMMA SuccessSound ==
  ASSUME TypeOK, Sound, NEW a \in Apps, NEW r \in Successes, CheckSucceeds(a, r)
  PROVE  Sound'
<1>1. /\ created' = created
      /\ \A b \in Apps : b # a => /\ okSince'[b] = okSince[b]
                                  /\ heeded'[b] = heeded[b]
                                  /\ lastCheck'[b] = lastCheck[b]
                                  /\ streak'[b] = streak[b]
      /\ okSince'[a]
  BY DEF CheckSucceeds, Record, Succeeded, TypeOK
<1>2. streak'[a] = 0
  BY DEF CheckSucceeds, NextStreak, Successes, TypeOK
<1>3. \A i \in 1 .. created : i \in Ids /\ incident[i] \in Incident
  BY RowsAreIncidents
<1>4. CASE NoActive(a) /\ UNCHANGED incident
  BY <1>1, <1>2, <1>4 DEF Sound, OlderOpenReopened, RecoveredMeansClosed,
     ClosedByRecovery, SuccessClearsStreak, NoActive, OpenIncidents, IncidentsOf, Newest
<1>5. ASSUME NEW i \in IncidentsOf(a), IsActive(i, a),
             incident' = [incident EXCEPT ![i].state = "RESOLVED"]
      PROVE  Sound'
  <2>1. /\ i \in 1 .. created /\ incident[i].app = a
        /\ \A j \in OpenIncidents(a) : j <= i
    BY <1>5 DEF IncidentsOf, IsActive
  <2>2. /\ \A j \in 1 .. created : /\ incident'[j].app = incident[j].app
                                   /\ incident'[j].reopened = incident[j].reopened
                                   /\ incident'[j].byHand = incident[j].byHand
                                   /\ j # i => incident'[j].state = incident[j].state
        /\ incident'[i].state = "RESOLVED"
    BY <1>3, <1>5, <2>1 DEF Incident, TypeOK
  <2>3. OlderOpenReopened'
    BY <1>1, <2>2 DEF Sound, OlderOpenReopened
  <2>4. RecoveredMeansClosed'
    <3>. SUFFICES ASSUME NEW b \in Apps, heeded'[b], lastCheck'[b] \in Successes,
                         NEW j \in 1 .. created, incident'[j].app = b,
                         incident'[j].state = "OPEN"
                  PROVE  incident'[j].reopened
      BY <1>1 DEF RecoveredMeansClosed, OpenIncidents, IncidentsOf
    <3>1. j # i /\ incident[j].app = b /\ incident[j].state = "OPEN"
      BY <2>2
    <3>2. CASE b = a
      <4>1. j < i
        BY <2>1, <3>1, <3>2 DEF OpenIncidents, IncidentsOf
      <4>. QED
        BY <4>1, <3>1, <3>2, <2>1, <2>2 DEF Sound, OlderOpenReopened
    <3>3. CASE b # a
      BY <3>1, <3>3, <1>1, <2>2 DEF Sound, RecoveredMeansClosed, OpenIncidents, IncidentsOf
    <3>. QED
      BY <3>2, <3>3
  <2>5. ClosedByRecovery'
    <3>. SUFFICES ASSUME NEW b \in Apps, NEW j \in 1 .. created, Newest(j, b)',
                         incident'[j].state = "RESOLVED", ~incident'[j].byHand
                  PROVE  okSince'[b]
      BY <1>1 DEF ClosedByRecovery
    <3>1. CASE b = a
      BY <3>1, <1>1
    <3>2. CASE b # a
      <4>1. Newest(j, b) /\ j # i
        BY <3>2, <1>1, <2>1, <2>2 DEF Newest, IncidentsOf
      <4>. QED
        BY <4>1, <3>2, <1>1, <2>2 DEF Sound, ClosedByRecovery
    <3>. QED
      BY <3>1, <3>2
  <2>6. SuccessClearsStreak'
    BY <1>1, <1>2 DEF Sound, SuccessClearsStreak
  <2>. QED
    BY <2>3, <2>4, <2>5, <2>6 DEF Sound
<1>. QED
  BY <1>4, <1>5 DEF CheckSucceeds

LEMMA ByHandSound ==
  ASSUME TypeOK, Sound, NEW i \in Ids, ResolveManually(i) \/ Reopen(i)
  PROVE  Sound'
<1>1. i \in 1 .. created /\ UNCHANGED <<created, okSince, heeded, lastCheck, streak>>
  BY DEF ResolveManually, Reopen, Ids, appVars
<1>2. \A j \in 1 .. created : j \in Ids /\ incident[j] \in Incident
  BY RowsAreIncidents
<1>3. \A j \in 1 .. created : incident'[j].app = incident[j].app
  BY <1>2 DEF ResolveManually, Reopen, Incident, TypeOK
<1>4. \A j \in 1 .. created : j # i => incident'[j] = incident[j]
  BY <1>2 DEF ResolveManually, Reopen, TypeOK
<1>5. \/ /\ incident'[i].state = "RESOLVED"
         /\ incident'[i].byHand
      \/ /\ incident'[i].state = "OPEN"
         /\ incident'[i].reopened
  BY <1>1, <1>2 DEF ResolveManually, Reopen, Incident, TypeOK
<1>6. \A j \in 1 .. created, b \in Apps : Newest(j, b)' => Newest(j, b)
  BY <1>1, <1>3 DEF Newest, IncidentsOf
<1>7. OlderOpenReopened'
  BY <1>1, <1>3, <1>4, <1>5 DEF Sound, OlderOpenReopened
<1>8. RecoveredMeansClosed'
  BY <1>1, <1>3, <1>4, <1>5 DEF Sound, RecoveredMeansClosed, OpenIncidents, IncidentsOf
<1>9. ClosedByRecovery'
  BY <1>1, <1>4, <1>5, <1>6 DEF Sound, ClosedByRecovery
<1>10. SuccessClearsStreak'
  BY <1>1 DEF Sound, SuccessClearsStreak
<1>. QED
  BY <1>7, <1>8, <1>9, <1>10 DEF Sound

LEMMA CheckSound ==
  ASSUME TypeOK, Sound, NEW a \in Apps, Check(a)
  PROVE  Sound'
<1>. PICK r \in Results :
       \/ CheckInMaintenance(a, r)
       \/ CheckPathLost(a)
       \/ CheckStillFailing(a)
       \/ CheckOpensIncident(a)
       \/ r \in Successes /\ CheckSucceeds(a, r)
       \/ CheckUnrunnable(a)
  BY DEF Check
<1>1. CASE CheckInMaintenance(a, r)
  <2>1. Record(a, r, r, FALSE) /\ UNCHANGED <<streak, created, incident>>
    BY <1>1 DEF CheckInMaintenance
  <2>2. \A b \in Apps : okSince[b] => okSince'[b]
    BY <1>1 DEF CheckInMaintenance, Succeeded, TypeOK
  <2>. QED
    BY <2>1, <2>2, RecordUnheeded, QuietStep
<1>2. CASE CheckPathLost(a) \/ CheckStillFailing(a)
  <2>1. PICK shown : Record(a, "DOWN", shown, TRUE)
    BY <1>2 DEF CheckPathLost, CheckStillFailing
  <2>2. streak' = [streak EXCEPT ![a] = NextStreak(a, "DOWN")]
        /\ UNCHANGED <<okSince, created, incident>>
    BY <1>2 DEF CheckPathLost, CheckStillFailing
  <2>. QED
    BY <2>1, <2>2, RecordFailure, QuietStep
<1>3. CASE CheckUnrunnable(a)
  <2>1. /\ Record(a, "UNKNOWN", "UNKNOWN", TRUE)
        /\ streak' = [streak EXCEPT ![a] = NextStreak(a, "UNKNOWN")]
        /\ UNCHANGED <<okSince, created, incident>>
    BY <1>3 DEF CheckUnrunnable
  <2>. QED
    BY <2>1, RecordFailure, QuietStep
<1>4. CASE CheckOpensIncident(a)
  BY <1>4, OpeningSound
<1>5. CASE r \in Successes /\ CheckSucceeds(a, r)
  BY <1>5, SuccessSound
<1>. QED
  BY <1>1, <1>2, <1>3, <1>4, <1>5

LEMMA NextSound == TypeOK /\ Sound /\ [Next]_vars => Sound'
<1>. SUFFICES ASSUME TypeOK, Sound, [Next]_vars PROVE Sound'
  OBVIOUS
<1>1. ASSUME NEW a \in Apps, WorkerCheck(a) \/ ManualCheck(a) PROVE Sound'
  BY <1>1, CheckSound DEF WorkerCheck, ManualCheck
<1>2. ASSUME NEW a \in Apps, NEW r \in Results, BlindCheck(a, r) PROVE Sound'
  <2>1. Record(a, r, status[a], FALSE) /\ UNCHANGED <<streak, okSince, created, incident>>
    BY <1>2 DEF BlindCheck
  <2>. QED
    BY <2>1, RecordUnheeded, QuietStep
<1>3. ASSUME NEW i \in Ids, ResolveManually(i) \/ Reopen(i) PROVE Sound'
  BY <1>3, ByHandSound
<1>4. CASE UNCHANGED <<streak, lastCheck, heeded, okSince, created, incident>>
  BY <1>4, QuietStep
<1>5. ASSUME NEW a \in Apps,
             \/ SoftDelete(a)
             \/ \E enabled \in BOOLEAN :
                  SetMonitoringEnabled(a, enabled) \/ UpdateApplication(a, enabled)
      PROVE  Sound'
  BY <1>4, <1>5 DEF SoftDelete, SetMonitoringEnabled, UpdateApplication
<1>6. ASSUME NEW w \in Scopes, WindowStarts(w) \/ WindowEnds(w) PROVE Sound'
  BY <1>4, <1>6 DEF WindowStarts, WindowEnds, appVars
<1>7. ASSUME NEW s \in Servers, HeartbeatHeard(s) \/ HeartbeatGoesStale(s) PROVE Sound'
  BY <1>4, <1>7 DEF HeartbeatHeard, HeartbeatGoesStale, appVars
<1>8. CASE UNCHANGED vars
  BY <1>4, <1>8 DEF vars
<1>. QED
  BY <1>1, <1>2, <1>3, <1>5, <1>6, <1>7, <1>8 DEF Next

LEMMA InitSound == Init => Sound
BY DEF Init, Sound, OlderOpenReopened, RecoveredMeansClosed, ClosedByRecovery,
       SuccessClearsStreak

LEMMA Inductive == Spec => [](TypeOK /\ Sound)
<1>1. Init => TypeOK /\ Sound
  BY InitTyped, InitSound
<1>2. TypeOK /\ Sound /\ [Next]_vars => (TypeOK /\ Sound)'
  BY NextTyped, NextSound
<1>. QED
  BY <1>1, <1>2, PTL DEF Spec

\* Two incidents of one application are open together only after a user
\* reopened the older one: whatever the checks, windows, outages and admin
\* steps in between, open_incident never duplicates.
THEOREM DuplicatesOnlyByReopening == Spec => []DuplicateOnlyByReopen
<1>1. TypeOK /\ Sound => DuplicateOnlyByReopen
  BY DEF Sound, OlderOpenReopened, DuplicateOnlyByReopen
<1>. QED
  BY <1>1, Inductive, PTL

\* A heeded success leaves nothing open that a user did not reopen.
THEOREM RecoveryCloses == Spec => []RecoveredMeansClosed
<1>1. TypeOK /\ Sound => RecoveredMeansClosed
  BY DEF Sound
<1>. QED
  BY <1>1, Inductive, PTL
-----------------------------------------------------------------------------
(* What a step may never do.                                               *)

\* Only a failing check that passed every test of the lifecycle adds a row.
LEMMA OnlyChecksOpen ==
  ASSUME TypeOK, Next, NEW a \in Apps, Opens(a)
  PROVE  CheckOpensIncident(a)
<1>1. created' # created /\ created + 1 \in Nat
  BY DEF Opens, TypeOK
<1>2. PICK b \in Apps : Check(b)
  BY <1>1 DEF Next, WorkerCheck, ManualCheck, BlindCheck, SetMonitoringEnabled,
     UpdateApplication, SoftDelete, ResolveManually, Reopen, WindowStarts, WindowEnds, HeartbeatHeard,
     HeartbeatGoesStale
<1>3. CheckOpensIncident(b)
  BY <1>1, <1>2 DEF Check, CheckInMaintenance, CheckPathLost, CheckStillFailing,
     CheckSucceeds, CheckUnrunnable
<1>4. created + 1 \in Ids
  BY <1>3, BoundAssumption DEF CheckOpensIncident, TypeOK, Ids
<1>5. incident'[created'].app = b
  BY <1>3, <1>4 DEF CheckOpensIncident, TypeOK
<1>. QED
  BY <1>3, <1>5 DEF Opens

\* No outage is split in two incidents, except by a user who closes the
\* first by hand while the application is still failing.
THEOREM OneIncidentPerOutage == Spec => NewIncidentIsNewOutage
<1>. DEFINE A == \A a \in Apps : Opens(a) =>
       okSince[a] \/ \A i \in 1 .. created : Newest(i, a) => incident[i].byHand
<1>1. TypeOK /\ Sound /\ [Next]_vars => [A]_vars
  <2>. SUFFICES ASSUME TypeOK, Sound, Next, NEW a \in Apps, Opens(a), ~okSince[a],
                       NEW i \in 1 .. created, Newest(i, a)
                PROVE  incident[i].byHand
    OBVIOUS
  <2>1. NoActive(a)
    BY OnlyChecksOpen DEF CheckOpensIncident
  <2>2. incident[i].app = a /\ incident[i].state = "RESOLVED"
    BY <2>1, RowsAreIncidents DEF Newest, NoActive, OpenIncidents, IncidentsOf, Incident
  <2>. QED
    BY <2>2 DEF Sound, ClosedByRecovery
<1>. QED
  BY <1>1, Inductive, PTL DEF Spec, NewIncidentIsNewOutage

\* With two or more failures required, one failing check right after a
\* heeded success never opens an incident.
THEOREM BlipsNeverAlert == Spec => NoAlertOnABlip
<1>. DEFINE A == \A a \in Apps : Opens(a) /\ Required > 1 /\ heeded[a] =>
       lastCheck[a] \notin Successes
<1>1. TypeOK /\ Sound /\ [Next]_vars => [A]_vars
  <2>. SUFFICES ASSUME TypeOK, Sound, Next, NEW a \in Apps, Opens(a), Required > 1,
                       heeded[a], lastCheck[a] \in Successes
                PROVE  FALSE
    OBVIOUS
  <2>1. streak[a] = 0
    BY DEF Sound, SuccessClearsStreak
  <2>2. NextStreak(a, "DOWN") = 1
    BY <2>1, RequiredAssumption DEF NextStreak, Successes
  <2>3. NextStreak(a, "DOWN") >= Required
    BY OnlyChecksOpen DEF CheckOpensIncident
  <2>. QED
    BY <2>2, <2>3, RequiredAssumption
<1>. QED
  BY <1>1, Inductive, PTL DEF Spec, NoAlertOnABlip
=============================================================================
