-------------------------- MODULE ServerConditions --------------------------
(***************************************************************************)
(* What is wrong with a server that is reachable: metrics over a threshold *)
(* (RESOURCE) and expected services or processes that are not there        *)
(* (COMPONENT). Each heartbeat stores what the agent saw, judges the       *)
(* resources and then the components; the worker judges the components     *)
(* once more after a reboot. Streaks of judgements decide when an incident *)
(* opens and closes, and Debounce says what is promised of them.           *)
(*                                                                         *)
(* A judgement is one step, or one cut short after the commit of its       *)
(* streak; that two processes may interleave within it, or insert two      *)
(* rows, is ConcurrentChecks' subject. The delivery of the mail is         *)
(* NotificationDelivery's, the reachability of the server                  *)
(* ServerReachability's. One incident of each kind is followed.            *)
(***************************************************************************)
EXTENDS Integers, FiniteSetsExt

CONSTANTS
  Warning, Critical,  \* thresholds, the same for all three metrics
  Measurements,       \* what an agent may report of cpu, ram, disk, volumes
  Discoveries,        \* what it may report of services, processes
  Watchlists          \* the components an administrator may expect

None == -1       \* not collected
Omitted == {-2}  \* an older agent that does not report volumes

ASSUME ThresholdAssumption == {Warning, Critical} \subseteq Nat
ASSUME MeasurementsAssumption ==
  \A m \in Measurements :
    {m.cpu, m.ram, m.disk} \subseteq Nat \cup {None} /\ m.volumes \subseteq Int
ASSUME WatchlistsAssumption == {} \in Watchlists

VARIABLES
  metrics,     \* cpu, ram and disk columns, and disk_volumes_json
  discovered,  \* discovered_services_json and discovered_processes_json
  expected,    \* expected_services_json and expected_processes_json
  breaches,    \* the two breach streaks, in a row, up to MaxStreak
  clears,      \* the two clear streaks
  incident,    \* the newest of each kind, if there is one
  request,     \* where the heartbeat request is
  rebooted     \* restart_pending_checks_at is set

vars == <<metrics, discovered, expected, breaches, clears, incident, request, rebooted>>

Kinds == {"RESOURCE", "COMPONENT"}
ToOpen == [RESOURCE |-> 3, COMPONENT |-> 2]
ToClose == [RESOURCE |-> 3, COMPONENT |-> 2]
MaxStreak == 3

\* told: its owner was sent a notification. byUser: a user closed or reopened
\* it last (resolved_by_id, reopened_count).
Row == [open : BOOLEAN, told : BOOLEAN, byUser : BOOLEAN]
NoRow == [open |-> FALSE, told |-> FALSE]

TypeOK ==
  /\ metrics.volumes # Omitted
  /\ breaches \in [Kinds -> 0 .. MaxStreak]
  /\ clears \in [Kinds -> 0 .. MaxStreak]
  /\ incident \in [Kinds -> Row \cup {NoRow}]
  /\ request \in {"idle", "resources", "components"}
  /\ rebooted \in BOOLEAN

-----------------------------------------------------------------------------
(* What the columns say.                                                   *)

\* The fullest volume, a volume without a figure counting as empty.
OrZero(percent) == IF percent = None THEN 0 ELSE percent
WorstDisk ==
  IF metrics.volumes = {} THEN metrics.disk
  ELSE Max({OrZero(p) : p \in metrics.volumes \cup {metrics.disk}})

ValueOf(metric) == IF metric = "disk" THEN WorstDisk ELSE metrics[metric]

\* resource_flags. Critical is asked first: a threshold misconfigured below
\* Warning still makes the value critical.
Flag(metric) ==
  LET value == ValueOf(metric)
  IN IF value = None THEN "UNAVAILABLE"
     ELSE IF value >= Critical THEN "CRITICAL"
     ELSE IF value >= Warning THEN "WARNING" ELSE "OK"

Flags == {Flag(metric) : metric \in {"cpu", "ram", "disk"}}

\* component_status of one expected component.
StateOf(component) ==
  IF component.name \notin DOMAIN discovered[component.kind] THEN "MISSING"
  ELSE IF discovered[component.kind][component.name] = "running" THEN "OK"
  ELSE "STOPPED"

Problem(kind) ==
  IF kind = "RESOURCE" THEN Flags \cap {"WARNING", "CRITICAL"} # {}
  ELSE \E component \in expected : StateOf(component) # "OK"

\* A resource warning is shown and nobody told.
NewIncident(kind) ==
  [open |-> TRUE, told |-> kind = "COMPONENT" \/ "CRITICAL" \in Flags, byUser |-> FALSE]

-----------------------------------------------------------------------------
(* evaluate_resource_thresholds and evaluate_component_checks.             *)

Longer(streak) == IF streak < MaxStreak THEN streak + 1 ELSE streak

\* Mutant: a breach leaves the streak of clear judgements alone.
CountStreaks_ClearsStay(kind) ==
  /\ breaches' = [breaches EXCEPT ![kind] = IF Problem(kind) THEN Longer(@) ELSE 0]
  /\ clears' = [clears EXCEPT ![kind] = IF Problem(kind) THEN @ ELSE Longer(@)]

CountStreaks(kind) ==
  /\ breaches' = [breaches EXCEPT ![kind] = IF Problem(kind) THEN Longer(@) ELSE 0]
  /\ clears' = [clears EXCEPT ![kind] = IF Problem(kind) THEN 0 ELSE Longer(@)]

\* Mutant: the decision is made where the streak is reached, or not at all.
Decide_AtTheMoment(kind) ==
  LET opens == ~incident[kind].open /\ breaches'[kind] = ToOpen[kind]
      closes == incident[kind].open /\ clears'[kind] = ToClose[kind]
  IN incident' = [incident EXCEPT ![kind] =
       IF opens /\ breaches[kind] < ToOpen[kind] THEN NewIncident(kind)
       ELSE IF closes /\ clears[kind] < ToClose[kind] THEN [@ EXCEPT !.open = FALSE, !.byUser = FALSE]
       ELSE @]

\* An incident already open is returned as it is: nobody is told again.
Decide(kind) ==
  LET opens == ~incident[kind].open /\ breaches'[kind] >= ToOpen[kind]
      closes == incident[kind].open /\ clears'[kind] >= ToClose[kind]
  IN incident' = [incident EXCEPT ![kind] =
       IF opens THEN NewIncident(kind)
       ELSE IF closes THEN [@ EXCEPT !.open = FALSE, !.byUser = FALSE] ELSE @]

Judge(kind) == CountStreaks(kind) /\ Decide(kind)

-----------------------------------------------------------------------------
(* The heartbeat request, after authentication.                            *)

\* record_heartbeat: the three percentages are overwritten also by None, the
\* rest only by what was sent.
RecordHeartbeat(m, d, restarted) ==
  /\ request = "idle"
  /\ metrics' = [m EXCEPT !.volumes = IF @ = Omitted THEN metrics.volumes ELSE @]
  /\ discovered' = d
  /\ rebooted' = (rebooted \/ restarted)
  /\ request' = "resources"
  /\ UNCHANGED <<expected, breaches, clears, incident>>

JudgeResources ==
  /\ request = "resources"
  /\ Judge("RESOURCE")
  /\ request' = "components"
  /\ UNCHANGED <<metrics, discovered, expected, rebooted>>

JudgeComponents ==
  /\ request = "components"
  /\ Judge("COMPONENT")
  /\ request' = "idle"
  /\ UNCHANGED <<metrics, discovered, expected, rebooted>>

\* The request fails between the streak's commit and the incident's.
CutShort(kind) ==
  /\ request = IF kind = "RESOURCE" THEN "resources" ELSE "components"
  /\ CountStreaks(kind)
  /\ request' = "idle"
  /\ UNCHANGED <<metrics, discovered, expected, incident, rebooted>>

\* _run_post_restart_checks in the worker, whatever the request is doing.
RecheckComponents ==
  /\ rebooted
  /\ rebooted' = FALSE
  /\ Judge("COMPONENT")
  /\ UNCHANGED <<metrics, discovered, expected, request>>

-----------------------------------------------------------------------------
(* Users.                                                                  *)

\* Nothing is judged before the next heartbeat.
SetExpectedComponents(watchlist) ==
  /\ expected' = watchlist
  /\ breaches' = [breaches EXCEPT !["COMPONENT"] = 0]
  /\ clears' = [clears EXCEPT !["COMPONENT"] = 0]
  /\ UNCHANGED <<metrics, discovered, incident, request, rebooted>>

ResolveManually(kind) ==
  /\ incident[kind].open
  /\ incident' = [incident EXCEPT ![kind].open = FALSE, ![kind].byUser = TRUE]
  /\ UNCHANGED <<metrics, discovered, expected, breaches, clears, request, rebooted>>

\* Bound: only the newest, so that no two are open together.
Reopen(kind) ==
  /\ ~incident[kind].open
  /\ incident[kind] # NoRow
  /\ incident' = [incident EXCEPT ![kind].open = TRUE, ![kind].byUser = TRUE]
  /\ UNCHANGED <<metrics, discovered, expected, breaches, clears, request, rebooted>>

-----------------------------------------------------------------------------
Nothing == [service |-> << >>, process |-> << >>]

Init ==
  /\ metrics = [cpu |-> None, ram |-> None, disk |-> None, volumes |-> {}]
  /\ discovered = Nothing
  /\ expected = {}
  /\ breaches = [kind \in Kinds |-> 0]
  /\ clears = [kind \in Kinds |-> 0]
  /\ incident = [kind \in Kinds |-> NoRow]
  /\ request = "idle"
  /\ rebooted = FALSE

UserCloses == \E kind \in Kinds : ResolveManually(kind)
UserReopens == \E kind \in Kinds : Reopen(kind)
UserExpects == \E watchlist \in Watchlists : SetExpectedComponents(watchlist)

Next ==
  \/ \E m \in Measurements, d \in Discoveries, restarted \in BOOLEAN :
       RecordHeartbeat(m, d, restarted)
  \/ JudgeResources \/ JudgeComponents \/ (\E kind \in Kinds : CutShort(kind))
  \/ RecheckComponents
  \/ UserCloses \/ UserReopens \/ UserExpects

Spec == Init /\ [][Next]_vars

\* A request may fail at any commit, but not every time. Agents owe nothing.
FairSpec == Spec /\ SF_vars(JudgeResources) /\ SF_vars(JudgeComponents)

-----------------------------------------------------------------------------
(* Properties.                                                             *)

\* The two counters of a kind are one run of equal judgements.
RunOf(kind) ==
  IF breaches[kind] > 0 THEN [bad |-> TRUE, length |-> breaches[kind]]
  ELSE [bad |-> FALSE, length |-> clears[kind]]

ByUser(kind) == incident[kind] # NoRow /\ incident[kind].byUser

Resources == INSTANCE Debounce WITH
  ToOpen <- ToOpen["RESOURCE"], ToClose <- ToClose["RESOURCE"], MaxRun <- MaxStreak,
  run <- RunOf("RESOURCE"), open <- incident["RESOURCE"].open, byUser <- ByUser("RESOURCE")
Components == INSTANCE Debounce WITH
  ToOpen <- ToOpen["COMPONENT"], ToClose <- ToClose["COMPONENT"], MaxRun <- MaxStreak,
  run <- RunOf("COMPONENT"), open <- incident["COMPONENT"].open, byUser <- ByUser("COMPONENT")

\* Refinement: whatever mix of heartbeats, rechecks, failed requests and users,
\* each kind opens and closes on an unbroken run of its own judgements alone.
\* (server_service 302-331, 437-500)
ImplementsDebounce == Resources!Spec /\ Components!Spec

Judged(kind) == request = IF kind = "RESOURCE" THEN "resources" ELSE "components"
UsersRest == <>[][~UserCloses /\ ~UserReopens /\ ~UserExpects]_vars

\* While a problem lasts and heartbeats come, its incident opens and stays, and
\* once it is gone the incident closes, although a request may have failed at
\* the very judgement that reached the streak. (server_service 302-331, 457-500)
ProblemsTracked ==
  \A kind \in Kinds :
    UsersRest /\ []<>Judged(kind) =>
      /\ <>[]Problem(kind) => <>[]incident[kind].open
      /\ <>[]~Problem(kind) => <>[]~incident[kind].open
=============================================================================
