-------------------------- MODULE ConcurrentChecks --------------------------
(***************************************************************************)
(* One application checked by several processes at once: the worker's      *)
(* cycle and the web processes that serve "Run check". They share the      *)
(* database and nothing else, so a check's transition is a sequence of     *)
(* reads and commits that interleaves with the others', and any of them    *)
(* may stop between two commits.                                           *)
(* A process stands for one thread of execution: the web server runs       *)
(* several, each with a session of its own.                                *)
(*                                                                         *)
(* No maintenance, dependency or silent host, alerts on, no quiet day, a   *)
(* mail server that accepts: those are IncidentLifecycle's and             *)
(* NotificationDelivery's.                                                 *)
(***************************************************************************)
EXTENDS Integers, Sequences, FiniteSets

CONSTANTS
  Procs,         \* the processes that run checks
  Worker,        \* the one that also retries undelivered mail
  MaxIncidents,  \* bound on the rows of the incidents table
  MaxCrashes     \* bound on the crashes

ASSUME ProcsAssumption == IsFiniteSet(Procs) /\ Worker \in Procs
ASSUME BoundsAssumption == MaxIncidents \in Nat /\ MaxCrashes \in Nat

VARIABLES
  incident,  \* the incidents in creation order: status, and who inserted it
  flagged,   \* <<i, type>>: notification_sent or recovery_notification_sent
             \* of incident i
  rows,      \* the notifications table: <<i, type, p>> is the row process p
             \* created; copies is what the owner received of it
  proc,      \* what each process is doing
  todo,      \* the rest of the worker's retry list
  crashes

vars == <<incident, flagged, rows, proc, todo, crashes>>

Results == {"UP", "DOWN"}
Types == {"DOWN", "RECOVERY"}
Ids == 1 .. Len(incident)

\* A process: where it is, the result it applies, the incident and the
\* notification it works on (none yet: 0 and <<>>).
Idle == [at |-> "idle", result |-> "UP", inc |-> 0, row |-> <<>>]

Places == {"idle", "measured", "guard", "insert",
           "resolve", "announce", "smtp", "mark", "flag", "retry", "retried"}

TypeOK ==
  /\ incident \in Seq([status : {"OPEN", "RESOLVED"}, by : Procs]) /\ Len(incident) <= MaxIncidents
  /\ flagged \subseteq Ids \X Types
  /\ DOMAIN rows \subseteq Ids \X Types \X Procs
  /\ \A k \in DOMAIN rows : rows[k] \in [status : {"PENDING", "SENT"}, copies : Nat]
  /\ proc \in [Procs -> [at : Places, result : Results,
                         inc : Ids \cup {0}, row : DOMAIN rows \cup {<<>>}]]
  /\ todo \subseteq DOMAIN rows
  /\ crashes \in 0 .. MaxCrashes

\* Mutant: an incident counts once its alert is on record.
OpenIncidents_Announced ==
  {i \in Ids : incident[i].status = "OPEN" /\ <<i, "DOWN">> \in flagged}

\* What get_active_incident chooses from, by started_at: the time of the
\* check, so of two raced incidents either may be the newest.
OpenIncidents == {i \in Ids : incident[i].status = "OPEN"}

\* Process p goes from one place to the next; Finishes ends what it does.
At(p, place) == proc[p].at = place
Goes(p, place) == proc' = [proc EXCEPT ![p].at = place]
Finishes(p) == proc' = [proc EXCEPT ![p] = Idle]

-----------------------------------------------------------------------------
(* A check and what its transition finds.                                  *)

Failing == {p \in Procs : proc[p].result = "DOWN"}

\* The attempts are over, their health_checks rows and the streak committed.
\* DOWN stands for a failure the streak confirms: others change nothing here.
\* The worker first collects every application's result, so its transition
\* may come late.
Measure(p, r) ==
  /\ At(p, "idle")
  /\ r = "DOWN" => Len(incident) + Cardinality(Failing) < MaxIncidents
  /\ proc' = [proc EXCEPT ![p].at = "measured", ![p].result = r]
  /\ UNCHANGED <<incident, flagged, rows, todo, crashes>>

\* get_active_incident. Without reminders an open incident ends a failing
\* check, and a success with none open has nothing to do.
FindNothingToDo(p) ==
  /\ At(p, "measured")
  /\ \/ proc[p].result = "DOWN" /\ OpenIncidents # {}
     \/ proc[p].result = "UP" /\ OpenIncidents = {}
  /\ Finishes(p)
  /\ UNCHANGED <<incident, flagged, rows, todo, crashes>>

FindOutage(p) ==
  /\ At(p, "measured")
  /\ proc[p].result = "DOWN"
  /\ OpenIncidents = {}
  /\ Goes(p, "guard")
  /\ UNCHANGED <<incident, flagged, rows, todo, crashes>>

\* Mutant: only an outage that was announced can recover.
FindRecovery_Announced(p) ==
  /\ At(p, "measured")
  /\ proc[p].result = "UP"
  /\ \E i \in OpenIncidents :
       /\ <<i, "DOWN">> \in flagged
       /\ proc' = [proc EXCEPT ![p].at = "resolve", ![p].inc = i]
  /\ UNCHANGED <<incident, flagged, rows, todo, crashes>>

FindRecovery(p) ==
  /\ At(p, "measured")
  /\ proc[p].result = "UP"
  /\ \E i \in OpenIncidents :
       proc' = [proc EXCEPT ![p].at = "resolve", ![p].inc = i]
  /\ UNCHANGED <<incident, flagged, rows, todo, crashes>>

-----------------------------------------------------------------------------
(* open_incident and resolve_incident.                                     *)

\* The second line of defence: somebody else's incident is taken over ...
TakeOver(p) ==
  /\ At(p, "guard")
  /\ \E i \in OpenIncidents :
       proc' = [proc EXCEPT ![p].at = "announce", ![p].inc = i]
  /\ UNCHANGED <<incident, flagged, rows, todo, crashes>>

\* ... or there is none, and the insert follows.
PassGuard(p) ==
  /\ At(p, "guard")
  /\ OpenIncidents = {}
  /\ Goes(p, "insert")
  /\ UNCHANGED <<incident, flagged, rows, todo, crashes>>

\* Mutant: the alert is left to the next failing check.
InsertIncident_Silent(p) ==
  /\ At(p, "insert")
  /\ incident' = Append(incident, [status |-> "OPEN", by |-> p])
  /\ Finishes(p)
  /\ UNCHANGED <<flagged, rows, todo, crashes>>

InsertIncident(p) ==
  /\ At(p, "insert")
  /\ incident' = Append(incident, [status |-> "OPEN", by |-> p])
  /\ proc' = [proc EXCEPT ![p].at = "announce", ![p].inc = Len(incident')]
  /\ UNCHANGED <<flagged, rows, todo, crashes>>

\* Whatever became of the incident since it was read.
ResolveIncident(p) ==
  /\ At(p, "resolve")
  /\ incident' = [incident EXCEPT ![proc[p].inc].status = "RESOLVED"]
  /\ Goes(p, "announce")
  /\ UNCHANGED <<flagged, rows, todo, crashes>>

-----------------------------------------------------------------------------
(* send_down_notification, send_recovery_notification and _attempt_send.   *)

MailType(p) == IF proc[p].result = "DOWN" THEN "DOWN" ELSE "RECOVERY"

SkipMail(p) ==
  /\ At(p, "announce")
  /\ <<proc[p].inc, MailType(p)>> \in flagged
  /\ Finishes(p)
  /\ UNCHANGED <<incident, flagged, rows, todo, crashes>>

\* The PENDING row is committed before it is attempted.
CreateRow(p) ==
  /\ At(p, "announce")
  /\ <<proc[p].inc, MailType(p)>> \notin flagged
  /\ LET k == <<proc[p].inc, MailType(p), p>> IN
       /\ rows' = [l \in DOMAIN rows \cup {k} |->
                     IF l = k THEN [status |-> "PENDING", copies |-> 0] ELSE rows[l]]
       /\ proc' = [proc EXCEPT ![p].at = "smtp", ![p].row = k]
  /\ UNCHANGED <<incident, flagged, todo, crashes>>

SendMail(p) ==
  /\ At(p, "smtp")
  /\ rows' = [rows EXCEPT ![proc[p].row].copies = @ + 1]
  /\ Goes(p, "mark")
  /\ UNCHANGED <<incident, flagged, todo, crashes>>

MarkSent(p) ==
  /\ At(p, "mark")
  /\ rows' = [rows EXCEPT ![proc[p].row].status = "SENT"]
  /\ Goes(p, "flag")
  /\ UNCHANGED <<incident, flagged, todo, crashes>>

FlagIncident(p) ==
  /\ At(p, "flag")
  /\ flagged' = flagged \cup {<<proc[p].inc, MailType(p)>>}
  /\ Finishes(p)
  /\ UNCHANGED <<incident, rows, todo, crashes>>

-----------------------------------------------------------------------------
(* retry_failed_notifications, at the end of the worker's cycle.           *)

\* Mutant: only refused mails are retried.
Pending_FailedOnly == {k \in DOMAIN rows : rows[k].status = "FAILED"}

Pending == {k \in DOMAIN rows : rows[k].status = "PENDING"}

\* The list of rows is read once; a row's status is not looked at again.
StartRetry ==
  /\ At(Worker, "idle")
  /\ Pending # {}
  /\ todo' = Pending
  /\ Goes(Worker, "retry")
  /\ UNCHANGED <<incident, flagged, rows, crashes>>

RetryMail(k) ==
  /\ At(Worker, "retry")
  /\ k \in todo
  /\ rows' = [rows EXCEPT ![k].copies = @ + 1]
  /\ todo' = todo \ {k}
  /\ proc' = [proc EXCEPT ![Worker].at = "retried", ![Worker].row = k]
  /\ UNCHANGED <<incident, flagged, crashes>>

\* Mutant: the incident's flag is set and the row forgotten.
RetryMarkSent_FlagOnly ==
  /\ At(Worker, "retried")
  /\ LET k == proc[Worker].row IN flagged' = flagged \cup {<<k[1], k[2]>>}
  /\ Finishes(Worker)
  /\ todo' = {}
  /\ UNCHANGED <<incident, rows, crashes>>

\* The row and its incident's flag are one commit here.
RetryMarkSent ==
  /\ At(Worker, "retried")
  /\ LET k == proc[Worker].row IN
       /\ rows' = [rows EXCEPT ![k].status = "SENT"]
       /\ flagged' = flagged \cup {<<k[1], k[2]>>}
  /\ IF todo = {} THEN Finishes(Worker)
     ELSE proc' = [proc EXCEPT ![Worker].at = "retry", ![Worker].row = <<>>]
  /\ UNCHANGED <<incident, todo, crashes>>

-----------------------------------------------------------------------------
\* The process stops, or an error abandons what it was doing. What it
\* committed stays.
Crash(p) ==
  /\ crashes < MaxCrashes
  /\ ~At(p, "idle")
  /\ Finishes(p)
  /\ todo' = IF p = Worker THEN {} ELSE todo
  /\ crashes' = crashes + 1
  /\ UNCHANGED <<incident, flagged, rows>>

Init ==
  /\ incident = <<>>
  /\ flagged = {}
  /\ rows = <<>>
  /\ proc = [p \in Procs |-> Idle]
  /\ todo = {}
  /\ crashes = 0

\* The rest of a check that has begun.
Proceed(p) ==
  \/ FindNothingToDo(p) \/ FindOutage(p) \/ FindRecovery(p)
  \/ TakeOver(p) \/ PassGuard(p) \/ InsertIncident(p) \/ ResolveIncident(p)
  \/ SkipMail(p) \/ CreateRow(p) \/ SendMail(p) \/ MarkSent(p) \/ FlagIncident(p)

ContinueRetry == (\E k \in todo : RetryMail(k)) \/ RetryMarkSent

Next ==
  \/ \E p \in Procs :
       \/ \E r \in Results : Measure(p, r)
       \/ Proceed(p)
       \/ Crash(p)
  \/ StartRetry \/ ContinueRetry

Spec == Init /\ [][Next]_vars

\* A check that began goes on and a web request is served to its end, unless
\* the process crashes; every cycle of the worker checks the application and
\* ends with the retry.
FairSpec ==
  /\ Spec
  /\ \A p \in Procs : WF_vars(Proceed(p))
  /\ WF_vars(ContinueRetry)
  /\ SF_vars(StartRetry)
  /\ SF_vars(\E r \in Results : Measure(Worker, r))

-----------------------------------------------------------------------------
(* Properties.                                                             *)

\* Two incidents open at once were inserted by different processes: a process
\* on its own keeps to one, whatever it crashed in. More processes race
\* between guard and insert. (incident_service 56-80; the comment at 59-61
\* promises the guard holds "if two monitor cycles ever overlap")
OneOpenPerProcess ==
  \A i, j \in Ids :
    i # j /\ incident[i].status = "OPEN" /\ incident[j].status = "OPEN"
      => incident[i].by # incident[j].by

\* A notification reaches the owner at most once from the process that wrote
\* it and once from the worker's retry, and once more for each crash: with
\* one process and no crash, once. (notification_service 146-205, 435-472)
CopiesBounded ==
  \A k \in DOMAIN rows : rows[k].copies <= Cardinality({k[3], Worker}) + crashes

\* A notification written to the table is mailed, although the process that
\* wrote it crashed before it could. (notification_service 435-472)
NothingWrittenIsLost == []<>(\A k \in DOMAIN rows : rows[k].status = "SENT")

\* Unless a process crashed, an incident that opened is announced, also when
\* it was resolved meanwhile. A crash between insert and row leaves it
\* unannounced. (incident_service 66-80, monitoring_service 597-608)
AnnouncedUnlessCrashed ==
  []<>(crashes > 0 \/ \A i \in Ids :
         \E k \in DOMAIN rows : k[1] = i /\ k[2] = "DOWN" /\ rows[k].copies > 0)

\* When checks only succeed, the duplicates of a race close one after the
\* other, as do incidents whose process crashed. (monitoring_service 612-618)
ClosesDespiteRaces ==
  <>[][~\E p \in Procs : Measure(p, "DOWN")]_vars
    => <>[](\A i \in Ids : incident[i].status = "RESOLVED")
=============================================================================
