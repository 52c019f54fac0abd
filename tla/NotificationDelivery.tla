------------------------ MODULE NotificationDelivery ------------------------
(***************************************************************************)
(* What becomes of the emails an incident asks for: DOWN, RECOVERY,        *)
(* REMINDER and ESCALATION rows of the notifications table, held on quiet  *)
(* days, suppressed while alerts are switched off or a server is muted,    *)
(* routed to the daily digest by severity, sent, failed and retried.       *)
(*                                                                         *)
(* A row is committed before its first attempt, by whatever thread found   *)
(* the incident; the worker's retries and escalations go through a list    *)
(* they read once. Threads interleave between these steps, and may stop    *)
(* between any two of them, or between a mail and its record.              *)
(*                                                                         *)
(* Incidents open, resolve and are reopened at arbitrary moments here;     *)
(* IncidentLifecycle says which moments.                                   *)
(***************************************************************************)
EXTENDS Integers, Sequences

CONSTANTS
  Incidents,        \* the incidents followed
  ServerIncidents,  \* those about a server; the others are about applications
  Routes,           \* what the alert policy answers for their severities
  MaxRetries,       \* MAX_NOTIFICATION_RETRIES
  Changes,          \* what changes around the mail: see Set below
  MaxRows,          \* bound on the rows of the notifications table
  MaxFaults         \* bound on the threads that stop and the answers lost

ASSUME KindsAssumption == ServerIncidents \subseteq Incidents
ASSUME RoutesAssumption == Routes \subseteq {"EMAIL", "DIGEST", "NONE"} /\ Routes # {}
ASSUME RetriesAssumption == MaxRetries \in Nat \ {0}
ASSUME BoundsAssumption == MaxRows \in Nat /\ MaxFaults \in Nat

VARIABLES
  inc,        \* the incidents' columns
  rows,       \* the notifications table, in creation order
  drafts,     \* rows whose first attempt is still to be made by their writer
  retrying,   \* rows left of the list the worker's retry has read
  candidates, \* incidents left of the list its escalations have read
  escalating, \* the incident whose escalation is written and not stamped
  mails,      \* history: how often the mail server took each row
  loose,      \* history: rows two threads had in hand at once, and rows
              \* mailed without a record of it
  cut,        \* history: incidents whose escalation stopped before its stamp
  faults,     \* stops and lost answers so far
  owned,      \* incidents whose application or server has an owner_email
  muted,      \* server incidents whose server has alert_scope NONE
  alertsOn,   \* incident_alerts_enabled
  quiet,      \* today is a quiet day
  digestDue,  \* past digest_hour, and no digest stamped today
  smtpUp      \* the mail server takes every message; when FALSE, any
              \* message may be refused

worker == <<retrying, candidates, escalating>>
history == <<mails, loose, cut, faults>>
settings == <<owned, muted, alertsOn, quiet, digestDue, smtpUp>>
vars == <<inc, rows, drafts, worker, history, settings>>

Types == {"DOWN", "RECOVERY", "REMINDER", "ESCALATION"}
Statuses == {"PENDING", "FAILED", "SENT", "SUPPRESSED", "DIGEST"}
Queued == {"PENDING", "FAILED"}

Row == [inc : Incidents, type : Types, status : Statuses, tries : Nat]

\* notified and recovered are notification_sent and
\* recovery_notification_sent; escalated means escalated_at is set.
IncidentColumns ==
  [state : {"NEW", "OPEN", "RESOLVED"}, notified : BOOLEAN, recovered : BOOLEAN,
   acked : BOOLEAN, escalated : BOOLEAN]

TypeOK ==
  /\ inc \in [Incidents -> IncidentColumns]
  /\ rows \in Seq(Row) /\ Len(rows) <= MaxRows
  /\ drafts \subseteq 1 .. Len(rows) /\ retrying \subseteq 1 .. Len(rows)
  /\ candidates \subseteq Incidents /\ escalating \subseteq Incidents /\ cut \subseteq Incidents
  /\ mails \in [1 .. MaxRows -> Nat]
  /\ loose \subseteq 1 .. MaxRows
  /\ faults \in Nat
  /\ owned \subseteq Incidents
  /\ muted \subseteq ServerIncidents
  /\ <<alertsOn, quiet, digestDue, smtpUp>> \in BOOLEAN \X BOOLEAN \X BOOLEAN \X BOOLEAN

RowIds == 1 .. Len(rows)

-----------------------------------------------------------------------------
(* Rows and mail.                                                          *)

HasRoom == Len(rows) < MaxRows

\* A row is committed as PENDING; its attempt is the same thread's next step.
Writes(i, type) ==
  /\ HasRoom
  /\ rows' = Append(rows, [inc |-> i, type |-> type, status |-> "PENDING", tries |-> 0])
  /\ drafts' = drafts \cup {Len(rows) + 1}

\* The mail server took these rows.
Mailed(ks) == mails' = [k \in 1 .. MaxRows |-> IF k \in ks THEN mails[k] + 1 ELSE mails[k]]

Silent == UNCHANGED <<mails, loose, faults>>

\* Something stops short of the record: before the mail went out, or after.
Stops(ks) ==
  /\ faults < MaxFaults
  /\ faults' = faults + 1
  /\ \/ UNCHANGED <<mails, loose>>
     \/ Mailed(ks) /\ loose' = loose \cup ks

\* send_email raises. That the mail was taken and only the answer lost, it
\* cannot tell.
Refuses(ks) == ~smtpUp /\ (Silent \/ Stops(ks))

-----------------------------------------------------------------------------
(* _attempt_send: the first attempt for a row written before.              *)

\* Recoveries bypass the policy: "always goes out with the alert it closes".
RoutesFor(type) == IF type = "RECOVERY" THEN {"EMAIL"} ELSE Routes

\* Mutant: a recovery is announced whoever was muted.
Verdict_RecoveryBypassesMute(k) ==
  IF ~alertsOn THEN {"SUPPRESSED"}
  ELSE IF quiet THEN {"HELD"}
  ELSE {CASE route = "NONE"   -> "SUPPRESSED"
          [] route = "DIGEST" -> "DIGEST"
          [] route = "EMAIL"  -> IF rows[k].inc \in muted /\ rows[k].type # "RECOVERY"
                                 THEN "SUPPRESSED" ELSE "SEND"
        : route \in RoutesFor(rows[k].type)}

\* The switch is looked at first, then the calendar, the policy, the mute and
\* at last the mail server. A quiet day leaves the row as it is.
Verdict(k) ==
  IF ~alertsOn THEN {"SUPPRESSED"}
  ELSE IF quiet THEN {"HELD"}
  ELSE {CASE route = "NONE"   -> "SUPPRESSED"
          [] route = "DIGEST" -> "DIGEST"
          [] route = "EMAIL"  -> IF rows[k].inc \in muted THEN "SUPPRESSED" ELSE "SEND"
        : route \in RoutesFor(rows[k].type)}

Put(k, status, tries) ==
  rows' = [rows EXCEPT ![k] = [@ EXCEPT !.status = status, !.tries = tries]]

\* The flag that a DOWN or RECOVERY row sets on its incident, whatever became
\* of the incident in the meantime.
Flagged(k) ==
  LET column == inc[rows[k].inc] IN
  [inc EXCEPT ![rows[k].inc] =
    [column EXCEPT !.notified = column.notified \/ rows[k].type = "DOWN",
                   !.recovered = column.recovered \/ rows[k].type = "RECOVERY"]]

\* The verdict overwrites whatever the row has become since it was written. A
\* refusal counts from the number of tries that was read before the mail.
Decides(k) ==
  \E verdict \in Verdict(k) :
    \/ verdict = "HELD" /\ UNCHANGED rows /\ Silent
    \/ verdict \in {"SUPPRESSED", "DIGEST"} /\ Put(k, verdict, rows[k].tries) /\ Silent
    \/ /\ verdict = "SEND"
       /\ Put(k, "SENT", rows[k].tries) /\ Mailed({k})
       /\ UNCHANGED <<loose, faults>>
    \/ /\ verdict = "SEND"
       /\ \E tries \in 1 .. rows[k].tries + 1 : Put(k, "FAILED", tries)
       /\ Refuses({k})

\* Mutant: the flag is set as soon as the mail was attempted.
Attempt_FlagsAlways(k) ==
  /\ k \in drafts
  /\ drafts' = drafts \ {k}
  /\ Decides(k)
  /\ inc' = Flagged(k)
  /\ UNCHANGED <<worker, cut, settings>>

\* The flag is set if the row reads SENT after the attempt.
Attempt(k) ==
  /\ k \in drafts
  /\ drafts' = drafts \ {k}
  /\ Decides(k)
  /\ inc' = IF rows'[k].status = "SENT" THEN Flagged(k) ELSE inc
  /\ UNCHANGED <<worker, cut, settings>>

-----------------------------------------------------------------------------
(* The incident's events and the mail each asks for.                       *)

\* open_incident, then send_down_notification or send_server_down_...;
\* without an owner the email is skipped and no row is written.
OpenIncident(i) ==
  /\ inc[i].state = "NEW"
  /\ inc' = [inc EXCEPT ![i].state = "OPEN"]
  /\ \/ i \in owned /\ Writes(i, "DOWN")
     \/ i \notin owned /\ UNCHANGED <<rows, drafts>>
  /\ UNCHANGED <<worker, history, settings>>

\* A check or heartbeat resolves the incident and asks for the RECOVERY mail,
\* unless one is on record as sent.
ResolveByCheck(i) ==
  /\ inc[i].state = "OPEN"
  /\ inc' = [inc EXCEPT ![i].state = "RESOLVED"]
  /\ \/ ~inc[i].recovered /\ i \in owned /\ Writes(i, "RECOVERY")
     \/ (inc[i].recovered \/ i \notin owned) /\ UNCHANGED <<rows, drafts>>
  /\ UNCHANGED <<worker, history, settings>>

\* Closing by hand mails nobody.
ResolveManually(i) ==
  /\ inc[i].state = "OPEN"
  /\ inc' = [inc EXCEPT ![i].state = "RESOLVED"]
  /\ UNCHANGED <<rows, drafts, worker, history, settings>>

Reopen(i) ==
  /\ inc[i].state = "RESOLVED"
  /\ inc' = [inc EXCEPT ![i].state = "OPEN", ![i].recovered = FALSE]
  /\ UNCHANGED <<rows, drafts, worker, history, settings>>

Acknowledge(i) ==
  /\ inc[i].state # "NEW"
  /\ ~inc[i].acked
  /\ inc' = [inc EXCEPT ![i].acked = TRUE]
  /\ UNCHANGED <<rows, drafts, worker, history, settings>>

\* A failing check of an application with an open incident: reminders are
\* enabled and reminder_interval_minutes have passed.
MaybeSendReminder(i) ==
  /\ i \notin ServerIncidents
  /\ inc[i].state = "OPEN"
  /\ ~quiet
  /\ Writes(i, "REMINDER")
  /\ UNCHANGED <<inc, worker, history, settings>>

-----------------------------------------------------------------------------
(* The tail of every monitoring cycle, in the worker.                      *)

WorkerFree == retrying = {} /\ candidates = {} /\ escalating = {}

\* Mutant: rows held over a quiet day are not picked up.
Retryable_FailedOnly ==
  {k \in RowIds : rows[k].status = "FAILED" /\ rows[k].tries < MaxRetries}

\* Mutant: the query without its status filter.
Retryable_AnyStatus == {k \in RowIds : rows[k].tries < MaxRetries}

Retryable == {k \in RowIds : rows[k].status \in Queued /\ rows[k].tries < MaxRetries}

\* retry_failed_notifications while alerts are off: whatever is queued is
\* discarded, a row another thread is about to attempt included. Rows waiting
\* for the digest are not.
DiscardQueued ==
  LET queued == {k \in RowIds : rows[k].status \in Queued} IN
  /\ WorkerFree
  /\ ~alertsOn
  /\ queued # {}
  /\ rows' = [k \in RowIds |->
       IF k \in queued THEN [rows[k] EXCEPT !.status = "SUPPRESSED"] ELSE rows[k]]
  /\ loose' = loose \cup (queued \cap drafts)
  /\ UNCHANGED <<inc, drafts, worker, mails, cut, faults, settings>>

\* retry_failed_notifications otherwise: the queued rows with tries left are
\* read, those another thread is about to attempt included.
StartRetry ==
  /\ WorkerFree
  /\ alertsOn
  /\ ~quiet
  /\ Retryable # {}
  /\ retrying' = Retryable
  /\ loose' = loose \cup (Retryable \cap drafts)
  /\ UNCHANGED <<inc, rows, drafts, candidates, escalating, mails, cut, faults, settings>>

\* One row of that list is sent as stored. Its status, the policy, the mute,
\* the switch and the calendar are not consulted again.
RetryRow(k) ==
  /\ k \in retrying
  /\ retrying' = retrying \ {k}
  /\ \/ /\ Put(k, "SENT", rows[k].tries) /\ Mailed({k})
        /\ inc' = Flagged(k)
        /\ UNCHANGED <<loose, faults>>
     \/ Put(k, rows[k].status, rows[k].tries + 1) /\ Refuses({k}) /\ UNCHANGED inc
  /\ UNCHANGED <<drafts, candidates, escalating, cut, settings>>

RetryFailedNotifications == DiscardQueued \/ StartRetry

\* Mutant: the rows are marked before the mail is out.
SendDailyDigest_MarksFirst ==
  LET waiting == {k \in RowIds : rows[k].status = "DIGEST"}
      Marked(status) == [k \in RowIds |->
        IF k \in waiting THEN [rows[k] EXCEPT !.status = status] ELSE rows[k]]
  IN
  /\ WorkerFree
  /\ ~quiet
  /\ digestDue
  /\ digestDue' = FALSE
  /\ \/ rows' = Marked("SENT") /\ Mailed(waiting) /\ UNCHANGED <<loose, faults>>
     \/ rows' = Marked("SUPPRESSED") /\ (Refuses(waiting) \/ Stops(waiting))
  /\ UNCHANGED <<inc, drafts, worker, cut, owned, muted, alertsOn, quiet, smtpUp>>

\* One summary mail; the day is stamped before it is sent. When it is refused,
\* or the worker stops before the rows are marked, they wait for tomorrow.
SendDailyDigest ==
  LET waiting == {k \in RowIds : rows[k].status = "DIGEST"} IN
  /\ WorkerFree
  /\ ~quiet
  /\ digestDue
  /\ digestDue' = FALSE
  /\ \/ /\ rows' = [k \in RowIds |->
             IF k \in waiting THEN [rows[k] EXCEPT !.status = "SENT"] ELSE rows[k]]
        /\ Mailed(waiting) /\ UNCHANGED <<loose, faults>>
     \/ UNCHANGED rows /\ (Refuses(waiting) \/ Stops(waiting))
  /\ UNCHANGED <<inc, drafts, worker, cut, owned, muted, alertsOn, quiet, smtpUp>>

\* check_escalations reads its candidates once. For any of them,
\* escalation_minutes may have passed or not.
StartEscalations ==
  LET unheeded == {i \in Incidents : /\ inc[i].state = "OPEN" /\ inc[i].notified
                                     /\ ~inc[i].acked /\ ~inc[i].escalated}
  IN
  /\ WorkerFree
  /\ ~quiet
  /\ HasRoom
  /\ candidates' \in SUBSET unheeded \ {{}}
  /\ UNCHANGED <<inc, rows, drafts, retrying, escalating, history, settings>>

Stamped(i) == [inc EXCEPT ![i].escalated = TRUE]

\* _send_escalation of the next one, whatever became of it since: the row, or
\* only the stamp when there is nobody to mail. With MaxRows rows in the
\* bounded table the loop ends.
EscalateNext(i) ==
  /\ i \in candidates /\ escalating = {}
  /\ \/ /\ i \in owned /\ Writes(i, "ESCALATION")
        /\ candidates' = candidates \ {i} /\ escalating' = {i}
        /\ UNCHANGED inc
     \/ /\ i \notin owned /\ inc' = Stamped(i)
        /\ candidates' = candidates \ {i}
        /\ UNCHANGED <<rows, drafts, escalating>>
     \/ ~HasRoom /\ candidates' = {} /\ UNCHANGED <<inc, rows, drafts, escalating>>
  /\ UNCHANGED <<retrying, history, settings>>

Escalations == {k \in RowIds : rows[k].type = "ESCALATION"}

\* escalated_at is stamped after the attempt, whatever its outcome.
StampEscalation(i) ==
  /\ i \in escalating
  /\ drafts \cap Escalations = {}
  /\ inc' = Stamped(i)
  /\ escalating' = escalating \ {i}
  /\ UNCHANGED <<rows, drafts, retrying, candidates, history, settings>>

-----------------------------------------------------------------------------
(* Threads that stop.                                                      *)

\* A thread of the web server, or the worker in a check, leaves its row.
ThreadStops(k) ==
  /\ k \in drafts \ Escalations
  /\ drafts' = drafts \ {k}
  /\ Stops(IF "SEND" \in Verdict(k) THEN {k} ELSE {})
  /\ UNCHANGED <<inc, rows, worker, cut, settings>>

\* The worker stops in the middle of a list, with at most one mail out that
\* is not recorded, and starts again with none.
WorkerStops ==
  /\ ~WorkerFree
  /\ \E k \in retrying \cup {k \in drafts \cap Escalations : "SEND" \in Verdict(k)} : Stops({k})
     \/ Stops({})
  /\ retrying' = {} /\ candidates' = {} /\ escalating' = {}
  /\ drafts' = drafts \ Escalations
  /\ cut' = cut \cup escalating
  /\ UNCHANGED <<inc, rows, settings>>

-----------------------------------------------------------------------------
(* Time, the mail server and the administrator.                            *)

\* Changes bounds what a run lets change: all of it, or a part.
Set(name, flag, others) ==
  /\ name \in Changes
  /\ flag' = ~flag
  /\ UNCHANGED <<inc, rows, drafts, worker, history>> /\ UNCHANGED others

QuietDayStarts == ~quiet /\ Set("calendar", quiet, <<owned, muted, alertsOn, digestDue, smtpUp>>)
QuietDayEnds   == quiet /\ Set("calendar", quiet, <<owned, muted, alertsOn, digestDue, smtpUp>>)
DigestHour     == ~digestDue /\ Set("hour", digestDue, <<owned, muted, alertsOn, quiet, smtpUp>>)
SmtpChanges    == Set("mail server", smtpUp, <<owned, muted, alertsOn, quiet, digestDue>>)
SwitchAlerts   == Set("switch", alertsOn, <<owned, muted, quiet, digestDue, smtpUp>>)

\* set_alert_scope.
MuteServer(i) ==
  /\ i \in ServerIncidents /\ "mute" \in Changes
  /\ muted' = IF i \in muted THEN muted \ {i} ELSE muted \cup {i}
  /\ UNCHANGED <<inc, rows, drafts, worker, history, owned, alertsOn, quiet, digestDue, smtpUp>>

\* A self-enrolled server is enrolled anew, with its owner.
AssignOwner(i) ==
  /\ i \notin owned
  /\ owned' = owned \cup {i}
  /\ UNCHANGED <<inc, rows, drafts, worker, history, muted, alertsOn, quiet, digestDue, smtpUp>>

-----------------------------------------------------------------------------
\* An application always has an owner; a server may not have one yet.
Init ==
  /\ inc = [i \in Incidents |->
       [state |-> "NEW", notified |-> FALSE, recovered |-> FALSE,
        acked |-> FALSE, escalated |-> FALSE]]
  /\ rows = <<>> /\ drafts = {}
  /\ retrying = {} /\ candidates = {} /\ escalating = {}
  /\ mails = [k \in 1 .. MaxRows |-> 0] /\ loose = {} /\ cut = {} /\ faults = 0
  /\ \E unowned \in SUBSET ServerIncidents : owned = Incidents \ unowned
  /\ muted = {}
  /\ alertsOn = TRUE
  /\ quiet = FALSE
  /\ digestDue = FALSE
  /\ smtpUp = TRUE

Next ==
  \/ \E i \in Incidents :
       \/ OpenIncident(i) \/ ResolveByCheck(i) \/ MaybeSendReminder(i)
       \/ ResolveManually(i) \/ Reopen(i) \/ Acknowledge(i)
       \/ EscalateNext(i) \/ StampEscalation(i)
       \/ MuteServer(i) \/ AssignOwner(i)
  \/ \E k \in RowIds : Attempt(k) \/ RetryRow(k) \/ ThreadStops(k)
  \/ RetryFailedNotifications \/ StartEscalations \/ SendDailyDigest \/ WorkerStops
  \/ QuietDayStarts \/ QuietDayEnds \/ DigestHour \/ SmtpChanges \/ SwitchAlerts

Spec == Init /\ [][Next]_vars

\* A weekend ends and mornings come. A thread that does not stop goes on with
\* the row or the list it has in hand; the worker's cycle, every half minute,
\* reaches the retry many times on every working day and the digest on each.
Fairness ==
  /\ WF_vars(QuietDayEnds)
  /\ WF_vars(DigestHour)
  /\ \A k \in 1 .. MaxRows : WF_vars(k \in RowIds /\ (Attempt(k) \/ RetryRow(k)))
  /\ WF_vars(\E i \in Incidents : EscalateNext(i) \/ StampEscalation(i))
  /\ SF_vars(RetryFailedNotifications)
  /\ SF_vars(SendDailyDigest)

FairSpec == Spec /\ Fairness

-----------------------------------------------------------------------------
(* Properties.                                                             *)

\* An incident escalates once, reopened or not, unless the worker stopped
\* between the row and its stamp; and only to people who could have known: the
\* mail server took its DOWN row before. (notification_service 372-393,
\* 208-231, 396-432, 435-472)
EscalationFollowsAlert ==
  \A k \in Escalations :
    /\ \E j \in 1 .. k - 1 : rows[j].inc = rows[k].inc /\ rows[j].type = "DOWN" /\ mails[j] > 0
    /\ rows[k].inc \notin cut => \A j \in Escalations : rows[j].inc = rows[k].inc => j = k

\* What the switch, a quiet day and a mute hold back: of all paths to the mail
\* server, a quiet day lets only a retry through that was begun before it, and
\* a muted server or the switch only such a retry and what waited for the
\* digest. (notification_service 55-62, 146-182, 354-357, 378-380, 435-472,
\* 495-547)
MailHeldBack ==
  [][\A k \in 1 .. MaxRows : mails'[k] # mails[k] =>
       /\ quiet => k \in retrying
       /\ ~alertsOn \/ rows[k].inc \in muted =>
            k \in retrying \/ rows[k].status = "DIGEST"]_vars

\* A row that was mailed or discarded stays so and is not mailed again, unless
\* the worker's list had it while another thread was about to attempt it, or
\* its mail went out unrecorded: no reopening, no later list, digest or
\* setting does it. (notification_service 146-205, 435-472, 495-547)
RepeatsAreRaces ==
  [][\A k \in RowIds : k \notin loose' /\ rows[k].status \in {"SENT", "SUPPRESSED"} =>
       rows'[k] = rows[k] /\ mails'[k] = mails[k]]_vars

\* Every queued row is mailed, discarded or left to the digest, or uses up its
\* tries, however often quiet days return and whatever stops.
\* (notification_service 435-472)
QueuedSettles ==
  \A k \in 1 .. MaxRows :
    (k \in RowIds /\ rows[k].status \in Queued)
      ~> (k \in RowIds /\ (rows[k].status \notin Queued \/ rows[k].tries >= MaxRetries))

\* A row held for the digest is mailed in the end, if the mail server
\* recovers for good. (notification_service 495-547)
DigestArrives ==
  <>[]smtpUp =>
    \A k \in 1 .. MaxRows :
      (k \in RowIds /\ rows[k].status = "DIGEST")
        ~> (k \in RowIds /\ rows[k].status = "SENT")

\* notification_service 7-8: "delivered on the next working day by
\* retry_failed_notifications, so a weekend outage is delayed, never lost".
\* The retries it is given can run out on a PENDING row.
HeldIsDelayedNeverLost ==
  <>[]smtpUp =>
    \A k \in 1 .. MaxRows :
      (k \in RowIds \ (drafts \cup retrying) /\ quiet
         /\ rows[k].status = "PENDING" /\ rows[k].tries = 0)
        ~> (k \in RowIds /\ rows[k].status \in {"SENT", "SUPPRESSED"})
=============================================================================
