----------------------------- MODULE Retention -----------------------------
(***************************************************************************)
(* The daily purge, and a mail it can strand. An incident is purged by the *)
(* day it started, once closed, a notification by the day it was created;  *)
(* one that is queued looks its incident up after it was mailed, and if    *)
(* there is none the attempt is rolled back: it is mailed in every cycle.  *)
(*                                                                         *)
(* One incident and its RECOVERY mail. The purge precedes the retry in     *)
(* each cycle, and cycles are many in a day on which the worker runs.      *)
(***************************************************************************)
EXTENDS Integers

CONSTANTS
  Days,       \* what the two settings may be, in days, 0 for ever
  MaxOutage,  \* bound: days from the start to the last closing
  MaxHeld     \* bound: days in a row without a retry: quiet, or the worker away

VARIABLES
  keepIncidents,  \* retention_incidents_days
  keepMail,       \* retention_notifications_days
  incident,       \* its status and days since started_at
  mail,           \* the RECOVERY row's status and days since created_at
  held,           \* days in a row without a retry
  purgedOn,       \* last_purge_at is less than a day ago
  worker,         \* "works", "holds" on a quiet day, or "away"
  delivered       \* copies of the mail delivered, up to 2

settings == <<keepIncidents, keepMail>>
retentionVars == <<settings, incident, mail, held, purgedOn, worker, delivered>>

Gone == [status |-> "GONE", age |-> 0]
Horizon == keepIncidents + keepMail + MaxOutage + MaxHeld + 1
Older(row) == IF row = Gone \/ row.age = Horizon THEN row ELSE [row EXCEPT !.age = @ + 1]

-----------------------------------------------------------------------------
(* purge_if_due.                                                           *)

Expired(row, days) == days > 0 /\ row.age > days

\* Mutant: the two settings are taken for one another.
PurgeIfDue_Swapped ==
  /\ worker # "away" /\ ~purgedOn
  /\ purgedOn' = TRUE
  /\ incident' = IF incident.status = "RESOLVED" /\ Expired(incident, keepMail)
                 THEN Gone ELSE incident
  /\ mail' = IF Expired(mail, keepIncidents) THEN Gone ELSE mail
  /\ UNCHANGED <<settings, held, worker, delivered>>

PurgeIfDue ==
  /\ worker # "away" /\ ~purgedOn
  /\ purgedOn' = TRUE
  /\ incident' = IF incident.status = "RESOLVED" /\ Expired(incident, keepIncidents)
                 THEN Gone ELSE incident
  /\ mail' = IF Expired(mail, keepMail) THEN Gone ELSE mail
  /\ UNCHANGED <<settings, held, worker, delivered>>

\* retry_failed_notifications, later in the cycle.
RetryMail ==
  /\ worker = "works" /\ purgedOn
  /\ mail.status = "PENDING"
  /\ delivered' = IF delivered < 2 THEN delivered + 1 ELSE delivered
  /\ mail' = IF incident = Gone THEN mail ELSE [mail EXCEPT !.status = "SENT"]
  /\ UNCHANGED <<settings, incident, held, purgedOn, worker>>

-----------------------------------------------------------------------------
\* Recovery: mailed at once, or held.
Resolve ==
  /\ incident.status = "OPEN" /\ incident.age <= MaxOutage
  /\ worker # "away"
  /\ incident' = [incident EXCEPT !.status = "RESOLVED"]
  /\ mail' = [status |-> IF worker = "works" THEN "SENT" ELSE "PENDING", age |-> 0]
  /\ delivered' = IF worker = "works" THEN 1 ELSE 0
  /\ UNCHANGED <<settings, held, purgedOn, worker>>

\* A day on which the worker works has its retry, and ends with nothing left
\* to retry but what cannot be marked.
NextDay(w) ==
  /\ worker # "away" => purgedOn
  /\ worker = "works" => mail.status # "PENDING" \/ (incident = Gone /\ delivered > 0)
  /\ incident.status = "OPEN" => incident.age < MaxOutage
  /\ held' = IF w = "works" THEN 0 ELSE held + 1
  /\ held' <= MaxHeld
  /\ worker' = w
  /\ purgedOn' = FALSE
  /\ incident' = Older(incident) /\ mail' = Older(mail)
  /\ UNCHANGED <<settings, delivered>>

RetentionInit ==
  /\ keepIncidents \in Days /\ keepMail \in Days
  /\ incident = [status |-> "OPEN", age |-> 0]
  /\ mail = Gone /\ held = 0 /\ purgedOn = FALSE /\ worker = "works" /\ delivered = 0

RetentionNext ==
  \/ PurgeIfDue \/ RetryMail \/ Resolve
  \/ \E w \in {"works", "holds", "away"} : NextDay(w)

IncidentsKept == keepIncidents = 0 \/ MaxOutage + MaxHeld <= keepIncidents
MailKept == keepMail = 0 \/ MaxHeld <= keepMail

\* A mail held over quiet days or an absence of the worker. More than one copy
\* goes out only where its incident was purged meanwhile, and then it is never
\* marked sent; where incidents are kept for longer than an outage and the wait
\* together there is one copy at most, and where mails are kept for longer than
\* the wait it is not purged before a copy went out. (retention_service 30-84,
\* notification_service 450-472, health_checker 185-196)
HeldMailGoesOnce ==
  /\ delivered > 1 => incident = Gone /\ mail.status # "SENT"
  /\ IncidentsKept => delivered <= 1
  /\ MailKept => (mail = Gone => incident.status = "OPEN" \/ delivered >= 1)
=============================================================================
