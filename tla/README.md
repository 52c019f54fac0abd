# Verification of the monitoring platform

TLA+ models of the parts of this repository that decide whether an outage is
noticed, recorded once, announced once and closed, with their model checks and
machine-checked proofs. Paths are relative to `src/`; "services" means
`backend/app/services`.

## The system

| Component | State it keeps | Operations | Hard behaviour | What makes it correct |
|---|---|---|---|---|
| Incident lifecycle (`monitoring_service`, `incident_service`, `application_service`, `maintenance_service`) | an application's status and failure streak; the incidents table | a check's transition; manual check; enable, disable, edit, delete; resolve by hand, reopen | early returns in an order that matters; "one open incident" is a query, not a constraint | one incident per outage, none on a blip, none silent, none left open |
| Notification delivery (`notification_service`, `alert_policy`) | notification rows, the incident's `notification_sent`, `recovery_notification_sent`, `escalated_at`; quiet days, the alert switch, the digest stamp | send DOWN, RECOVERY, REMINDER, ESCALATION; retry; discard; daily digest | four paths to the mail server, each with its own guards; settings change between writing and sending | nothing mailed twice but for a race, nothing on a quiet day, nothing held is lost, escalation only after an alert |
| Worker and web process together | the shared database | both run `_apply_transition`; the worker retries mail | interleaving at every commit, crashes between commits | races are bounded, and settle |
| Server reachability (`server_service`) | `current_status`, `last_heartbeat_at`, REACHABILITY incidents | `record_heartbeat` (web), `check_missed_heartbeats` (worker) | the two overlap; a failure between status and incident; blind cycles | a silent server is noticed, a false alarm withdrawn |
| Agent queue (`agent-poc/agent.py`) | `heartbeat_queue.jsonl` | flush, collect, send, queue | lost answers, crashes while the file is rewritten, cap and age | no heartbeat lost but for a stated reason |
| Monitoring cycle (`monitoring/health_checker.py`, `scheduler.py`) | the stamp of the last cycle; due times; pending restart checks | one cycle every poll interval: checks, judgement, scan, restart checks, mail | slow cycles, blindness, results judged later than collected | blindness ends; checks recur |
| Watchdog (`monitoring/watchdog.py`) | a state file: failing or not | compare the stamp with the clock, mail once | a refused mail is recorded as sent | a stall is reported, once |
| Server conditions (`server_service`) | breach and clear streaks; RESOURCE, COMPONENT incidents | evaluated on every heartbeat; watchlist edits; rechecks after a reboot | a metric that is missing; streak resets; a request cut between two evaluations | 3 breaches open, 3 clears close (2 for components), none twice |
| Server inventory (`server_service`) | the last snapshot, the recorded changes | compare, record, store | two commits; a cap; a discovery that failed looks empty | the changes add up to the inventory |
| View of a machine (`agent.py`, `models/server.py`, `diagnose_service`) | discovery columns, clock skew, reachability cache | discover, store, answer questions | what is unknown must not look like "no" | answers are facts, or say they are none |
| Agent background collectors (`agent.py`) | volume usage cache, scan flag, link history | a scan thread, a sampler thread, the heartbeat | flag left set, partial results, two writers | every volume again and again; no link forgotten early |
| Agent installation (`agent.py`, `agent_config.py`, `agent_service.py`) | config file, token and address in memory, rollback copies | enrol, reload, start, update, restore | the file is written in two steps; the server re-created | the agent is heard again, in a release that works |
| Synthetic workflows (`workflow_service`) | sessions, login failures, cooldown, all in memory of each process | run the steps, reuse or renew the session | a reused session lost mid-run; login limit of the target, which also counts logins whose answer is lost; several processes | refused logins stay few, a lost session is no outage |
| Alert policy (`alert_policy`) | none | severity, support hours, route, recipients | windows across midnight | worse is never quieter |
| Probes, certificates (`monitoring_service`, `file_check_service`) | certificate columns | one attempt; the certificate once a day | stale expiry | the verdict fits the target |
| Diagnosis (`diagnose_service`) | none | a chain of probes of its own | other limits than the check's | agrees with the check |
| Application versions, form (`application_service`, `validators`) | profiles, versions | create, edit, roll back, switch, delete | overlapping edits; partial payloads | undo is possible; what is accepted can be checked |
| Retention, capacity (`retention_service`, `capacity_service`) | rows by age; disk readings | nightly purge; forecast | a purge under a waiting mail | nothing sent twice or purged unsent; the forecast is not late |
| Reports (`report_service`) | none | availability, days, failures, response times | joins, rounding, missing stages | the figures agree with each other |
| Users, LDAP, audit, frontend, SQL | rows and files of their own | sequential | little | not modelled, see below |

The worker (one process; a second cycle never overlaps the first) and the web
processes share the database and the service code. There is no message between
them. Agents post heartbeats to the web process; the watchdog reads the
worker's stamp from the database; mail goes out through an SMTP server.

## Modules

In the order they were written:

1. `IncidentLifecycle`, with `IncidentLifecycle_proofs` and
   `MCIncidentLifecycle`. The whole transition of one health check is a step.
   `registered` is `monitoring_enabled`/`deleted_at`, `streak` is
   `failure_streak` (saturating at the threshold, which is all that is ever
   asked of it), `incident` the table in creation order. `okSince`, `lastCheck`
   and `heeded` are columns of applications and health_checks, kept as far as
   the code or a property compares them. The disjuncts of `Check` follow the
   early returns of `_apply_transition`: in maintenance, path lost, still
   failing (dependency, already open, streak), opens, succeeds, could not run.
   `UpdateApplication` is the edit form, which changes the monitoring switch
   and leaves the status, unlike `SetMonitoringEnabled`.
2. `NotificationDelivery`, with `MCNotificationDelivery` and `MCDeliverySafety`. `rows` is the
   notifications table. A row is committed (`Writes`) and attempted (`Attempt`)
   in two steps, between which anything may happen to it; `drafts` are the rows
   in between. `Verdict` is `_attempt_send` with its guards in their order. The
   tail of every cycle works through lists it read once: `StartRetry` and
   `RetryRow` with `retrying`, `StartEscalations`, `EscalateNext` and
   `StampEscalation` with `candidates` and `escalating`; `DiscardQueued` and
   `SendDailyDigest` are one step each, the digest's mail and the marking of its
   rows told apart by `Stops`. A thread may stop at any step (`ThreadStops`,
   `WorkerStops`, which also stands for an exception that ends the cycle), the
   worker also between a mail and its record; a refused mail may have been
   delivered and only its answer lost. `mails`, `loose` and `cut` are histories:
   copies the mail server took; rows two threads had in hand at once, or that
   were mailed without a record; escalations that stopped before their stamp.
   Where the check, the mail and the record of a row are one step, what another
   thread writes in between is overwritten in the code and cannot come in
   between in the model; `ConcurrentChecks` has those steps apart. A refusal
   counts from the number of tries read before the mail, so a count may be lost.
   Incidents open, close and reopen at any moment: more behaviours than
   IncidentLifecycle allows. What the alert policy answers is the constant
   `Routes`.
3. `ConcurrentChecks`, with `MCConcurrentChecks`. The paths of 1 and 2 that
   touch an incident, split at every read and commit, for the worker and a web
   process. `proc` is each process's program counter and local variables. A
   process is a thread of execution: the web server runs several, so that on one
   machine there may be more than two.
4. `ServerReachability`. `request` is the heartbeat in the web process, `worker`
   the scan of this server; each holds the status it loaded. Any step may be
   the last of its scan or request (`Abandon...`).
5. `AgentQueue`. `pc` walks the loop of `run`; `file` is the queue file, `torn`
   a half-written last line. A send may fail although the hub recorded it.
6. `MonitoringCycle`, with `MCMonitoringCycle`. `cycle` is the worker's place in
   `run_monitoring_cycle` with the local lists `due`, `checked` and the verdict
   `blind`; `age` counts polls since `last_checked_at`. A blind cycle leaves
   both status and age alone, so what it saw stays due. Post-restart checks
   apply their result at once. A late cycle is a choice here:
7. `Watchdog` has the clock. `stamp` is the age of `last_monitoring_cycle_at`,
   which the next cycle and the watchdog each compare with a limit of their
   own; `worker.took` is how long the present cycle has lasted. It runs as a
   part of `Services` (9), where `worker`, `mail` and `told` are `cycle`,
   `mailServer` and `lastMail`.
8. `ServerConditions`, with `Debounce` and `MCServerConditions`. One function
   over the two kinds, since `evaluate_resource_thresholds` and
   `evaluate_component_checks` are the same debouncer around different
   observations: `Flags` and `StateOf` compute what is observed, `CountStreaks`
   and `Decide` what follows. `request` is the heartbeat between its commits.
   `Debounce` is the abstract specification, what a reader of the constants
   expects; `ServerConditions` is shown to implement it twice, once per kind,
   with `run` built from the two streaks.
9. `Services` composes `Watchdog` and the components below, each in a module of its own with
   prefixed names for `Init` and `Next` (`CollectInit`, `CollectNext`);
   `MCServices` is its small instance:
   - `WorkflowSession`: what a process remembers of an application's login, the
     target's sessions and its account of failed logins, those whose refusal
     the process heard (`rejected`) and those whose answer, or that of a later
     step, was given up (`unheard`): `AttemptBreaksOff` counts none of either.
     An attempt is one `run_workflow`, whatever it meets a disjunct.
   - `AgentCollect`: `scan` is the thread of `_disk_scan_worker`, which
     publishes after every volume; `seen` the socket table a thread has read and
     not yet folded into `history`.
   - `AgentInstall`: `config` is the file, in its two writes; `loop` the values
     the running agent holds; `copies` the rollback copies.
   - `Versions`: `edit` is a request between `record_version`'s commit and
     that of the profile.
   - `Probes`: `Attempt` computes the verdict of each type of check on a target
     record, `Chain` the steps of a diagnosis.
   - `Certificates`: `readAge` counts ticks since `cert_checked_at`.
   - `Retention`: one incident, one row of mail, the days between them and the
     two settings, which may be anything and are chosen once.
   - `Inventory`: `request` between the commit of the changes and that of the
     snapshot; `told` is what the recorded changes lead to, from the first
     snapshot that is not empty (`begun`).
10. Modules of operators only, whose claims TLC evaluates as assumptions:
   `AlertPolicy` (extended by `MCNotificationDelivery`, which computes its
   routes from it; proofs in `NotificationDelivery_proofs`), and in `MCServices`
   `Capacity`, `Reports`, `ApplicationForm`, `HostView`.

1, 2, 4 and 6 are views of the same database at different grain; 3 is the finer
grain of 1 and 2 for the steps where it matters. 8 and 4 share a heartbeat:
the incidents they open are of different kinds, and `get_active_incident` never
finds the one for the other. The components of 9 share no state with each
other, so one run explores them side by side: `part` says which moves.

## Runs

| Run | Shows | Bounds |
|---|---|---|
| `lifecycle_one` | one application on a host: `DuplicateOnlyByReopen`, `RecoveredMeansClosed`, `NewIncidentIsNewOutage`, `NoAlertOnABlip` | threshold 2 (the default), 3 incidents: a duplicate needs 2, the third shows what follows one; all four results, a window, a host that goes silent |
| `lifecycle_deps` | a site that depends on a database: `OutageAlerted`, `RecoveryClosesAll` under fairness | 2 incidents in all, so one each or a duplicate; UP and DOWN; threshold 1, the streak being `lifecycle_one`'s subject |
| `delivery_safety` | `EscalationFollowsAlert`, `MailHeldBack`, `RepeatsAreRaces` | a server incident (it has every guard an application's has, the mute and the missing owner besides; only reminders are the application's), 1 fault, limit 2. In each behaviour `question` (`MCDeliverySafety`) is one of two: every setting and route with 2 rows; or 3 rows, an alert, an escalation and one too many, while everything is mailed at once, no row is retried after a refusal, and the calendar and the mail server change |
| `delivery_live` | `QueuedSettles`, `DigestArrives` under fairness | an application incident, 2 rows mailed or left to the digest, limit 2, 1 fault; calendar, digest hour and mail server change; nobody acknowledges, which would only spare an escalation |
| `delivery_held` | *violated:* `HeldIsDelayedNeverLost` | one row, limit 2, no fault |
| `concurrent_checks` | `OneOpenPerProcess`, `CopiesBounded`, `NothingWrittenIsLost`, `AnnouncedUnlessCrashed`, `ClosesDespiteRaces` | worker and one web process, 2 incidents (one race), 1 crash |
| `server_reachability` | `OneOpenUnlessReopened`, `FalseAlarmWithdrawn`, `StatusRecovers`, `NewOutageNoticed` | one server, not the platform's own machine, 2 incidents |
| `server_conditions` | `ImplementsDebounce`, `ProblemsTracked` | percentages as fine, warning, critical; five reports, three discoveries, two watchlists; the limits of the code (3 and 3, 3 and 2), 1 reboot at a time |
| `agent_queue` | `EvidenceKept`, `QueueDrains` | cap 2, 4 heartbeats (twice the cap), 1 crash |
| `monitoring_cycle` | `StatusSettles`, `RestartChecked` | three applications, due every second poll; two may fail together, or all; blindness from 2 targets instead of 3, so that two are enough to cause it and the third to end it |
| `services`, workflow | `LoginsWithinLimit`, `LostSessionIsNoOutage`, `WorkflowComesBack` | worker and one web process; ticks of 300 seconds, so that the target forgets in one, a session may idle for one and a pause takes three; 3 failures to a pause, a limit of 10, 1 restart, 1 refusal that goes unheard |
| `workflow_lockout` | *violated:* `NeverLocked` | `WorkflowSession` alone: one worker, no restart, ten unheard refusals |
| `services`, collect | `LinksRemembered`, `VolumesComeBack` | 2 volumes, 1 link, 2 ticks for six hours |
| `services`, install | `AgentReconnects` | 5 releases and 3 copies, so that copies are pruned twice; 2 enrolments, 1 stop |
| `services`, edits | `UndoIsPossible` | 2 requests, 2 values, 2 versions, forms of one field each |
| `services`, probes | `DiagnosisAgrees` | 4 orders of addresses, three times to connect and to answer on either side of each limit, one fault at a time |
| `services`, certs | `CertificateFollows` | 2 ticks for a day, 2 swaps |
| `services`, purge | `HeldMailGoesOnce` | incident and mail kept for ever, 1, 2 or 4 days each; an outage and a wait of 2 at most, so that either setting may be too short or enough |
| `services`, drift | `DriftRecorded` | 3 items, one of them per user, 2 states, a cap of 1 |
| `services`, watch | `QuickCyclesSee`, `NoFalseAlarm`, `StallTold` | the limits of the code, 4 and 30 polls; ages saturate one past the larger |

`services` also evaluates, over inputs named in `MCServices`: `ForecastsInTime`
(a disk whose growth never rises is not full before the day forecast),
`FiguresAgree` (days, failures and the availability line are the same checks
counted three ways; targets are misjudged by no more than the rounding; a mean
and its sample are of the same incidents), `FormsAreSafe` (an accepted
application, new or edited by a payload that names its type, is one its probe
can run on) and `ViewIsHonest` (what is said of a machine was so at its last
heartbeat, up to the exceptions the formulas name). The runs on delivery
evaluate `PolicyKeepsOrder`, `HoursLeaveNoGap` and `PolicyWakes` of
`AlertPolicy`.

Each module keeps its `TypeOK`; those of `IncidentLifecycle`,
`NotificationDelivery`, `ServerReachability` and `ConcurrentChecks` are proved.
Each property has a mutant: a definition named `X_...` beside `X`, an error a
change of the code could plausibly make, with which the property fails.

`lifecycle_deps` does not check for deadlock: all applications may be deleted,
and without windows and hosts nothing happens after that. Nor does `services`:
installations end, mail is purged, and a probe is made once.

Bounds are constants: `MaxIncidents`, `MaxRows`, `MaxCrashes`, `MaxFaults`,
`MaxUnheard`, `MaxBeats` guard the actions that would exceed them. A fault of
`NotificationDelivery` is a thread that stops or an answer that is lost; its
`Changes` names what a run lets change of the calendar, the digest hour, the
mail server, the alert switch and the mute, so that liveness stays within
reach, while `delivery_safety` has all of them. With
`MaxRows` rows an escalation is not written and its list ends. In
`WorkflowSession` the password goes wrong anew only where the target has
forgotten the refusals it told of, and restarts are counted from there. At
`MaxIncidents` a confirmed failure that would open another incident cannot be
checked at all, so liveness properties are about behaviours within the bound.
Past `MaxBeats` the agent's loop goes on flushing with heartbeats that are no
longer numbered.

## Where code and documents differ

Two runs are expected to fail.

- `HeldIsDelayedNeverLost`: a row held over the weekend shares the retry limit
  of refused mail. Five refused cycles, some minutes of a mail server's Monday
  morning, and it stays PENDING for good, against the head comment of
  `notification_service`.
- `NeverLocked`: a request that raises ends a workflow without counting a login
  failure (workflow_service 284-288), although the target may have refused the
  login, and counted it, before its answer or that of a later step timed out.
  With a wrong password at such a target the monitor logs in at every check and
  retry and reaches the limit of ten that "stopping at 3 leaves a wide margin"
  to (workflow_service 73-75). `LoginsWithinLimit` is about the refusals the
  monitor hears of.

The others below were met while modelling. The models contain them: the
properties are stated so that they hold of the code as it is.

Outages and incidents:

- `check_missed_heartbeats` opens an incident only in the scan that moves the
  status to DOWN (services/server_service.py:645). In a blind cycle the status
  moves and no incident opens; later cycles find it DOWN already. The same
  holds for a server that was AGENT_DOWN when its applications failed too.
- The gap that makes a cycle blind runs from the start of one cycle to the start
  of the next (health_checker.py:118). A cycle longer than four polls, and three
  applications that time out at their default settings are enough, makes its
  successor blind although the worker never stopped; what a blind cycle checked
  stays due, so the next one may be slow as well. `QuickCyclesSee` says when
  this cannot happen.
- A resource incident opened by a warning notifies nobody when it becomes
  critical (server_service 311-325), which `tests/test_servers.py:103` ("a
  critical breach must notify") does not cover; one opened by a warning in
  silence still sends a RECOVERY.
- A heartbeat in which no metric could be collected counts as clear, and three
  of them close a RESOURCE incident, against the docstring at server_service
  283-284.
- `set_expected_components` does not re-evaluate anything itself; the recheck
  after a reboot counts one heartbeat as two observations; a discovery that
  failed reports its components as missing.
- An expected process that runs is reported MISSING, and an incident opened,
  once 150 bigger or scripted processes crowd it out of the agent's list
  (agent.py 345-351). `RunningIsSeen` says exactly when.
- A diagnosis takes an empty port list for knowledge ("the answer is no",
  diagnose_service 206-207), while the agent sends the same empty list when it
  could not read its sockets, and hides the owner it may not see. It also asks
  the stored status, which stays UP for the one and a half to three intervals
  in which the dashboard says STALE.
- A heartbeat replayed from the agent's queue carries the time it was collected,
  so the hub takes the wait in the queue for clock skew and distrusts a right
  clock until the next live heartbeat (`SkewIsClockAndQueue`).
- `models/application.py:43` says a CRITICAL application raises the floor of its
  alerts; only what is HIGH already is raised (alert_policy 71-74).

- A user may reopen an incident while a newer one is open, against
  `docs/database.md:34` ("Only one `OPEN` incident is allowed per application at
  a time"); both close on the next two successes (`RecoveryClosesAll`).
- Post-restart checks open incidents in a blind cycle, against the comment at
  health_checker.py:144.
- A heartbeat that loads the status just before the worker writes DOWN ends with
  an UP server whose incident stays open until its next outage.
- A success in a maintenance window or a blind cycle does not break a row of
  failures.

Mail:

- The digest, and the rows waiting for it, ignore that alerts are switched off.
- A RECOVERY row that is delivered after its incident was reopened sets
  `recovery_notification_sent` again (notification_service 467), and the second
  recovery stays unannounced, although the reopening clears the flag to "allow the
  recovery email to fire again" (incident_service 48).
- The retry mails a row from a list read once and marks it sent, also where
  another thread has settled or is sending it; `RepeatsAreRaces` and
  `CopiesBounded` say how far that goes.
- A stop between the commit of an ESCALATION row and the stamp on its incident
  (notification_service 427-432) escalates the incident a second time.
- The watchdog records a stall as reported although its mail was refused, and
  stays silent for as long as the stall lasts.
- A queued row whose incident was purged first is mailed, raises on
  `notification.incident`, is rolled back and mailed again every cycle, and the
  rest of the batch with it waits until the row is purged too. It takes an outage
  and a wait longer than `retention_incidents_days` together. A wait longer than
  `retention_notifications_days` purges the mail before it was ever sent.
  `HeldMailGoesOnce` shows that nothing shorter does either.
- An unset retention setting purges by default, where the docstring says it
  keeps for ever (retention_service 12-13 and 44-49).

Checks:

- The steps of a workflow edited alone are stored without validation, although
  `validate_workflow` "runs before anything is stored" (workflow_service
  102-103); url, server or port edited alone are judged as if the type were
  HTTP, so that a TCP port of 70000 passes beside a good url, and a DSN is
  refused. FILE and LOG have probes and a validator nobody calls, and cannot be
  chosen. A null interval in an edit is answered with an error after the edit was
  stored.
- The setting "08:00-08:00" is one minute of support a day, not all of it.
- A diagnosis reads the whole body and tries one address, the check reads it only
  for a text and tries all; it sets the process-wide socket timeout meanwhile.
  `_failure(0.0, ...)` reports the machine's uptime as a response time.
- A share that cannot be reached is a file that "does not exist"; a bad log
  pattern is DOWN although the comment at file_check_service 139 calls it the
  monitor's fault; a workflow without steps is DOWN.
- A page that breaks after the login counts as a login failure and pauses the
  workflow. Each application and each process counts for itself, and a restart
  forgets the count: four runners behind one login can pass the limit of ten the
  cooldown is sized for. `LoginsWithinLimit` says how many refusals there may be,
  `LostSessionIsNoOutage` assumes that they are few. A step that is not
  marked as the login has no limit at all. A session whose loss shows only in a
  text that must be absent is an outage until it has idled out.
- MTTD is always zero: `open_incident` stores one time as start and detection.
  A check that could not run counts against availability, and an application
  without any check in the window has no line, not one of 0%. The mean downtime
  divides the downtime of closed incidents by all of them.

Agent and administration:

- A torn queue file stops the agent's service at every start (the exception is
  caught, so the service manager sees an orderly stop), and leaves the account
  of its backlog as it was; a file that cannot be opened looks like no backlog.
- Rollback copies are pruned in the order of their text (0.10.0 before 0.9.0),
  and a version number that was kept once is never copied again.
- An enrolment whose answer is lost leaves the agent refused until it is enrolled
  again.
- An inventory request that fails between its commits records its changes twice;
  changes past 40 in a category are never recorded, nor what is found after an
  empty snapshot, nor a program whose name ends like that of a per-user service; a
  failed discovery records the removal of everything.
- Two overlapping edits take one version number and only the first version with
  it can be restored. Switching and deleting are not versioned.

## Fairness

- `IncidentLifecycle`: weak fairness of each application's check. The scheduler
  runs a cycle every poll interval and a cycle checks what is due. This takes
  for granted that blind cycles end: `StatusSettles` of `MonitoringCycle` says
  when they do, `QuickCyclesSee` of `Watchdog` how quick they must be. Users,
  windows and heartbeats owe nothing.
- `NotificationDelivery`: a quiet day ends, the digest hour comes, a thread that
  does not stop goes on with the row or the list it has in hand. The beginning of
  a retry and the digest are strongly fair, since quiet days and changes of the
  switch disable them again and again while the worker tries twice a minute.
- `ConcurrentChecks`: a check that began goes on unless its process crashes,
  the worker's cycles recur; web users owe nothing. Crashes are bounded, or
  nothing could be promised.
- `ServerReachability`: sighted cycles recur and a scan does not fail at the
  same commit every time; a heartbeat need not come or complete, except that
  its last step follows when the request is not abandoned.
- `AgentQueue`: the loop runs on, and a stopped service is started again.
- `MonitoringCycle`: polls pass, a free worker starts a cycle, a cycle that is
  not abandoned goes on. Whether cycles are late, checks raise or users check by
  hand is open; `StatusSettles` asks that these end, since a user who keeps
  checking the healthy applications by hand keeps them from coming due and so
  keeps the monitor blind to the others.
- `Watchdog`: the same, in polls; a cycle's length is open. The watchdog runs
  every ten minutes, and while it keeps finding the same a write of its state
  file succeeds in the end.
- `ServerConditions`: none; `ProblemsTracked` is about what a heartbeat finds,
  not about heartbeats coming.
- `WorkflowSession`: time passes and the worker checks; a user's check by hand
  owes nothing.
- `AgentCollect`: heartbeats and samples recur, a scan that is not stopped goes
  on. `AgentInstall`: a stopped service is started, the loop turns, operators
  restore what does not work. `Certificates`: checks recur;
  that not every read due of the certificate fails is a premise of
  `CertificateFollows`.
- `Versions`, `Probes`, `Retention`, `Inventory`: none.

## Proofs

`IncidentLifecycle_proofs` proves for all applications, servers, dependencies,
scopes, results and thresholds, from the named assumptions of
`IncidentLifecycle` (a host is a server or `NoServer`, dependencies are
applications, results are among the four, the threshold is positive, the bound
is a natural number):

- `TypeCorrect`: `TypeOK` is invariant.
- `DuplicatesOnlyByReopening`, `RecoveryCloses`: the two invariants of
  `lifecycle_one`.
- `OneIncidentPerOutage`, `BlipsNeverAlert`: its two action properties.

None of the invariants is inductive alone. `RecoveredMeansClosed` needs that a
success closes *all that was not reopened*, while the code closes only the
newest open row: that suffices because every older open row was reopened
(`OlderOpenReopened`, stronger than `DuplicateOnlyByReopen` in that it speaks
of every row older than the newest). `NewIncidentIsNewOutage` needs to know why
a newest row is closed: by a user, or because the application answered since it
started (`ClosedByRecovery`). `NoAlertOnABlip` needs that a heeded success left
the streak at zero (`SuccessClearsStreak`). `Sound`
is the conjunction of these four; one lemma per kind of step shows that
`TypeOK /\ Sound` is preserved, `Inductive` puts them together, and the theorems
follow, the action properties with `OnlyChecksOpen`: only `CheckOpensIncident`
adds a row.

`NotificationDelivery_proofs` proves of the alert policy, for any settings
whatever and every minute: `WorseIsNeverQuieter`, `HoursLeaveNoMinuteOut` and
`OnCallHearsAtOnce`. The first needs only that an unknown action or minimum
counts as its default (`Known`): the order of the routes is then lost by
holding back alone, which holds back the lesser severity whenever it holds back
the worse.

Of the delivery itself it proves, for any incidents, routes, number of retries, of
rows and of faults (assumed: server incidents are incidents, at least one route is
in use, retries are positive, the bounds are natural numbers). Each action is first
reduced to what it does to rows, mails, columns and the worker's lists (`Effects`):
rows keep whom and what they are about or grow by one, a row that turns to sent
was mailed, an incident is flagged only with its DOWN row.
- `TypeCorrect`: `TypeOK` is invariant.
- `EscalationsFollowAlerts`: `EscalationFollowsAlert`. Not inductive: nothing in
  a row says that the incident was announced. `Announced` adds that what reads SENT
  was mailed, that an incident flagged as notified has a mailed DOWN row, also
  after it closed and reopened, and that only such incidents are on the list of
  escalations. `EscalatesOnce` adds where the worker is with an incident: on the
  list, between the row and the stamp, or stamped; without a stop in between an
  incident with a row never comes back on the list.
- `WhatIsHeldBack`: `MailHeldBack`, path by path. A first attempt, a digest and an
  escalation look at the calendar themselves; only a list begun before does not.
- `RepeatsAreOnlyRaces`: `RepeatsAreRaces`. Not a matter of the query's filter,
  since the list is read long before its last row is mailed: `InOneHand` says that
  a row that is not `loose` is PENDING and on no list while its first attempt is to
  come, and still queued while it is on the worker's list.

`ConcurrentChecks_proofs`, for any finite set of processes and any bounds:
- `OneOpenForEach`: `OneOpenPerProcess`. The check of a process looks for an
  open incident and inserts one several steps later, so the invariant must say
  what each process still knows at each place of its path (`Doing`): at the
  insertion, that no open incident is its own, because only it inserts under its
  name; at the announcement, that its row's key is free. `OthersGoOn` shows that
  a step of one process leaves true what the others know. `Room` (the incidents
  and the processes about to insert one fit under the bound) makes the model's
  bound on incidents harmless: it is spent when a check begins.
- `CopiesLimited`: `CopiesBounded`, from `CopiesAccounted`: the copies mailed,
  the one the writer is about to send and those the worker's retry may still
  send come to at most one per process concerned and one per crash. A crash
  between the mail and the mark is what the crashes account for.

`ServerReachability_proofs`: `TypeCorrect`, and `DuplicatesOnlyByReopening`
(`OneOpenUnlessReopened`), by the invariant `OlderOpenReopened`: every open row
older than the newest was reopened by a user, wherever the heartbeat's request
or the scan was cut off.

`ServerConditions_proofs`: `Debounced`, that is `ImplementsDebounce`: the whole
refinement, for both kinds at once and for any measurements, discoveries and
watchlists (assumed: thresholds and percentages are numbers, the empty watchlist
is one). `Counting` (`CountersTyped` and `OneRunAtATime`: of the two streaks of
a kind one is zero) makes the mapping `run` well defined. `NextStep` reduces
every action to what it does to one kind; `MappedJudgement` shows that a
judgement is an observation of the abstract debouncer, `MappedStep` that
everything else stutters, resolves or reopens there.

`AgentQueue_proofs`: `NoEvidenceLost` (`EvidenceKept`), for any cap and any number of
heartbeats and crashes. `EvidenceKept` is not inductive where the flush holds part
of the file in memory: `Kept` adds that what is no longer in `rest` was recorded or
is too old (`Flushed`) and that what is in hand has been collected (`InHandFits`).
`ReplayedInOrder` (`InOrder`) is proved beside it: parts, tails and trimmed queues of
an increasing queue are increasing, and what the loop appends is newer. From it
`OldOnesFirst` shows that the entries too old to send are always a prefix, so that
`StartFlush`, which drops a prefix, is enabled whatever the clock says. The end of
that prefix is found by a least counterexample (`LeastOf`, from the library's
`WFMin`): the form of induction over the numbers the prover can use here.

`WorkflowSession_proofs`, for any finite set of runners, any number of restarts and
of unheard refusals, and any limits, with pauses no shorter than the target's memory
(`TicksAssumption`: 900 and 300 seconds):
- `RefusalsAreFew`: `LoginsWithinLimit`. Not inductive: that the target
  remembers few refusals says nothing of the next. `Margin` adds that while the
  password is wrong, those of the last `a` ticks that were heard are at most
  `Blamed(a)`, for every `a`: each runner answers for those it counts now, for
  `MAX_LOGIN_FAILURES` if its pause began within these ticks, and each restart for
  as many (`InTrouble`). So the account grows only with what a runner counts, and
  time takes from a runner's share only what the target forgets too
  (`Window <= Cooldown`). `Margin` also says that a runner with a session neither
  counts nor pauses (`SessionsClean`). What goes unheard no runner counts: hence
  `NeverLocked` is not a theorem, and its run finds ten of them.
- `LostSessionsAreHidden`: `LostSessionIsNoOutage`, since the fresh login that
  replaces a lost session is not refused where the refusals are few for the limit
  and none went unheard.

The sums are over ticks and over runners. `Heard` is therefore written with the
recursive function `Total`, and a sum over runners as one over a numbering of them
(`Order`); `Inductive`, once more from `WFMin`, gives what is needed of sums:
`TotalBounded`, `TotalMonotone`, `TotalShifted`, and `SumGrows` for one
runner's share.

`Services_proofs`, for the other components of `Services`, each theorem under the
component's own specification:
- `LinksAreRemembered` (any volumes, links and length of retention): the history
  is exactly as old as the last folded sample that held the link, or that is
  longer ago than it is kept (`HistoryFollows`).
- `MailGoesOnce` (any natural settings and bounds): a mail that waits for its first
  copy is no older than the wait (`Waiting`), its incident older than it by an
  outage at most where incidents are kept for so long (`IncidentThere`), and a second
  copy needs a mail that could not be marked (`Copies`).
- `RowsTellTheInventory` (any items, states and cap): while a request is between its
  commits the rows add up to what it brought, otherwise to what is stored
  (`RowsAddUp`).
- `DiagnosisFollowsTheCheck` (any applications and targets whose first address
  in sorted order is one of its addresses): a fact about `Attempt` and `Chain`,
  shown for ports (`TcpAgrees`) and pages (`HttpAgrees`). No bound on times is
  needed: `Comparable` says all that matters of them.
- `ReplacedCanBeRestored` (any requests, values and forms): `UndoIsPossible`,
  from `EditsSound`: version numbers leave no gap, so that the next one is
  free, and a request nobody overlapped still finds the row as it read it and
  its version the first of its number.
- `HoldSideBySide`: all of these, and those of `WorkflowSession`, in the composition
  `Services` itself, which implements each component's specification
  (`EachPartAlone`).

TLC checked each of these inductive invariants on the small instances before it
was proved. Three definitions are written so that the prover can follow them, and
say what the code says all the same: `Total` is a recursive function,
`StartFlush` finds how many entries at the front of the file are too old (they
are the first, by `InOrder`), and `CreateRow` gives the new table as one
function.

Only model-checked: all liveness, that is, every property of `Watchdog`,
`MonitoringCycle`, `AgentInstall` and `Certificates` and those with fairness in
the other modules (the prover has neither ENABLED nor induction over
behaviours); and what `MCServices` evaluates of `Capacity`, `Reports`,
`ApplicationForm` and `HostView`. Every safety property of a passing run is a
theorem.

## Not modelled

Users, roles, LDAP, the audit log and the login itself guard who may call an
operation and change nothing the monitoring logic reads. The agent's collectors
that read one figure each (programs, tasks, containers, disk counters, hardware,
web sites, interfaces) are I/O; so are the protocols under the probes, whose
outcomes `Probes` enumerates. The frontend, the SQL scripts, the exports, the
generated documents, the load test and the installers are presentation and
deployment. `client-installer/agent.py` and `frontend/downloads/agent.py` equal
`agent-poc/agent.py`. The cap of 40 database links is taken as not reached, and
the hub's limit of heartbeats per minute as not met by a draining queue.

## Plan

1. Proofs: type correctness of `MonitoringCycle` and `Watchdog`; of the operators,
   that what `ApplicationForm` accepts can be checked and `HostView`'s answers are
   facts, for every input.
2. The streak's lost updates: `ConcurrentChecks` with `failure_streak` read,
   incremented and written back by two processes.
3. A switch-off or a deletion between the measurement and the judgement of
   `MonitoringCycle`.
