------------------------------ MODULE Watchdog ------------------------------
(***************************************************************************)
(* Who watches the monitor? Every cycle of the worker stamps the time it   *)
(* began in the database (_record_cycle). Two readers compare the stamp    *)
(* with the clock: the next cycle, which takes a large gap for its own     *)
(* absence and then believes nothing it sees, and the watchdog, a script   *)
(* that the Task Scheduler runs apart from the platform and that mails     *)
(* when the stamp is old, the database unreadable or the web application   *)
(* silent. Time is counted in polls of the worker's scheduler.             *)
(*                                                                         *)
(* A suspended machine is one whose cycle takes long. What a cycle does    *)
(* between beginning and stamping is MonitoringCycle's.                    *)
(***************************************************************************)
EXTENDS Integers

CONSTANTS
  StallAfter,  \* BLIND_GAP_MULTIPLIER
  MaxAge       \* WATCHDOG_MAX_CYCLE_AGE_SECONDS, in polls

VARIABLES
  stamp,     \* age of last_monitoring_cycle_at, saturating; or Never
  worker,    \* where the worker is, for how long in its cycle, and its verdict
  database,  \* the database can be reached
  web,       \* /api/health answers
  mail,      \* the mail server accepts what the watchdog sends
  reported,  \* "failing" in the watchdog's state file
  told       \* what its last delivered mail said; "well" before the first

vars == <<stamp, worker, database, web, mail, reported, told>>
world == <<database, web, mail>>
watchdog == <<reported, told>>

Never == -1
\* The largest age anything is compared with, and one more.
Horizon == 1 + IF StallAfter > MaxAge THEN StallAfter ELSE MaxAge
Older(n) == IF n \in {Never, Horizon} THEN n ELSE n + 1

TypeOK ==
  /\ stamp \in Never .. Horizon
  /\ worker \in [at : {"stopped", "idle", "ready", "checking", "recorded"},
                 took : 0 .. Horizon, stalled : BOOLEAN]
  /\ database \in BOOLEAN /\ web \in BOOLEAN /\ mail \in BOOLEAN
  /\ reported \in BOOLEAN
  /\ told \in {"well", "down"}

-----------------------------------------------------------------------------
(* The worker: monitor.py, scheduler.py, run_monitoring_cycle.             *)

\* The first cycle runs at once.
StartWorker ==
  /\ worker.at = "stopped"
  /\ worker' = [at |-> "ready", took |-> 0, stalled |-> FALSE]
  /\ UNCHANGED <<stamp, world, watchdog>>

StopWorker ==
  /\ worker.at # "stopped"
  /\ worker' = [at |-> "stopped", took |-> 0, stalled |-> FALSE]
  /\ UNCHANGED <<stamp, world, watchdog>>

StartCycle ==
  /\ worker.at = "ready"
  /\ database
  /\ worker' = [at |-> "checking", took |-> 0, stalled |-> stamp > StallAfter]
  /\ UNCHANGED <<stamp, world, watchdog>>

\* The applications cannot be queried: the cycle returns, and stamps nothing.
SkipCycle ==
  /\ worker.at = "ready"
  /\ ~database
  /\ worker' = [worker EXCEPT !.at = "idle"]
  /\ UNCHANGED <<stamp, world, watchdog>>

\* Mutant: a blind cycle is not worth a stamp.
RecordCycle_Seen ==
  /\ worker.at = "checking"
  /\ stamp' = IF database /\ ~worker.stalled THEN worker.took ELSE stamp
  /\ worker' = [worker EXCEPT !.at = "recorded"]
  /\ UNCHANGED <<world, watchdog>>

\* The time of the beginning is stamped, blind or not; a failure is logged.
RecordCycle ==
  /\ worker.at = "checking"
  /\ stamp' = IF database THEN worker.took ELSE stamp
  /\ worker' = [worker EXCEPT !.at = "recorded"]
  /\ UNCHANGED <<world, watchdog>>

\* After the restart checks, readings, purge, retries, digest and escalations.
EndCycle ==
  /\ worker.at = "recorded"
  /\ worker' = [worker EXCEPT !.at = "idle", !.took = 0]
  /\ UNCHANGED <<stamp, world, watchdog>>

\* The trigger fires, unless a cycle still runs: max_instances is 1.
PollPasses ==
  /\ worker.at # "ready"
  /\ stamp' = Older(stamp)
  /\ worker' = CASE worker.at = "stopped" -> worker
                 [] worker.at = "idle" -> [worker EXCEPT !.at = "ready"]
                 [] OTHER -> [worker EXCEPT !.took = Older(@)]
  /\ UNCHANGED <<world, watchdog>>

-----------------------------------------------------------------------------
(* The watchdog: main of watchdog.py.                                      *)

\* Mutant: a cycle that never recorded a run is no news.
Healthy_NeverIsFine == web /\ database /\ stamp <= MaxAge

\* Mutant: the limit of the next cycle instead of the watchdog's own.
Healthy_CycleLimit == web /\ database /\ stamp # Never /\ stamp <= StallAfter

Healthy == web /\ database /\ stamp # Never /\ stamp <= MaxAge

\* Whether the mail was accepted is not looked at. A state file that cannot be
\* written stays as it is.
FindFailure(saved) ==
  /\ ~Healthy
  /\ told' = IF ~reported /\ mail THEN "down" ELSE told
  /\ reported' = (reported \/ saved)
  /\ UNCHANGED <<stamp, worker, world>>

FindAllWell(saved) ==
  /\ Healthy
  /\ told' = IF reported /\ mail THEN "well" ELSE told
  /\ reported' = (reported /\ ~saved)
  /\ UNCHANGED <<stamp, worker, world>>

\* The file is in the directory for temporary files; one that was half written
\* counts as none.
LoseState ==
  /\ reported' = FALSE
  /\ UNCHANGED <<stamp, worker, world, told>>

WorldChanges ==
  /\ database' \in BOOLEAN /\ web' \in BOOLEAN /\ mail' \in BOOLEAN
  /\ UNCHANGED <<stamp, worker, watchdog>>

-----------------------------------------------------------------------------
Init ==
  /\ stamp \in {Never, 0}
  /\ worker = [at |-> "stopped", took |-> 0, stalled |-> FALSE]
  /\ database = TRUE /\ web = TRUE /\ mail = TRUE
  /\ reported = FALSE
  /\ told = "well"

Next ==
  \/ StartWorker \/ StopWorker
  \/ StartCycle \/ SkipCycle \/ RecordCycle \/ EndCycle
  \/ PollPasses
  \/ \E saved \in BOOLEAN : FindFailure(saved) \/ FindAllWell(saved)
  \/ LoseState \/ WorldChanges

-----------------------------------------------------------------------------
(* Properties.                                                             *)

Working == worker.at # "stopped" /\ database
Quick == worker.took \in {n \in 0 .. Horizon : n < StallAfter}
NotTooSlow == worker.took \in {n \in 0 .. Horizon : 2 * n < MaxAge}

\* A worker whose cycles, mail included, end within three polls (one less than
\* the limit) comes to see again after any absence: only the first cycle is
\* blind, and it stamps all the same. (health_checker 34-55, 115-118, 162-166)
QuickCyclesSee ==
  <>[](Working /\ Quick) => <>[]~worker.stalled

\* The watchdog cries wolf over no worker whose cycles take less than half its
\* limit: the stamp it reads may be as old as two of them. (watchdog 132-144,
\* 195-237; health_checker 48-55, 105, 163)
NoFalseAlarm ==
  <>[](Working /\ web /\ NotTooSlow) => <>[]~reported

\* Someone is told when the worker stays away, although it may never have run
\* a cycle, unless the mail server refuses, or a trouble already known covers
\* it. (watchdog 102-144, 195-224)
StallTold ==
  (worker.at = "stopped" /\ ~reported)
    ~> (told = "down" \/ worker.at # "stopped" \/ ~mail)
=============================================================================
