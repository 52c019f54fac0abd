-------------------------- MODULE MonitoringCycle --------------------------
(***************************************************************************)
(* The worker's cycle (run_monitoring_cycle): check every application that *)
(* is due, and only then decide whether to believe what was seen. When     *)
(* most targets fail at once, or the cycle comes too late, the monitor     *)
(* takes itself for blind and leaves every application as it was: its      *)
(* status, and the time of its last check, so that it stays due.           *)
(*                                                                         *)
(* A transition is reduced to the status it writes, UP (or DEGRADED) or    *)
(* DOWN (or UNKNOWN); IncidentLifecycle says what follows from it. The     *)
(* scan for missed heartbeats is ServerReachability's, the mail at the end *)
(* of a cycle NotificationDelivery's. A cycle that cannot query the        *)
(* applications does nothing and is left out.                              *)
(***************************************************************************)
EXTENDS Integers, FiniteSets

CONSTANTS
  Apps,        \* enabled applications, none of them in maintenance
  Hosted,      \* those on the one server that restarts
  Interval,    \* monitoring_interval of each, in polls of the scheduler
  MinTargets,  \* BLIND_MINIMUM_TARGETS
  Outages      \* which applications may be failing at the same time

ASSUME AppsAssumption == IsFiniteSet(Apps) /\ Hosted \subseteq Apps
ASSUME IntervalAssumption == Interval \in [Apps -> Nat \ {0}]
ASSUME MinTargetsAssumption == MinTargets \in Nat
ASSUME OutagesAssumption == Outages \subseteq SUBSET Apps /\ {} \in Outages

VARIABLES
  down,      \* the applications whose checks fail now
  age,       \* polls since last_checked_at, up to the interval; never checked is due
  status,    \* current_status
  restarted, \* restart_pending_checks_at is set
  cycle      \* where the worker is in its cycle, with its local variables

vars == <<down, age, status, restarted, cycle>>

\* result[a] is what the cycle knows of a: not to be checked, to be checked, or
\* the outcome that waits to be judged. skipped: a check after a restart raised.
NoResults == [a \in Apps |-> "none"]
Between == [at |-> "idle", stalled |-> FALSE, blind |-> FALSE, skipped |-> FALSE,
            result |-> NoResults]

TypeOK ==
  /\ down \in Outages
  /\ age \in [Apps -> Nat]
  /\ \A a \in Apps : age[a] <= Interval[a]
  /\ status \in [Apps -> {"UP", "DOWN"}]
  /\ restarted \in BOOLEAN
  /\ cycle \in [at : {"idle", "checking", "applying", "scanning", "rechecking"},
                stalled : BOOLEAN, blind : BOOLEAN, skipped : BOOLEAN,
                result : [Apps -> {"none", "due", "ok", "failed"}]]

IsDue(a) == age[a] = Interval[a]
Due == {a \in Apps : cycle.result[a] = "due"}
Failed == {a \in Apps : cycle.result[a] = "failed"}
Checked == Failed \cup {a \in Apps : cycle.result[a] = "ok"}

\* BLIND_FAILURE_RATIO is 0.8.
MassFailure(failed, checked) ==
  /\ Cardinality(checked) >= MinTargets
  /\ 5 * Cardinality(failed) >= 4 * Cardinality(checked)

Outcome(a) == IF a \in down THEN "failed" ELSE "ok"

StatusOf(outcome) == IF outcome = "failed" THEN "DOWN" ELSE "UP"

-----------------------------------------------------------------------------
(* Checking and judging.                                                   *)

\* stalled: the stamp of the last cycle is older than four polls.
StartCycle(stalled) ==
  /\ cycle.at = "idle"
  /\ cycle' = [Between EXCEPT !.at = "checking", !.stalled = stalled,
               !.result = [a \in Apps |-> IF IsDue(a) THEN "due" ELSE "none"]]
  /\ UNCHANGED <<down, age, status, restarted>>

\* run_health_check without its transition.
Measure(a) ==
  /\ cycle.at = "checking"
  /\ a \in Due
  /\ cycle' = [cycle EXCEPT !.result[a] = Outcome(a)]
  /\ UNCHANGED <<down, age, status, restarted>>

\* Mutant: a blind cycle counts as a check.
Judge_SkipsTurn ==
  /\ cycle.at = "checking"
  /\ Due = {}
  /\ LET blind == cycle.stalled \/ MassFailure(Failed, Checked)
     IN /\ cycle' = [cycle EXCEPT !.at = IF blind THEN "scanning" ELSE "applying",
                                  !.stalled = FALSE, !.blind = blind,
                                  !.result = IF blind THEN NoResults ELSE @]
        /\ age' = [a \in Apps |-> IF blind /\ a \in Checked THEN 0 ELSE age[a]]
  /\ UNCHANGED <<down, status, restarted>>

\* A blind cycle forgets its results, the rows of health_checks apart.
Judge ==
  /\ cycle.at = "checking"
  /\ Due = {}
  /\ LET blind == cycle.stalled \/ MassFailure(Failed, Checked)
     IN cycle' = [cycle EXCEPT !.at = IF blind THEN "scanning" ELSE "applying",
                               !.stalled = FALSE, !.blind = blind,
                               !.result = IF blind THEN NoResults ELSE @]
  /\ UNCHANGED <<down, age, status, restarted>>

\* apply_transition_from: last_checked_at is the time of the measurement, some
\* polls ago.
Apply(a) ==
  /\ cycle.at = "applying"
  /\ a \in Checked
  /\ status' = [status EXCEPT ![a] = StatusOf(cycle.result[a])]
  /\ \E since \in 0 .. Interval[a] : age' = [age EXCEPT ![a] = since]
  /\ cycle' = [cycle EXCEPT !.result[a] = "none"]
  /\ UNCHANGED <<down, restarted>>

EndJudging ==
  /\ cycle.at = "applying"
  /\ Checked = {}
  /\ cycle' = [cycle EXCEPT !.at = "scanning"]
  /\ UNCHANGED <<down, age, status, restarted>>

-----------------------------------------------------------------------------
(* _run_post_restart_checks, after the scan and the stamp.                 *)

\* Mutant: a blind cycle does not look at restarted servers, but strikes
\* them off.
StartRechecks_NotWhenBlind ==
  /\ cycle.at = "scanning"
  /\ cycle' = IF restarted /\ ~cycle.blind
              THEN [cycle EXCEPT !.at = "rechecking",
                      !.result = [a \in Apps |-> IF a \in Hosted THEN "due" ELSE "none"]]
              ELSE Between
  /\ restarted' = (restarted /\ ~cycle.blind)
  /\ UNCHANGED <<down, age, status>>

StartRechecks ==
  /\ cycle.at = "scanning"
  /\ cycle' = IF restarted
              THEN [cycle EXCEPT !.at = "rechecking",
                      !.result = [a \in Apps |-> IF a \in Hosted THEN "due" ELSE "none"]]
              ELSE Between
  /\ UNCHANGED <<down, age, status, restarted>>

\* Blind or not, the transition follows at once.
Recheck(a) ==
  /\ cycle.at = "rechecking"
  /\ a \in Due
  /\ status' = [status EXCEPT ![a] = StatusOf(Outcome(a))]
  /\ age' = [age EXCEPT ![a] = 0]
  /\ cycle' = [cycle EXCEPT !.result[a] = "none"]
  /\ UNCHANGED <<down, restarted>>

\* clear_restart_checks, which also clears a restart reported meanwhile.
EndRechecks ==
  /\ cycle.at = "rechecking"
  /\ Due = {}
  /\ restarted' = FALSE
  /\ cycle' = [Between EXCEPT !.skipped = cycle.skipped]
  /\ UNCHANGED <<down, age, status>>

-----------------------------------------------------------------------------
(* Failures, users and the world.                                          *)

\* A check or a transition raises: logged, and on to the next application.
GiveUpOn(a) ==
  /\ \/ cycle.at \in {"checking", "rechecking"} /\ a \in Due
     \/ cycle.at = "applying" /\ a \in Checked
  /\ cycle' = [cycle EXCEPT !.result[a] = "none",
                           !.skipped = @ \/ cycle.at = "rechecking"]
  /\ UNCHANGED <<down, age, status, restarted>>

\* The worker stops; or the restart checks as a whole raise. With nothing left
\* to do that is the cycle's end.
Abandon ==
  /\ cycle.at # "idle"
  /\ cycle.at = "scanning" => restarted
  /\ cycle' = Between
  /\ UNCHANGED <<down, age, status, restarted>>

\* POST /applications/<id>/check, in the web process.
ManualCheck(a) ==
  /\ status' = [status EXCEPT ![a] = StatusOf(Outcome(a))]
  /\ age' = [age EXCEPT ![a] = 0]
  /\ UNCHANGED <<down, restarted, cycle>>

\* A heartbeat with a younger uptime.
ServerRestarts ==
  /\ restarted' = TRUE
  /\ UNCHANGED <<down, age, status, cycle>>

OutageChanges ==
  /\ down' \in Outages \ {down}
  /\ UNCHANGED <<age, status, restarted, cycle>>

PollPasses ==
  /\ age' = [a \in Apps |-> IF IsDue(a) THEN age[a] ELSE age[a] + 1]
  /\ UNCHANGED <<down, status, restarted, cycle>>

-----------------------------------------------------------------------------
Init ==
  /\ down = {}
  /\ age = Interval
  /\ status = [a \in Apps |-> "UP"]
  /\ restarted = FALSE
  /\ cycle = Between

Proceed ==
  \/ \E a \in Apps : Measure(a) \/ Apply(a) \/ Recheck(a)
  \/ Judge \/ EndJudging \/ StartRechecks \/ EndRechecks

Next ==
  \/ \E stalled \in BOOLEAN : StartCycle(stalled)
  \/ Proceed
  \/ \E a \in Apps : GiveUpOn(a) \/ ManualCheck(a)
  \/ Abandon \/ ServerRestarts \/ OutageChanges \/ PollPasses

Spec == Init /\ [][Next]_vars

\* The scheduler starts a cycle at every poll it is free at, and a cycle that
\* is not abandoned goes on to its end.
FairSpec ==
  /\ Spec
  /\ WF_vars(\E stalled \in BOOLEAN : StartCycle(stalled))
  /\ WF_vars(Proceed)
  /\ WF_vars(PollPasses)

-----------------------------------------------------------------------------
(* Properties.                                                             *)

\* Written so that TLC evaluates it as one state predicate.
MostFail == \E failing \in {down} : MassFailure(failing, Apps)
StatusIsTrue == \A a \in Apps : status[a] = StatusOf(Outcome(a))

Disturbance ==
  \/ Abandon \/ OutageChanges \/ ServerRestarts \/ StartCycle(TRUE)
  \/ \E a \in Apps : GiveUpOn(a) \/ ManualCheck(a)

\* When nothing happens any more but timely cycles, every status becomes that
\* of its target and stays so, unless four fifths of all applications fail:
\* a minority whose checks come due by itself, and is taken for blindness, is
\* joined by the others in the end. (health_checker 58-65, 123-152)
StatusSettles ==
  <>[][~Disturbance]_vars => <>[](MostFail \/ StatusIsTrue)

\* What a restart did to the applications of the server is found out although
\* every cycle may be blind; a restart reported while those of an earlier one
\* are looked at is forgotten with it. (health_checker 68-98, 168-172;
\* server_service 583-592)
RestartChecked ==
  <>[][~Abandon]_vars =>
    \A a \in Hosted, outage \in Outages :
      (restarted /\ cycle.at # "rechecking" /\ down = outage)
        ~> (status[a] = StatusOf(Outcome(a)) \/ down # outage \/ cycle.skipped)
=============================================================================
