-------------------------- MODULE WorkflowSession --------------------------
(***************************************************************************)
(* Synthetic workflows (run_workflow): a monitoring account logs in to an  *)
(* application and clicks through a transaction. The session is kept and   *)
(* reused, because logging in at every check would run into the target's   *)
(* limit on failed logins; a failure therefore has to be told apart: the   *)
(* application is broken, the session is gone, the password is wrong.      *)
(*                                                                         *)
(* A runner is one process that checks one application: sessions, counts   *)
(* of failed logins and pauses are kept in its memory, while the target    *)
(* counts failed logins from all of them. An attempt, with the second run  *)
(* it may need, is one step; the retries of a check are further attempts.  *)
(***************************************************************************)
EXTENDS FiniteSets, Integers

CONSTANTS
  Runners,           \* pairs of a process and an application, same target
  Worker,            \* those in the worker, which checks again and again
  MaxLoginFailures,  \* MAX_LOGIN_FAILURES
  MaxIdle,           \* SESSION_MAX_IDLE_SECONDS, in ticks
  Cooldown,          \* LOGIN_COOLDOWN_SECONDS, in ticks
  Window,            \* the ticks for which the target remembers failed logins
  Limit,             \* how many it takes before it refuses them all
  MaxRestarts,       \* bound on restarts of a process
  MaxUnheard         \* bound on refusals within the window that go unheard

ASSUME RunnersAssumption == IsFiniteSet(Runners) /\ Worker \subseteq Runners
\* No pause is shorter than the target's memory: 900 and 300 seconds.
ASSUME TicksAssumption ==
  /\ {MaxIdle, Cooldown, Window, Limit, MaxRestarts, MaxLoginFailures, MaxUnheard}
       \subseteq Nat
  /\ MaxLoginFailures > 0 /\ Window > 0 /\ Window <= Cooldown

VARIABLES
  marked,    \* the workflow marks its login step ("login": true)
  spotted,   \* its steps notice a lost session by a status or a missing text
  world,     \* what an attempt meets at the target
  rejected,  \* failed logins the target counted, newest tick first: those
             \* whose refusal the runner heard,
  unheard,   \* and those whose answer, or that of a later step, never came
  session,   \* of each runner
  failures,  \* failed logins in a row, as the runner counts them
  pause,     \* ticks left before it may log in again
  result,    \* of its last attempt
  restarts   \* since the password last went wrong

workflowVars == <<marked, spotted, world, rejected, unheard, session, failures, pause, result, restarts>>

\* idle: ticks since last_used. valid: the target still knows it.
Session == [idle : 0 .. MaxIdle + 1, valid : BOOLEAN]
NoSession == [idle |-> 0]

\* f[1] + ... + f[n]
Total(f, n) ==
  LET sum[i \in 0 .. n] == IF i = 0 THEN 0 ELSE sum[i - 1] + f[i] IN sum[n]

Heard == Total(rejected, Window)
Unheard == Total(unheard, Window)
Locked == Heard + Unheard >= Limit

TypeOK ==
  /\ {marked, spotted} \subseteq BOOLEAN
  /\ world \in {"fine", "broken page", "wrong password", "unreachable"}
  /\ {rejected, unheard} \subseteq [1 .. Window -> 0 .. Limit]
  /\ session \in [Runners -> Session \cup {NoSession}]
  /\ failures \in [Runners -> 0 .. MaxLoginFailures - 1]
  /\ pause \in [Runners -> 0 .. Cooldown]
  /\ result \in [Runners -> {"none", "ok", "failed", "paused"}]
  /\ restarts \in 0 .. MaxRestarts

-----------------------------------------------------------------------------
(* One attempt of runner r, by what it leaves behind.                      *)

\* _session_for: only where a login step would be skipped, and never idle
\* past the limit.
Reusing(r) == marked /\ session[r] # NoSession /\ session[r].idle <= MaxIdle

\* What became of the session when the attempt does not keep it.
Forget(r) == session' = [session EXCEPT ![r] = NoSession]

Succeed(r) ==
  /\ IF marked THEN session' = [session EXCEPT ![r] = [idle |-> 0, valid |-> TRUE]]
     ELSE UNCHANGED session
  /\ failures' = [failures EXCEPT ![r] = 0]
  /\ pause' = [pause EXCEPT ![r] = 0]
  /\ result' = [result EXCEPT ![r] = "ok"]
  /\ UNCHANGED rejected

\* Mutant: failures are counted in the run that starts the pause only.
NoteLoginFailure_Forgotten(r) ==
  /\ failures' = [failures EXCEPT ![r] = (@ + 1) % MaxLoginFailures]
  /\ UNCHANGED pause

\* Any failure of a run that logged in counts, whichever step it was.
NoteLoginFailure(r) ==
  IF ~marked THEN UNCHANGED <<failures, pause>>
  ELSE IF failures[r] + 1 < MaxLoginFailures
  THEN failures' = [failures EXCEPT ![r] = @ + 1] /\ UNCHANGED pause
  ELSE /\ failures' = [failures EXCEPT ![r] = 0]
       /\ pause' = [pause EXCEPT ![r] = Cooldown]

Fail(r) == result' = [result EXCEPT ![r] = "failed"]

\* A run with a login of its own.
FreshRun(r) ==
  \/ world = "fine" /\ ~Locked /\ Succeed(r)
  \/ /\ world = "broken page" /\ ~Locked
     /\ Fail(r) /\ NoteLoginFailure(r) /\ Forget(r) /\ UNCHANGED rejected
  \/ /\ world # "unreachable" /\ (Locked \/ world = "wrong password")
     /\ rejected' = [rejected EXCEPT ![1] = IF Locked THEN @ ELSE @ + 1]
     /\ Fail(r) /\ NoteLoginFailure(r) /\ Forget(r)

\* run_workflow returns before it sends anything.
AttemptPaused(r) ==
  /\ pause[r] > 0
  /\ result' = [result EXCEPT ![r] = "paused"]
  /\ UNCHANGED <<marked, spotted, world, rejected, unheard, session, failures, pause, restarts>>

AttemptFresh(r) ==
  /\ pause[r] = 0 /\ ~Reusing(r)
  /\ FreshRun(r)
  /\ UNCHANGED <<marked, spotted, world, unheard, restarts>>

\* The steps it runs include a login, in a second run at the latest.
LogsIn(r) == Reusing(r) => spotted /\ ~session[r].valid

\* A request raises, at the target or on the way: the run ends there and no
\* failed login is noted, even where the target refused one and counted it
\* before its answer, or that of a later step, was given up.
AttemptBreaksOff(r) ==
  /\ pause[r] = 0 /\ world # "fine"
  /\ \/ UNCHANGED unheard
     \/ /\ world = "wrong password" /\ LogsIn(r) /\ ~Locked /\ Unheard < MaxUnheard
        /\ unheard' = [unheard EXCEPT ![1] = @ + 1]
  /\ Forget(r) /\ Fail(r)
  /\ UNCHANGED <<marked, spotted, world, rejected, failures, pause, restarts>>

\* A session outlives the password it was opened with.
AttemptReusing(r) ==
  /\ pause[r] = 0 /\ Reusing(r)
  /\ session[r].valid /\ world \in {"fine", "wrong password"}
  /\ Succeed(r)
  /\ UNCHANGED <<marked, spotted, world, unheard, restarts>>

\* Mutant: the failure of the reused session is the result.
AttemptSessionLost_Final(r) ==
  /\ pause[r] = 0 /\ Reusing(r) /\ world # "unreachable"
  /\ IF session[r].valid THEN world = "broken page" ELSE spotted
  /\ Forget(r) /\ Fail(r)
  /\ UNCHANGED <<marked, spotted, world, rejected, unheard, failures, pause, restarts>>

\* The answer looks like a lost session - an error page with the word "login"
\* does too: log in and run again, and judge on that.
AttemptSessionLost(r) ==
  /\ pause[r] = 0 /\ Reusing(r) /\ world # "unreachable"
  /\ IF session[r].valid THEN world = "broken page" ELSE spotted
  /\ FreshRun(r)
  /\ UNCHANGED <<marked, spotted, world, unheard, restarts>>

\* Mutant: the kept session counts as used.
AttemptKeepsSession_Used(r) ==
  /\ pause[r] = 0 /\ Reusing(r) /\ world # "unreachable"
  /\ IF session[r].valid THEN world = "broken page" ELSE ~spotted
  /\ Fail(r)
  /\ session' = [session EXCEPT ![r].idle = 0]
  /\ UNCHANGED <<marked, spotted, world, rejected, unheard, failures, pause, restarts>>

\* A failure that does not look like one, which that of expect_absent never
\* does: the session is kept, not counted as used.
AttemptKeepsSession(r) ==
  /\ pause[r] = 0 /\ Reusing(r) /\ world # "unreachable"
  /\ IF session[r].valid THEN world = "broken page" ELSE ~spotted
  /\ Fail(r)
  /\ UNCHANGED <<marked, spotted, world, rejected, unheard, session, failures, pause, restarts>>

Attempt(r) ==
  \/ AttemptPaused(r) \/ AttemptBreaksOff(r) \/ AttemptFresh(r)
  \/ AttemptReusing(r) \/ AttemptSessionLost(r) \/ AttemptKeepsSession(r)

-----------------------------------------------------------------------------
(* The processes, the target and time.                                     *)

\* _SESSIONS is lost with the process.
Restart(r) ==
  /\ restarts < MaxRestarts
  /\ restarts' = restarts + 1
  /\ Forget(r)
  /\ failures' = [failures EXCEPT ![r] = 0]
  /\ pause' = [pause EXCEPT ![r] = 0]
  /\ UNCHANGED <<marked, spotted, world, rejected, unheard, result>>

\* The target restarts or ends its sessions.
TargetDropsSessions ==
  /\ session' = [r \in Runners |->
       IF session[r] = NoSession THEN NoSession ELSE [session[r] EXCEPT !.valid = FALSE]]
  /\ UNCHANGED <<marked, spotted, world, rejected, unheard, failures, pause, result, restarts>>

\* Bound: the password goes wrong anew only where the target has forgotten the
\* failures it told of.
WorldChanges ==
  /\ world' \in {"fine", "broken page", "wrong password", "unreachable"} \ {world}
  /\ IF world' = "wrong password" THEN Heard = 0 /\ restarts' = 0 ELSE UNCHANGED restarts
  /\ UNCHANGED <<marked, spotted, rejected, unheard, session, failures, pause, result>>

Older(counts) == [t \in 1 .. Window |-> IF t = 1 THEN 0 ELSE counts[t - 1]]

PassTime ==
  /\ rejected' = Older(rejected) /\ unheard' = Older(unheard)
  /\ session' = [r \in Runners |->
       IF session[r] = NoSession THEN NoSession
       ELSE [session[r] EXCEPT !.idle = IF @ > MaxIdle THEN @ ELSE @ + 1]]
  /\ pause' = [r \in Runners |-> IF pause[r] = 0 THEN 0 ELSE pause[r] - 1]
  /\ UNCHANGED <<marked, spotted, world, failures, result, restarts>>

-----------------------------------------------------------------------------
WorkflowInit ==
  /\ marked \in BOOLEAN /\ spotted \in BOOLEAN
  /\ world = "fine"
  /\ rejected = [t \in 1 .. Window |-> 0] /\ unheard = rejected
  /\ session = [r \in Runners |-> NoSession]
  /\ failures = [r \in Runners |-> 0]
  /\ pause = [r \in Runners |-> 0]
  /\ result = [r \in Runners |-> "none"]
  /\ restarts = 0

WorkflowNext ==
  \/ \E r \in Runners : Attempt(r) \/ Restart(r)
  \/ TargetDropsSessions \/ WorldChanges \/ PassTime

WorkflowSpec == WorkflowInit /\ [][WorkflowNext]_workflowVars

-----------------------------------------------------------------------------
(* Properties.                                                             *)

\* With the login step marked, the target never remembers more refusals that
\* the monitor was told of than three for each runner, and three for each
\* restart since the password went wrong, which forgets what was counted.
\* (workflow_service 74-78, 176-193)
LoginsWithinLimit ==
  marked => Heard <= MaxLoginFailures * (Cardinality(Runners) + restarts)

\* Where the steps notice it, a session the target dropped is not reported as
\* an outage: while all is well an attempt fails only by a pause, or after a
\* refusal that never reached the monitor, as long as the runners and their
\* restarts are few for the target's limit. (workflow_service 272-285)
LostSessionIsNoOutage ==
  [][\A r \in Runners :
       Attempt(r) /\ world = "fine" /\ spotted /\ marked /\ pause[r] = 0
         /\ Unheard = 0
         /\ MaxLoginFailures * (Cardinality(Runners) + restarts) < Limit
         => result'[r] = "ok"]_workflowVars

\* Once all is well again the worker's checks succeed again, whatever counts,
\* pauses and dead sessions the trouble left behind, noticed or not.
\* (workflow_service 149-193, 292-302)
WorkflowRecovers ==
  <>[](world = "fine") => \A r \in Worker : []<>(result[r] = "ok")

\* What the code says of its margin, and what it does not keep: that stopping
\* after three failed logins never gets the monitor locked out. A target that
\* refuses logins, and whose answers come too late, is asked again and again.
\* (workflow_service 73-75, 284-288)
NeverLocked == marked => ~Locked
=============================================================================
