------------------------------- MODULE Probes -------------------------------
(***************************************************************************)
(* The verdict of one health-check attempt, of whatever type, on a target  *)
(* that behaves in a given way; and the chain of steps by which diagnose   *)
(* explains it to a user, from probes of its own with limits of its own.   *)
(*                                                                         *)
(* Times are seconds. A workflow's verdict is WorkflowSession's; retries   *)
(* and what becomes of a verdict are IncidentLifecycle's.                  *)
(***************************************************************************)
EXTENDS FiniteSetsExt, Integers

CONSTANTS
  Applications,  \* type, timeout, and the texts the page must (not) have
  Targets        \* what an attempt meets, for every type of check

Slow == 3             \* DEGRADED_RESPONSE_MS
ConnectTimeout == 5   \* CONNECT_TIMEOUT_SECONDS of a diagnosis
HttpTimeout == 15     \* HTTP_TIMEOUT_SECONDS

VARIABLES
  application,
  target,
  checked,    \* the status of the last attempt
  diagnosed   \* the chain, a function from step to state

probeVars == <<application, target, checked, diagnosed>>

Passed == {"UP", "DEGRADED"}
Grade(elapsed) == IF elapsed > Slow THEN "DEGRADED" ELSE "UP"

-----------------------------------------------------------------------------
(* Connecting: the addresses of the name in the order they are given.      *)

Accepting == {i \in DOMAIN target.answers : target.answers[i] = "accepts"}
Connects(timeout) == target.resolves /\ Accepting # {} /\ target.connect <= timeout

\* The first that accepts, after every silent one before it took its time.
ConnectTime(timeout) ==
  target.connect
    + timeout * Cardinality({i \in 1 .. Min(Accepting) : target.answers[i] = "silent"})

-----------------------------------------------------------------------------
(* The attempts, by type.                                                  *)

TcpAttempt(app) ==
  IF Connects(app.timeout) THEN Grade(ConnectTime(app.timeout)) ELSE "DOWN"

\* A driver that is not there is the monitor's fault.
DatabaseAttempt(app) ==
  IF ~target.driver THEN "UNKNOWN"
  ELSE IF Connects(app.timeout) /\ target.login
    THEN Grade(ConnectTime(app.timeout) + target.respond) ELSE "DOWN"

RightText(app) == app.contains \subseteq target.says /\ app.absent \cap target.says = {}

\* The body is read, and may stall, only where a text is expected of it.
HttpAttempt(app) ==
  IF /\ Connects(app.timeout) /\ target.tls
     /\ target.respond <= app.timeout
     /\ target.status = "expected"
     /\ app.contains \cup app.absent # {} => ~target.stalls /\ RightText(app)
  THEN Grade(ConnectTime(app.timeout) + target.respond) ELSE "DOWN"

\* A share that cannot be reached looks like a file that is not there.
FileAttempt ==
  IF target.file \in {"fresh", "noisy", "locked"} THEN "UP" ELSE "DOWN"

\* Too many matches, anywhere in the tail and however old; an unreadable log;
\* a pattern that is no pattern.
LogAttempt ==
  IF target.file \in {"fresh", "old", "small"} /\ target.pattern THEN "UP" ELSE "DOWN"

Attempt(app) ==
  CASE app.type = "TCP" -> TcpAttempt(app)
    [] app.type = "DATABASE" -> DatabaseAttempt(app)
    [] app.type = "HTTP" -> HttpAttempt(app)
    [] app.type = "FILE" -> FileAttempt
    [] app.type = "LOG" -> LogAttempt

-----------------------------------------------------------------------------
(* diagnose.                                                               *)

Said(ok) == IF ok THEN "ok" ELSE "failed"

\* One address is tried, the first of them in the order of their text.
FirstAccepts ==
  target.answers[target.sortedFirst] = "accepts" /\ target.connect <= ConnectTimeout

\* The whole body is read, whether or not a text is expected of it.
Answers ==
  /\ Connects(HttpTimeout) /\ target.tls
  /\ target.respond <= HttpTimeout /\ ~target.stalls

\* Mutant: what the page must not say is not looked for.
ContentStep_NeedleOnly(app) ==
  IF app.contains = {} THEN "skipped" ELSE Said(app.contains \subseteq target.says)

ContentStep(app) ==
  IF app.contains \cup app.absent = {} THEN "skipped" ELSE Said(RightText(app))

PageSteps(app) ==
  IF Answers
  THEN [dns |-> "ok", tcp |-> "ok",
        http |-> Said(target.status = "expected"), content |-> ContentStep(app)]
  ELSE [dns |-> "ok", tcp |-> "ok", http |-> "failed"]

\* A file has no host, and a DSN is not taken for one.
Chain(app) ==
  CASE app.type = "DATABASE" -> [target |-> "skipped"]
    [] app.type \in {"FILE", "LOG"} -> [target |-> "failed"]
    [] app.type \in {"TCP", "HTTP"} ->
         IF ~target.resolves THEN [dns |-> "failed"]
         ELSE IF ~FirstAccepts THEN [dns |-> "ok", tcp |-> "failed"]
         ELSE IF app.type = "TCP" THEN [dns |-> "ok", tcp |-> "ok"]
         ELSE PageSteps(app)

-----------------------------------------------------------------------------
NotYet == "not yet"

ProbesInit ==
  /\ application \in Applications /\ target \in Targets
  /\ checked = NotYet /\ diagnosed = << >>

Check == checked' = Attempt(application) /\ UNCHANGED <<application, target, diagnosed>>
Diagnose == diagnosed' = Chain(application) /\ UNCHANGED <<application, target, checked>>

ProbesNext == Check \/ Diagnose

-----------------------------------------------------------------------------
SameSide(time, one, other) == time <= one <=> time <= other

\* The limits of the two do not tell the delays apart, all addresses behave
\* alike, and a body nobody asked for does not stall.
Comparable(app) ==
  /\ SameSide(target.connect, app.timeout, ConnectTimeout)
  /\ SameSide(target.connect, app.timeout, HttpTimeout)
  /\ SameSide(target.respond, app.timeout, HttpTimeout)
  /\ \A i \in DOMAIN target.answers : target.answers[i] = target.answers[1]
  /\ target.stalls => app.contains \cup app.absent # {}

\* Under those conditions a diagnosis finds a fault in a target exactly when
\* the check does: nobody is told that a failing site is in order, or sent
\* after a fault that is none. (monitoring_service 61-102, 323-373;
\* diagnose_service 75-165)
DiagnosisAgrees ==
  application.type \in {"TCP", "HTTP"} /\ Comparable(application)
    /\ checked # NotYet /\ diagnosed # << >>
  => (checked \in Passed <=> \A step \in DOMAIN diagnosed : diagnosed[step] # "failed")
=============================================================================
