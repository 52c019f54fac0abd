-------------------------- MODULE ApplicationForm --------------------------
(***************************************************************************)
(* What the API accepts of the form of an application, and what it stores  *)
(* of it. A payload is a function from the names of its fields; a value    *)
(* is what the validators tell apart in it:                                *)
(*   health_check_type  one of Offered, or another word                    *)
(*   url                "web", "dsn", "dsn with its password", "malformed" *)
(*   server             "host"                                             *)
(*   port               "good", "out of range"                             *)
(*   workflow_steps     "good" steps, or those with a fault of Faults      *)
(*   monitoring_interval  "good", "nought"                                 *)
(* and in each of them None, a field that is there and null; in url and    *)
(* server also Blank. The addresses of owner and manager, and the other    *)
(* numbers, are judged like the name and the interval.                     *)
(***************************************************************************)
EXTENDS Naturals, TLC

None == "none"
Blank == "blank"
Missing == {None, Blank}
Offered == {"HTTP", "HTTPS", "TCP", "DATABASE", "WORKFLOW"}
Probed == Offered \cup {"FILE", "LOG"}   \* those the monitor has a probe for
Faults ==
  {"too many", "no name", "method", "path", "status", "form", "literal secret"}

Get(payload, field) == IF field \in DOMAIN payload THEN payload[field] ELSE None
TypeOf(payload) ==
  LET type == Get(payload, "health_check_type") IN IF type = None THEN "HTTP" ELSE type

-----------------------------------------------------------------------------
(* The validators: each the set of its complaints.                         *)

Complain(wrong, complaint) == IF wrong THEN {complaint} ELSE {}

\* No steps at all is a complaint of its own, and the only one then.
ValidateWorkflow(steps) ==
  IF steps = None THEN {"no steps"} ELSE Complain(steps \in Faults, steps)

\* Without a login step the workflow is good, and logs in at every check.
WorkflowWarnings(steps) == Complain(steps = "good, without a login step", "logs in every time")

ValidateDsn(url) ==
  IF url \in Missing THEN {"no connection string"} ELSE Complain(url # "dsn", "connection string")

ValidateWeb(url) == IF url \in Missing THEN {"no url"} ELSE Complain(url # "web", "url")

ValidatePort(port) == IF port = None THEN {"no port"} ELSE Complain(port # "good", "port")

ValidateCheck(payload) ==
  LET type == TypeOf(payload)
      url == Get(payload, "url")
  IN  CASE type \in {"HTTP", "HTTPS"} -> ValidateWeb(url)
        [] type = "WORKFLOW" ->
             ValidateWeb(url) \cup ValidateWorkflow(Get(payload, "workflow_steps"))
        [] type = "DATABASE" -> ValidateDsn(url)
        [] type = "TCP" ->
             Complain(Get(payload, "server") \in Missing, "no server")
               \cup ValidatePort(Get(payload, "port"))
        [] OTHER -> {"type"}

\* An edit is asked about its check only if it names one of these fields,
\* and then from the payload alone: the stored type is not consulted.
TouchesCheck(payload) == DOMAIN payload \cap {"health_check_type", "url", "server", "port"} # {}

ValidateApplicationPayload(payload, partial) ==
  (IF partial /\ ~TouchesCheck(payload) THEN {} ELSE ValidateCheck(payload))
    \cup Complain(~partial /\ Get(payload, "name") = None, "no name")
    \cup Complain(Get(payload, "monitoring_interval") = "nought", "interval")

\* Written for FILE and LOG checks; no route calls it.
ValidateFileCheck(config) ==
  Complain(config.path = None, "no path")
    \cup Complain(config.age = "nought", "age")
    \cup Complain(config.bytes = "negative", "bytes")
    \cup Complain(config.pattern = "matches everything", "pattern matches everything")
    \cup Complain(config.pattern = "no pattern", "pattern")

-----------------------------------------------------------------------------
(* What is stored.                                                         *)

CheckFields == {"url", "server", "port"}

\* An absent key leaves the workflow alone, an empty list wipes it.
ApplyWorkflowSteps(app, payload) ==
  IF "workflow_steps" \in DOMAIN payload
  THEN [app EXCEPT !.workflow_steps = payload.workflow_steps] ELSE app

Defaults == [monitoring_interval |-> "good"]

CreateApplication(payload) ==
  ApplyWorkflowSteps(
    [field \in CheckFields \cup {"name"} |->
       IF Get(payload, field) = Blank THEN None ELSE Get(payload, field)]
      @@ [health_check_type |-> TypeOf(payload), workflow_steps |-> None,
          monitoring_interval |->
            IF Get(payload, "monitoring_interval") = None
            THEN Defaults.monitoring_interval ELSE payload.monitoring_interval],
    payload)

\* A null changes nothing, a blank text is stored.
UpdateApplication(app, payload) ==
  ApplyWorkflowSteps(
    [field \in DOMAIN app |->
       IF Get(payload, field) = None \/ field = "workflow_steps" THEN app[field]
       ELSE payload[field]],
    payload)

-----------------------------------------------------------------------------
(* Properties.                                                             *)

\* The probe of the application's type finds what it needs.
CanBeProbed(app) ==
  LET type == app.health_check_type
  IN  /\ type \in {"HTTP", "HTTPS", "WORKFLOW"} => app.url = "web"
      /\ type = "DATABASE" => app.url = "dsn"
      /\ type = "TCP" => app.server \notin Missing /\ app.port = "good"
      /\ type = "WORKFLOW" => app.workflow_steps \notin Faults \cup {None}
      /\ type \in Probed /\ app.monitoring_interval = "good"

\* What the form lets in can be checked: an accepted new application is one
\* its probe can run on, whichever of the fields it came with.
CreatedCanBeProbed(payload) ==
  ValidateApplicationPayload(payload, FALSE) = {} => CanBeProbed(CreateApplication(payload))

\* An edit that names the type of check, or nothing a check is made of,
\* leaves an application that can be probed so. The two other kinds of edit
\* do not: one of url, server or port alone is judged as if the type were
\* HTTP, and one of the steps alone is not judged.
NamesItsCheck(payload) ==
  \/ Get(payload, "health_check_type") # None
  \/ DOMAIN payload \cap (CheckFields \cup {"health_check_type", "workflow_steps"}) = {}

EditedCanBeProbed(app, payload) ==
  (/\ CanBeProbed(app) /\ NamesItsCheck(payload)
   /\ ValidateApplicationPayload(payload, TRUE) = {})
    => CanBeProbed(UpdateApplication(app, payload))
=============================================================================
