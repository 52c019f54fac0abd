---------------------------- MODULE MCServices ----------------------------
(***************************************************************************)
(* A small instance of Services, and the components that only compute,     *)
(* evaluated over the inputs that tell their cases apart.                  *)
(***************************************************************************)
EXTENDS Services, TLC

CONSTANTS
  WindowDays,     \* Capacity
  MaxProcesses    \* HostView

-----------------------------------------------------------------------------
(* What the probes meet: a network, and one thing that may be wrong with   *)
(* what it leads to.                                                       *)

Texts == [contains : {{}, {"name"}}, absent : {{}, {"error"}}]
SmallApplications ==
  {[type |-> type, timeout |-> timeout] @@ texts :
     type \in {"TCP", "HTTP"}, timeout \in {5, 15}, texts \in Texts}
  \cup [type : {"DATABASE", "FILE", "LOG"}, timeout : {5}, contains : {{}}, absent : {{}}]

Networks ==
  [resolves : BOOLEAN, sortedFirst : {1}, connect : {1, 10}, respond : {1, 4, 20},
   answers : {<<"accepts">>, <<"silent">>, <<"refuses">>, <<"silent", "accepts">>}]

Fine ==
  [tls |-> TRUE, status |-> "expected", says |-> {"name"}, stalls |-> FALSE,
   driver |-> TRUE, login |-> TRUE, file |-> "fresh", pattern |-> TRUE]
OneFault ==
  {Fine, [Fine EXCEPT !.tls = FALSE], [Fine EXCEPT !.status = "other"],
   [Fine EXCEPT !.stalls = TRUE], [Fine EXCEPT !.driver = FALSE],
   [Fine EXCEPT !.login = FALSE], [Fine EXCEPT !.pattern = FALSE]}
  \cup {[Fine EXCEPT !.says = s] : s \in {{}, {"error"}, {"name", "error"}}}
  \cup {[Fine EXCEPT !.file = f] : f \in {"missing", "old", "small", "noisy", "locked"}}

SmallTargets == {network @@ served : network \in Networks, served \in OneFault}

-----------------------------------------------------------------------------
(* The parts that only compute, over the inputs that tell their cases      *)
(* apart; TLC evaluates what is assumed of them before it explores.        *)

Growth == INSTANCE Capacity
Figures == INSTANCE Reports
Form == INSTANCE ApplicationForm
View == INSTANCE HostView

\* Capacity: the percentages of a disk by day, when what it gains never rises.
Gains == 0 .. 30
Fills == {[d \in 1 .. 4 |-> 40 + (d - 1) * gain] : gain \in Gains}
  \cup {[d \in 1 .. 6 |-> 40 + (IF d < 4 THEN (d - 1) * gain ELSE 2 * gain + (d - 3) * less)] :
          gain \in Gains, less \in Gains}
ASSUME ForecastsInTime ==
  \A fills \in Fills : \A now \in 2 .. 4 : Growth!ForecastNotLate(fills, now)

\* Reports: up to seven checks on two days, in every share of successes;
\* two incidents with their stages in every order.
Histories ==
  {UNION {{[id |-> <<day, n>>, at |-> day, success |-> n <= good[day]] : n \in 1 .. all[day]} :
            day \in 1 .. 2} :
     all \in [1 .. 2 -> {0, 1, 3, 4}], good \in [1 .. 2 -> 0 .. 4]}
Outages ==
  {{[id |-> 1, started |-> 2, detected |-> 2, acknowledged |-> a, resolved |-> r,
     status |-> IF r = -1 THEN "OPEN" ELSE "RESOLVED", duration |-> IF r = -1 THEN 0 ELSE r - 2],
    [id |-> 2, started |-> 1, detected |-> 1, acknowledged |-> b, resolved |-> 3,
     status |-> "RESOLVED", duration |-> 2]} :
     a \in -1 .. 3, r \in -1 .. 3, b \in {-1, 3}}
Owned == {[deleted |-> FALSE, sla |-> sla] : sla \in {-1, 0, 3333, 6667, 9990, 10000}}
ASSUME FiguresAgree ==
  /\ \A app \in Owned, checks \in Histories, from \in 1 .. 2, to \in 1 .. 2 :
       /\ Figures!ReportsAgree(app, checks, {}, from, to)
       /\ Figures!TargetsJudgedFairly(app, checks, from, to)
  /\ \A incidents \in Outages, from \in 1 .. 2 : Figures!SamplesCount(incidents, from, 2)

\* ApplicationForm: every payload of the fields a check is made of.
Option(field, values) == {<< >>} \cup {field :> v : v \in values}
Payloads ==
  {type @@ url @@ host @@ port @@ steps @@ interval :
     type \in Option("health_check_type", {"none", "HTTP", "TCP", "DATABASE", "WORKFLOW", "FILE"}),
     url \in Option("url", {"none", "blank", "web", "dsn", "malformed"}),
     host \in Option("server", {"none", "blank", "host"}),
     port \in Option("port", {"none", "good", "out of range"}),
     steps \in Option("workflow_steps", {"none", "good", "path"}),
     interval \in Option("monitoring_interval", {"none", "nought"})}
Named == {("name" :> "dms") @@ payload : payload \in Payloads}
Accepted == {payload \in Named : Form!ValidateApplicationPayload(payload, FALSE) = {}}
ASSUME FormsAreSafe ==
  /\ \A payload \in Accepted : Form!CreatedCanBeProbed(payload)
  /\ \A app \in {Form!CreateApplication(payload) : payload \in Accepted}, payload \in Payloads :
       Form!EditedCanBeProbed(app, payload)

\* HostView: three processes and a list of MaxProcesses; sockets of every
\* kind on the port asked for; silences and clocks around their limits.
Running ==
  {{[pid |-> n, name |-> n, memory |-> memory[n], script |-> n \in scripts] : n \in 1 .. 3} :
     memory \in [1 .. 3 -> 1 .. 2], scripts \in SUBSET (1 .. 3)}
Sockets ==
  SUBSET {[port |-> 80, protocol |-> protocol, pid |-> pid, listening |-> listening] :
            protocol \in {"TCP", "UDP"}, pid \in {-1, 1}, listening \in BOOLEAN}
Failing == SUBSET {"processes", "sockets"}
ASSUME ViewIsHonest ==
  /\ \A processes \in Running, failing \in Failing :
       View!RunningIsSeen([processes |-> processes, sockets |-> {}, failing |-> failing])
  /\ \A sockets \in Sockets, failing \in Failing :
       LET two == {[pid |-> n, name |-> n, memory |-> 1, script |-> FALSE] : n \in {1, 2}}
       IN  View!FactsAreFacts([processes |-> two, sockets |-> sockets, failing |-> failing], 80)
  /\ \A ahead \in {-121, -120, 0, 60, 120, 121}, waited \in {0, 1, 120, 240, 241} :
       View!SkewIsClockAndQueue(ahead, waited)
  /\ \A before \in {0, 10}, file \in {"whole", "torn", "locked"}, length \in {0, 9, 10} :
       View!BacklogShows(before, [file |-> file, length |-> length])
  /\ \A status \in {"UP", "DOWN", "AGENT_DOWN", "UNKNOWN"}, silence \in 0 .. 400 :
       View!SilenceShows(status, silence, 60)
  /\ \A now \in {300, 599, 600}, loss \in {-1, 0, 50, 100}, resolves \in BOOLEAN :
       \A cache \in {[at |-> at, value |-> [gateway |-> g, dns |-> "ok"]] :
                       at \in {-1, 300}, g \in {"reachable", "unreachable", "unmeasured"}} :
         View!ReachabilityIsRecent(cache, now, [loss |-> loss, resolves |-> resolves])
=============================================================================
