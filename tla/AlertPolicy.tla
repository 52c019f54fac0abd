---------------------------- MODULE AlertPolicy ----------------------------
(***************************************************************************)
(* How bad an incident is, whether its mail goes out now, waits for the    *)
(* digest or is not sent, and to whom (alert_policy): functions of the     *)
(* incident, of what it is about, of the settings and of the clock.        *)
(*                                                                         *)
(* Minutes of the day are integers; the rest of the settings are records   *)
(* [route, minimum, oncall], an unset one having its default already.      *)
(***************************************************************************)
EXTENDS Integers

Severities == {"LOW", "MEDIUM", "HIGH", "CRITICAL"}
Rank == [LOW |-> 1, MEDIUM |-> 2, HIGH |-> 3, CRITICAL |-> 4]
RouteDefaults == [LOW |-> "DIGEST", MEDIUM |-> "EMAIL", HIGH |-> "EMAIL", CRITICAL |-> "EMAIL"]

\* severity_of. incident: its kind and whether its reason says "critical";
\* entity: in Production, and of CRITICAL criticality. Either makes HIGH
\* CRITICAL, and nothing else of anything.
SeverityOf(incident, entity) ==
  LET bare == IF incident.kind = "RESOURCE" THEN IF incident.critical THEN "HIGH" ELSE "LOW"
              ELSE IF incident.kind = "COMPONENT" THEN "MEDIUM" ELSE "HIGH"
  IN IF bare = "HIGH" /\ (entity.critical \/ entity.production) THEN "CRITICAL" ELSE bare

\* Support hours: a pair of minutes, or any text that is none and means always.
Always == << >>

InSupportHours(hours, minute) ==
  \/ hours = Always
  \/ hours[1] <= hours[2] /\ hours[1] <= minute /\ minute <= hours[2]
  \/ hours[1] > hours[2] /\ (minute >= hours[1] \/ minute <= hours[2])

\* An action or a minimum that is none of those known counts as the default.
Action(setting) == IF setting \in {"EMAIL", "DIGEST", "NONE"} THEN setting ELSE "EMAIL"
Minimum(setting) == IF setting \in Severities THEN setting ELSE "HIGH"

Route(settings, severity, inHours) ==
  IF /\ Action(settings.route[severity]) = "EMAIL"
     /\ ~inHours /\ Rank[severity] < Rank[Minimum(settings.minimum)]
  THEN "DIGEST" ELSE Action(settings.route[severity])

\* Whom an email goes to: those on call displace the usual list.
Recipients(settings, severity, inHours) ==
  IF ~inHours /\ Rank[severity] >= Rank["HIGH"] /\ settings.oncall
  THEN "on call" ELSE "usual list"

-----------------------------------------------------------------------------
Loudness == [NONE |-> 0, DIGEST |-> 1, EMAIL |-> 2]

\* Worse is never quieter: with any settings that are not themselves quieter
\* for the worse, the order of severities is the order of routes, at any hour.
NeverQuieter(settings) ==
  \A s, t \in Severities, inHours \in BOOLEAN :
    /\ Rank[s] <= Rank[t]
    /\ \A a, b \in Severities : Rank[a] <= Rank[b] =>
         Loudness[Action(settings.route[a])] <= Loudness[Action(settings.route[b])]
    => Loudness[Route(settings, s, inHours)] <= Loudness[Route(settings, t, inHours)]

\* A window and the one that is turned round share their ends and leave out no
\* minute: across midnight as within a day. Not so "08:00-08:00", which is one
\* minute either way.
HoursAndNights(hours, minute) ==
  LET inside == InSupportHours(hours, minute)
      outside == InSupportHours(<<hours[2], hours[1]>>, minute)
  IN hours[1] # hours[2] =>
       (inside \/ outside) /\ (inside /\ outside <=> minute \in {hours[1], hours[2]})

\* Those on call hear at once of what is worth waking them for, whatever is in
\* Production or critical, unless a setting keeps it for the digest or nobody.
OnCallHears(settings) ==
  \A kind \in {"REACHABILITY", "COMPONENT", "RESOURCE"}, critical \in BOOLEAN,
     entity \in [critical : BOOLEAN, production : BOOLEAN] :
    LET severity == SeverityOf([kind |-> kind, critical |-> critical], entity)
    IN /\ Recipients(settings, severity, FALSE) = "on call"
       /\ Action(settings.route[severity]) = "EMAIL"
       /\ Rank[Minimum(settings.minimum)] <= Rank["HIGH"]
       => Route(settings, severity, FALSE) = "EMAIL" /\ kind # "COMPONENT"
=============================================================================
