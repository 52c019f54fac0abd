----------------------- MODULE MCNotificationDelivery -----------------------
(* Small instances of NotificationDelivery.                                *)
EXTENDS AlertPolicy, NotificationDelivery

CONSTANTS outage, host

\* One incident of an application, or one of a server.
AppIncident == {outage}
NoServerIncident == {}
ServerIncident == {host}
MailOnly == {"EMAIL"}
Everything == {"calendar", "hour", "mail server", "switch", "mute"}
MailOrDigest == {"EMAIL", "DIGEST"}
AllButTheSwitch == {"calendar", "hour", "mail server"}
CalendarAndServer == {"calendar", "mail server"}

\* The alert policy's settings, one of them unknown to it in each, and the
\* answers it gives; two windows of support hours, one of them over midnight.
RouteSettings == {RouteDefaults, [s \in Severities |-> "PAGER"]}
  \cup {[RouteDefaults EXCEPT !.LOW = "NONE", !.MEDIUM = m] : m \in {"NONE", "DIGEST"}}
Settings == [route : RouteSettings, minimum : {"LOW", "HIGH", "NEVER"}, oncall : BOOLEAN]
EveryRoute == {Route(s, severity, h) : s \in Settings, severity \in Severities, h \in BOOLEAN}
Days == {<<480, 1080>>, <<1320, 360>>, <<0, 0>>}

\* Worse is never quieter; the hours leave no gap; those on call are woken.
ASSUME PolicyKeepsOrder == \A s \in Settings : NeverQuieter(s)
ASSUME HoursLeaveNoGap == \A hours \in Days, minute \in 0 .. 1439 : HoursAndNights(hours, minute)
ASSUME PolicyWakes == \A s \in Settings : OnCallHears(s)

\* Nobody acknowledges, which would only spare an incident its escalation.
Unacknowledged == \A i \in Incidents : ~inc[i]'.acked
LiveSpec == Init /\ [][Next /\ Unacknowledged]_vars /\ Fairness
=============================================================================
