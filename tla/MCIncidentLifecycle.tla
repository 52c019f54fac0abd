------------------------ MODULE MCIncidentLifecycle ------------------------
(* Small instances of IncidentLifecycle.                                   *)
EXTENDS IncidentLifecycle, TLC

CONSTANTS site, db, host

\* One application on a server that reports heartbeats.
OneApp == {site}
OneHost == {host}
OneHostOf == site :> host
NoDepends == site :> {}

AnyResult == {"UP", "DEGRADED", "DOWN", "UNKNOWN"}
OneScope == {site, "ALL"}

\* An application and the database it depends on; no agent anywhere.
TwoApps == {site, db}
NoHosts == {}
NoHostOf == [a \in TwoApps |-> NoServer]
UpOrDown == {"UP", "DOWN"}
NoScope == {}
DbScope == {db}
SiteNeedsDb == site :> {db} @@ db :> {}

=============================================================================
