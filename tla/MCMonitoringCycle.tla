-------------------------- MODULE MCMonitoringCycle --------------------------
(* Three applications, one of them on the server that restarts; two may fail *)
(* together, or all three when the monitor loses its network.                *)
EXTENDS MonitoringCycle

CONSTANTS web, api, other

ThreeApps == {web, api, other}
OnServer == {web}
OutagesOrNetwork == {{}, {web, api}, ThreeApps}
EverySecondPoll == [a \in ThreeApps |-> 2]
=============================================================================
