------------------------- MODULE MCServerConditions -------------------------
(* Percentages 0 (fine), 1 (warning) and 2 (critical); one service and one   *)
(* process that may be expected. Cpu stands for ram too: they are read alike. *)
EXTENDS ServerConditions

Report(cpu, disk, volumes) ==
  [cpu |-> cpu, ram |-> None, disk |-> disk, volumes |-> volumes]

\* All fine, a warning, a critical volume beside a fine system drive, nothing
\* collected, and a critical cpu from an agent that omits the volumes.
FiveReports ==
  {Report(0, 0, {}), Report(1, 0, {0}), Report(0, 0, {None, 2}),
   Report(None, None, {}), Report(2, 0, Omitted)}

Service == [kind |-> "service", name |-> "dms"]
Process == [kind |-> "process", name |-> "python"]
Running == [python |-> "running"]

\* All there, the service stopped, and a discovery that failed ([]).
ThreeDiscoveries ==
  {[service |-> [dms |-> "running"], process |-> Running],
   [service |-> [dms |-> "stopped"], process |-> Running], Nothing}

TwoWatchlists == {{}, {Service, Process}}
=============================================================================
