------------------------------ MODULE HostView ------------------------------
(***************************************************************************)
(* What a user is told about a machine: the agent's discovery, the columns *)
(* the hub stores of it, and the answers read from them later. Each stage  *)
(* may know less than the one before, and says so only sometimes.          *)
(*                                                                         *)
(* A machine is a record: processes, sockets, the readings that fail, and  *)
(* how far its clock is ahead. Times are seconds.                          *)
(***************************************************************************)
EXTENDS Integers, FiniteSets, FiniteSetsExt

CONSTANT MaxProcesses   \* MAX_PROCESSES: rows of the process list

None == -1
Fresh == 300            \* REACHABILITY_INTERVAL_SECONDS
ClockTolerance == 120   \* CLOCK_SKEW_TOLERANCE_SECONDS
QueueWarning == 10      \* AGENT_QUEUE_WARNING

-----------------------------------------------------------------------------
(* The agent.                                                              *)

\* Interpreters that run a script are always listed, whatever it costs; the
\* rest of the cap goes to the biggest others. Of two equally big ones
\* either may be the one that is cut.
ProcessLists(processes) ==
  LET scripted == {p \in processes : p.script}
      others == processes \ scripted
      room == Max({0, MaxProcesses - Cardinality(scripted)})
  IN  {scripted \cup big :
         big \in {kept \in SUBSET others :
                    /\ Cardinality(kept) = Min({room, Cardinality(others)})
                    /\ \A p \in kept, q \in others \ kept : p.memory >= q.memory}}

\* Listening sockets and those of UDP; the owner's number may be hidden, and
\* its name may be out of reach when the number is not.
PortList(sockets) ==
  {[port |-> s.port, protocol |-> s.protocol, pid |-> s.pid] :
     s \in {t \in sockets : t.listening \/ t.protocol = "UDP"}}

\* A collector that fails gives what one that finds nothing gives.
Heartbeats(machine) ==
  {[discovered_processes |-> IF "processes" \in machine.failing THEN {} ELSE list,
    discovered_ports |-> IF "sockets" \in machine.failing THEN {} ELSE PortList(machine.sockets)] :
     list \in ProcessLists(machine.processes)}

\* A loss that could not be measured is not an answer; the last answers are
\* given again until they are old. None: there are no last answers yet.
NetworkReachability(cache, now, network) ==
  IF cache.at # None /\ now - cache.at < Fresh THEN cache
  ELSE [at |-> now,
        value |->
          [gateway |-> IF network.loss = None THEN "unmeasured"
                       ELSE IF network.loss < 100 THEN "reachable" ELSE "unreachable",
           dns |-> IF network.resolves THEN "ok" ELSE "failed"]]

\* The queue is counted from its file. One that cannot be opened counts
\* nothing; one with half a line in it leaves the whole account out.
SelfHealth(queue) ==
  IF queue.file = "torn" THEN None ELSE IF queue.file = "locked" THEN 0 ELSE queue.length

-----------------------------------------------------------------------------
(* The hub.                                                                *)

\* The agent's clock at sending against the hub's on arrival. A heartbeat
\* replayed from the queue was sent that much earlier.
ClockSkew(said, ahead, waited) == IF said THEN ahead - waited ELSE None
ClockIsTrustworthy(skew) ==
  skew = None \/ (skew <= ClockTolerance /\ -skew <= ClockTolerance)

\* No heartbeat yet, or the last is more than one and a half intervals old.
IsStale(silence, interval) == silence = None \/ 2 * silence > 3 * interval

Silent == {"AGENT_DOWN", "DOWN", "UNKNOWN"}

\* What the dashboard says: the status of a silent machine as it is, any
\* other only while the heartbeat behind it is fresh.
EffectiveStatus(status, silence, interval) ==
  IF status \in Silent THEN status ELSE IF IsStale(silence, interval) THEN "STALE" ELSE status

\* What a heartbeat leaves out, the hub keeps as it was.
StoredHealth(before, reported) == IF reported = None THEN before ELSE reported

AgentHealthStatus(health) ==
  IF health = None THEN "UNAVAILABLE" ELSE IF health >= QueueWarning THEN "WARNING" ELSE "OK"

\* The row of the port's TCP listener that names an owner decides; where
\* several do, any.
HostFacts(stored, status, port) ==
  LET listeners == {r \in stored.discovered_ports :
                      r.port = port /\ r.protocol = "TCP" /\ r.pid # None}
      NamesOf(pid) == {p.name : p \in {q \in stored.discovered_processes : q.pid = pid}}
  IN  IF listeners = {}
      THEN {[answer |-> IF status \in Silent THEN "unknown" ELSE "not running", name |-> None]}
      ELSE UNION {{[answer |-> "running", name |-> n] :
                     n \in IF NamesOf(r.pid) = {} THEN {None} ELSE NamesOf(r.pid)} :
                    r \in listeners}

ProcessState(stored, name) ==
  IF \E p \in stored.discovered_processes : p.name = name THEN "OK" ELSE "MISSING"

-----------------------------------------------------------------------------
(* Properties.                                                             *)

\* When a user is told the application runs, something of that machine held
\* its port; when told it does not run, nothing did whose owner the agent
\* could see, unless the sockets could not be read at all: diagnose takes a
\* reporting agent's empty list for knowledge.
FactsAreFacts(machine, port) ==
  \A stored \in Heartbeats(machine), status \in Silent \cup {"UP"} :
    \A fact \in HostFacts(stored, status, port) :
      LET holders == {s \in machine.sockets : s.port = port /\ s.protocol = "TCP" /\ s.listening}
      IN  /\ fact.answer = "running" => holders # {}
          /\ fact.answer # "running" =>
               "sockets" \in machine.failing \/ \A s \in holders : s.pid = None
          /\ fact.answer = "unknown" => status \in Silent

\* An expected process that runs is called MISSING, and an incident opened
\* for it, only where the list could not be made, or was filled by scripts
\* and by processes at least as big. A script is never missed.
RunningIsSeen(machine) ==
  \A p \in machine.processes : \A stored \in Heartbeats(machine) :
    ProcessState(stored, p.name) = "MISSING" =>
      \/ "processes" \in machine.failing
      \/ /\ ~p.script
         /\ Cardinality({q \in machine.processes \ {p} : q.script \/ q.memory >= p.memory})
              >= MaxProcesses

\* A clock within the tolerance is distrusted only for the time a heartbeat
\* spent in the queue, and one that is beyond it can hide behind that.
SkewIsClockAndQueue(ahead, waited) ==
  LET trusted == ClockIsTrustworthy(ClockSkew(TRUE, ahead, waited))
      right == -ClockTolerance <= ahead /\ ahead <= ClockTolerance
  IN  /\ waited = 0 => (trusted <=> right)
      /\ right /\ ~trusted => waited > ClockTolerance + ahead

\* A backlog is warned of as soon as a heartbeat gets through, unless the
\* file cannot be opened: then the agent looks healthy. A torn file leaves
\* the last account standing, a warning with it.
BacklogShows(before, queue) ==
  LET status == AgentHealthStatus(StoredHealth(before, SelfHealth(queue)))
  IN  /\ queue.file = "whole" => (status = "WARNING" <=> queue.length >= QueueWarning)
      /\ queue.file = "torn" => status = AgentHealthStatus(before)
      /\ queue.file = "locked" => status = "OK"

\* The dashboard and the scan for missed heartbeats never contradict each
\* other: whatever is three intervals silent is not shown as UP.
SilenceShows(status, silence, interval) ==
  silence # None /\ silence > 3 * interval => EffectiveStatus(status, silence, interval) # "UP"

\* Answers about the network are never older than the interval, and a
\* gateway nobody could ping is not called unreachable.
ReachabilityIsRecent(cache, now, network) ==
  LET after == NetworkReachability(cache, now, network)
  IN  /\ now - after.at < Fresh
      /\ after.value.gateway = "unreachable" =>
           after = cache \/ (network.loss # None /\ network.loss = 100)
=============================================================================
