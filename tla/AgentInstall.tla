---------------------------- MODULE AgentInstall ----------------------------
(***************************************************************************)
(* How an agent stays one its hub listens to: enrolment gives it a server  *)
(* id and a token, written to a file that the running loop reads again in  *)
(* every cycle; each enrolment of the host name replaces the token. And    *)
(* how it survives its updates: at every start it keeps a copy of itself   *)
(* and discards all but the newest few, for an operator to put back.       *)
(*                                                                         *)
(* Releases are numbered in the order of their file names, which is that   *)
(* of text: 0.10.0 comes before 0.9.0.                                     *)
(***************************************************************************)
EXTENDS FiniteSets, Integers

CONSTANTS
  Keep,           \* KEEP_PREVIOUS_VERSIONS, the running one included
  MaxReleases,    \* bound on the releases installed
  MaxEnrolments,  \* bound on the enrolments
  MaxStops        \* bound on the stops of the machine

VARIABLES
  server,   \* the live row of this host name at the hub: id and token_hash
  issued,   \* tokens issued so far
  answer,   \* what agent.py enroll has received and not yet written
  config,   \* config.json
  loop,     \* what the running loop uses
  release,  \* the agent.py that is installed
  newest,   \* the newest release there is
  bad,      \* releases that send no heartbeat
  copies,   \* agent.py.<version> beside it
  stops

enrolVars == <<server, issued, answer, config>>
releaseVars == <<release, newest, bad, copies>>
installVars == <<server, issued, answer, config, loop, release, newest, bad, copies, stops>>

NoRow == [id |-> 0, token |-> 0]
Torn == [id |-> -1, token |-> 0]     \* truncated, or half of it
Stopped == [id |-> -2, token |-> 0]
Nobody == [id |-> -3, token |-> 0]   \* no enroll command is running

-----------------------------------------------------------------------------
(* Enrolment.                                                              *)

\* A live row of the host name is reused with a new token; the answer reaches
\* the command that asked, or nobody: it came too late, or another asked.
EnrollAtHub(heard) ==
  /\ issued < MaxEnrolments
  /\ issued' = issued + 1
  /\ server' = [id |-> IF server = NoRow THEN issued + 1 ELSE server.id, token |-> issued + 1]
  /\ answer' = IF heard THEN server' ELSE answer
  /\ UNCHANGED <<config, loop, releaseVars, stops>>

\* save_config: the file is emptied, then written.
OpenConfig ==
  /\ answer # Nobody /\ config # Torn
  /\ config' = Torn
  /\ UNCHANGED <<server, issued, answer, loop, releaseVars, stops>>

WriteConfig ==
  /\ answer # Nobody /\ config = Torn
  /\ config' = answer
  /\ answer' = Nobody
  /\ UNCHANGED <<server, issued, loop, releaseVars, stops>>

\* Somebody deletes the row at the hub: the next enrolment starts afresh.
DeleteServer ==
  /\ server # NoRow
  /\ server' = NoRow
  /\ UNCHANGED <<issued, answer, config, loop, releaseVars, stops>>

-----------------------------------------------------------------------------
(* The loop.                                                               *)

Kept(found) == {v \in found : Cardinality({w \in found : w > v}) < Keep}

\* run_from_config; a bad release may be so bad that it does not get to its
\* copy. An unreadable file ends the service, and only its next start tries again.
StartAgent ==
  /\ loop = Stopped /\ config \notin {Torn, NoRow}
  /\ loop' = config
  /\ copies' \in {Kept(copies \cup {release})} \cup (IF release \in bad THEN {copies} ELSE {})
  /\ UNCHANGED <<enrolVars, release, newest, bad, stops>>

\* Mutant: the address and the token are read once.
Reload_OnlyAddress ==
  /\ loop # Stopped
  /\ loop' = loop
  /\ UNCHANGED <<enrolVars, releaseVars, stops>>

\* _reload, in each cycle.
Reload ==
  /\ loop # Stopped
  /\ loop' = IF config = Torn THEN loop ELSE config
  /\ UNCHANGED <<enrolVars, releaseVars, stops>>

StopMachine ==
  /\ stops < MaxStops
  /\ stops' = stops + 1
  /\ loop' = Stopped
  /\ answer' = Nobody
  /\ UNCHANGED <<server, issued, config, releaseVars>>

-----------------------------------------------------------------------------
(* Updates; the service is stopped for each.                               *)

Install(v) == release' = v /\ loop' = Stopped

\* An agent that has been started is updated: what never ran left no copy.
Update ==
  /\ newest < MaxReleases /\ loop # Stopped
  /\ newest' = newest + 1
  /\ Install(newest + 1)
  /\ UNCHANGED <<enrolVars, bad, copies, stops>>

\* An operator puts back the newest copy that worked.
Restore ==
  /\ release \in bad
  /\ \E v \in copies \ bad :
       /\ \A w \in copies \ bad : w <= v
       /\ Install(v)
  /\ UNCHANGED <<enrolVars, newest, bad, copies, stops>>

-----------------------------------------------------------------------------
\* Copies bring back what Keep - 1 bad releases in a row replaced.
FewInARow(releases) ==
  \A v \in 1 .. MaxReleases : \E w \in (v - Keep + 1) .. v : w <= 1 \/ w \notin releases

InstallInit ==
  /\ server = NoRow /\ issued = 0 /\ answer = Nobody
  /\ config = NoRow /\ loop = Stopped
  /\ release = 1 /\ newest = 1 /\ copies = {} /\ stops = 0
  /\ bad \in {releases \in SUBSET (2 .. MaxReleases) : FewInARow(releases)}

InstallNext ==
  \/ \E heard \in BOOLEAN : EnrollAtHub(heard)
  \/ OpenConfig \/ WriteConfig \/ DeleteServer
  \/ StartAgent \/ Reload \/ StopMachine
  \/ Update \/ Restore

-----------------------------------------------------------------------------
\* The heartbeat route takes what the agent sends, and no working release that
\* was ever installed is newer.
Accepted == loop = server /\ release \notin bad
UpToDate == \A v \in release + 1 .. newest : v \in bad

\* Once the file holds what the hub last issued, the hub hears the agent again
\* and goes on hearing it, without anybody restarting it: whatever enrolments
\* were lost, cut short or overtaken before. And whichever releases failed, up
\* to Keep - 1 in a row, it is the newest that works.
\* (agent 1123-1146, 1215-1270; server_service 66-110)
AgentReconnects == <>[](config = server /\ server # NoRow) => <>[](Accepted /\ UpToDate)
=============================================================================
