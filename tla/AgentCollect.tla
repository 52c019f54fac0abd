---------------------------- MODULE AgentCollect ----------------------------
(***************************************************************************)
(* What the agent collects beside its heartbeat: a thread walks the disks  *)
(* every six hours, another reads the socket table every few seconds for   *)
(* connections to databases, and the heartbeat, which reads the table too, *)
(* carries what they have published so far.                                *)
(*                                                                         *)
(* Time is in ticks, six hours being SixHours of them. A link is one       *)
(* process and one database endpoint; fewer than MAX_DATABASE_LINKS are    *)
(* assumed. Sizes, the deeper look into the biggest folder and the budget  *)
(* of a walk decide what is said of a volume, not whether it is there.     *)
(***************************************************************************)
EXTENDS Integers

CONSTANTS
  Volumes,   \* fixed volumes, some of which may be unreadable at times
  Links,     \* process and database endpoint
  SixHours   \* DISK_SCAN_INTERVAL_SECONDS, DATABASE_LINK_RETAIN_SECONDS

VARIABLES
  usage,     \* _disk_usage_cache["value"]: the volumes it speaks of
  usageAge,  \* ticks since _disk_usage_cache["at"], which starts as the boot
  scan,      \* the scan that runs, if one does
  open,      \* links with an established connection now
  history,   \* _database_link_history: ticks since last_seen
  sample,    \* what a thread has read of the socket table and not folded in
  seen       \* history variable: ticks since a folded sample held the link

collectVars == <<usage, usageAge, scan, open, history, sample, seen>>
scanVars == <<usage, usageAge, scan>>
linkVars == <<open, history, sample, seen>>

Threads == {"sampler", "heartbeat"}
Old == SixHours + 1  \* any longer
Gone == Old + 1      \* not in the history
NoScan == [running |-> FALSE, left |-> {}, found |-> {}]
NoSample == [taken |-> FALSE, current |-> {}, age |-> 0]

Later(ticks) == IF ticks < Old THEN ticks + 1 ELSE ticks

-----------------------------------------------------------------------------
(* The disk scan.                                                          *)

Fresh == usage # {} /\ usageAge < SixHours

\* _largest_directories, in a heartbeat.
AskForUsage ==
  /\ ~Fresh /\ ~scan.running
  /\ scan' = [running |-> TRUE, left |-> Volumes, found |-> {}]
  /\ UNCHANGED <<usage, usageAge, linkVars>>

\* Each volume is published as it is done: what an earlier scan said of those
\* still to come is gone until then. An unreadable one is passed over.
ScanVolume(v, readable) ==
  /\ v \in scan.left
  /\ LET found == scan.found \cup (IF readable THEN {v} ELSE {})
     IN /\ scan' = [scan EXCEPT !.left = @ \ {v}, !.found = found]
        /\ usage' = IF readable THEN found ELSE usage
  /\ UNCHANGED <<usageAge, linkVars>>

ScanEnds ==
  /\ scan.running /\ scan.left = {}
  /\ usage' = scan.found
  /\ usageAge' = 0
  /\ scan' = NoScan
  /\ UNCHANGED linkVars

\* Mutant: the flag is cleared only where the scan ends well.
ScanRaises_KeepsFlag ==
  /\ scan.running
  /\ scan' = [scan EXCEPT !.left = {"no thread"}]
  /\ UNCHANGED <<usage, usageAge, linkVars>>

\* What was published stays, with the time of the last scan that ended.
ScanRaises ==
  /\ scan.running
  /\ scan' = NoScan
  /\ UNCHANGED <<usage, usageAge, linkVars>>

-----------------------------------------------------------------------------
(* Links to databases: _sample_database_connections, in either thread.     *)

ReadSockets(t) ==
  /\ ~sample[t].taken
  /\ \E current \in {open, {}} :  \* {}: enumerating the sockets failed
       sample' = [sample EXCEPT ![t] = [taken |-> TRUE, current |-> current, age |-> 0]]
  /\ UNCHANGED <<scanVars, open, history, seen>>

\* Mutant: what is not open is not reported.
Folded_OpenOnly(s) == [l \in Links |-> IF l \in s.current THEN s.age ELSE Gone]

\* The thread's own clock, read before the table was, dates both.
Folded(s) ==
  [l \in Links |->
     IF l \in s.current THEN s.age
     ELSE IF history[l] # Gone /\ history[l] - s.age > SixHours THEN Gone ELSE history[l]]

FoldSample(t) ==
  /\ sample[t].taken
  /\ history' = Folded(sample[t])
  /\ seen' = [l \in Links |-> IF l \in sample[t].current THEN sample[t].age ELSE seen[l]]
  /\ sample' = [sample EXCEPT ![t] = NoSample]
  /\ UNCHANGED <<scanVars, open>>

LinkOpens(l) == open' = open \cup {l} /\ UNCHANGED <<scanVars, history, sample, seen>>
LinkCloses(l) == open' = open \ {l} /\ UNCHANGED <<scanVars, history, sample, seen>>

-----------------------------------------------------------------------------
\* Bound: a thread takes less than two ticks to fold what it has read.
PassTime ==
  /\ \A t \in Threads : sample[t].age = 0
  /\ usageAge' = Later(usageAge)
  /\ history' = [l \in Links |-> IF history[l] = Gone THEN Gone ELSE Later(history[l])]
  /\ seen' = [l \in Links |-> Later(seen[l])]
  /\ sample' = [t \in Threads |->
       IF sample[t].taken THEN [sample[t] EXCEPT !.age = 1] ELSE sample[t]]
  /\ UNCHANGED <<usage, scan, open>>

\* The agent starts some time after the machine.
CollectInit ==
  /\ usage = {} /\ usageAge \in 0 .. Old
  /\ scan = NoScan
  /\ open = {} /\ history = [l \in Links |-> Gone]
  /\ sample = [t \in Threads |-> NoSample]
  /\ seen = [l \in Links |-> Old]

ScanOn ==
  (\E v \in Volumes, readable \in BOOLEAN : ScanVolume(v, readable)) \/ ScanEnds

CollectNext ==
  \/ AskForUsage \/ ScanOn \/ ScanRaises
  \/ \E t \in Threads : ReadSockets(t) \/ FoldSample(t)
  \/ \E l \in Links : LinkOpens(l) \/ LinkCloses(l)
  \/ PassTime

-----------------------------------------------------------------------------
(* Properties.                                                             *)

\* Once scans stop failing midway, however often they did, the heartbeat speaks
\* again and again of every volume that is often readable when its turn comes,
\* whatever the other volumes do. (agent 957-995)
VolumesComeBack ==
  <>[][~ScanRaises]_collectVars =>
    \A v \in Volumes : SF_collectVars(ScanVolume(v, TRUE)) => []<>(v \in usage)

\* A connection once seen is reported for the next six hours, however short
\* it was and whatever later samples of either thread miss or fail to read: an
\* older sample folded late costs at most what it was late. (agent 398-470)
LinksRemembered ==
  \A l \in Links : seen[l] < SixHours => history[l] <= SixHours
=============================================================================
