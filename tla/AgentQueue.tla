----------------------------- MODULE AgentQueue -----------------------------
(***************************************************************************)
(* The Windows agent's heartbeat loop: a heartbeat that could not be sent  *)
(* is kept in a file and replayed, oldest first, before the next live one. *)
(* A send may fail although the hub recorded it; the machine may stop      *)
(* between any two steps and while the file is written.                    *)
(*                                                                         *)
(* Heartbeats are numbered as they are collected. What the hub does with   *)
(* one is ServerReachability's; here it only counts as received.           *)
(***************************************************************************)
EXTENDS Integers, Sequences, SequencesExt

CONSTANTS
  Cap,         \* QUEUE_MAX_ENTRIES
  MaxBeats,    \* bound on the heartbeats collected
  MaxCrashes   \* bound on the stops of the machine

ASSUME CapAssumption == Cap \in Nat \ {0}
ASSUME BoundsAssumption == MaxBeats \in Nat /\ MaxCrashes \in Nat

VARIABLES
  pc,         \* where the loop is
  file,       \* heartbeat_queue.jsonl
  torn,       \* the file's last line is cut off
  rest,       \* what the flush has not sent
  collected,  \* heartbeats collected so far
  aged,       \* heartbeats up to this one are older than QUEUE_MAX_AGE_SECONDS
  foreign,    \* those up to this one carry a server_id the hub deleted
  hubUp,      \* the hub answers in time; when FALSE any send may fail
  received,   \* heartbeats the hub recorded
  forgone,    \* heartbeats given up to the cap, to age or to a crash
  crashes

vars == <<pc, file, torn, rest, collected, aged, foreign, hubUp, received,
          forgone, crashes>>
world == <<aged, foreign, hubUp>>

Beats == 1 .. MaxBeats

TypeOK ==
  /\ pc \in {"flush", "sending", "save", "collect", "live", "enqueue", "stopped"}
  /\ file \in Seq(Beats) /\ Len(file) <= Cap
  /\ torn \in BOOLEAN
  /\ rest \in Seq(Beats)
  /\ collected \in 0 .. MaxBeats
  /\ aged \in 0 .. collected
  /\ foreign \in 0 .. collected
  /\ hubUp \in BOOLEAN
  /\ received \subseteq Beats
  /\ forgone \subseteq Beats
  /\ crashes \in 0 .. MaxCrashes

-----------------------------------------------------------------------------
(* send_heartbeat: what the agent is told, and what the hub recorded.      *)

Delivered(n) ==
  /\ n > foreign
  /\ received' = received \cup {n}

SendOk(n) == Delivered(n)

\* Refused as unknown, not reached, or recorded and the answer was late.
SendFails(n) ==
  \/ n <= foreign /\ UNCHANGED received
  \/ ~hubUp /\ (UNCHANGED received \/ Delivered(n))

-----------------------------------------------------------------------------
(* _flush_queue.                                                           *)

Young(n) == n > aged

\* The file is read; entries too old to be worth sending, by the clock read
\* here, fall out. Entries are queued in the order they were collected, so
\* these are the first ones. An empty queue is not saved.
StartFlush ==
  /\ pc = "flush" /\ ~torn
  /\ \E k \in 0 .. Len(file) :
       /\ \A j \in 1 .. Len(file) : Young(file[j]) <=> j > k
       /\ rest' = SubSeq(file, k + 1, Len(file))
  /\ pc' = IF file = <<>> THEN "collect" ELSE "sending"
  /\ UNCHANGED <<file, torn, collected, world, received, forgone, crashes>>

\* A line that is no JSON: the exception ends the service, cleanly, so the
\* service manager does not restart it.
FailToLoad ==
  /\ pc = "flush" /\ torn
  /\ pc' = "stopped"
  /\ UNCHANGED <<file, torn, rest, collected, world, received, forgone, crashes>>

FlushSent ==
  /\ pc = "sending" /\ rest # <<>>
  /\ SendOk(Head(rest))
  /\ rest' = Tail(rest)
  /\ UNCHANGED <<pc, file, torn, collected, world, forgone, crashes>>

\* Mutant: the entries behind the failed one are not kept.
FlushStops_KeepsOne ==
  /\ pc = "sending" /\ rest # <<>>
  /\ SendFails(Head(rest))
  /\ rest' = <<Head(rest)>>
  /\ pc' = "save"
  /\ UNCHANGED <<file, torn, collected, world, forgone, crashes>>

\* The first failure ends the sending; it and all behind it are kept.
FlushStops ==
  /\ pc = "sending" /\ rest # <<>>
  /\ SendFails(Head(rest))
  /\ pc' = "save"
  /\ UNCHANGED <<file, torn, rest, collected, world, forgone, crashes>>

\* Mutant: nothing left, nothing to save.
FlushDone_NotSaved ==
  /\ pc = "sending" /\ rest = <<>>
  /\ pc' = "collect"
  /\ UNCHANGED <<file, torn, rest, collected, world, received, forgone, crashes>>

FlushDone ==
  /\ pc = "sending" /\ rest = <<>>
  /\ pc' = "save"
  /\ UNCHANGED <<file, torn, rest, collected, world, received, forgone, crashes>>

\* What is in the file, was not received and is not kept was too old.
SaveFlush ==
  /\ pc = "save"
  /\ file' = rest
  /\ rest' = <<>>
  /\ forgone' = forgone \cup
       {n \in ToSet(file) \ (ToSet(rest) \cup received) : n <= aged}
  /\ pc' = "collect"
  /\ UNCHANGED <<torn, collected, world, received, crashes>>

-----------------------------------------------------------------------------
(* The live heartbeat and _queue_failed.                                   *)

Collect ==
  /\ pc = "collect"
  /\ collected < MaxBeats
  /\ collected' = collected + 1
  /\ pc' = "live"
  /\ UNCHANGED <<file, torn, rest, world, received, forgone, crashes>>

\* Past the bound the loop goes on; its heartbeats are not numbered.
CollectUncounted ==
  /\ pc = "collect"
  /\ collected = MaxBeats
  /\ pc' = "flush"
  /\ UNCHANGED <<file, torn, rest, collected, world, received, forgone, crashes>>

LiveSent ==
  /\ pc = "live"
  /\ SendOk(collected)
  /\ pc' = "flush"
  /\ UNCHANGED <<file, torn, rest, collected, world, forgone, crashes>>

LiveFails ==
  /\ pc = "live"
  /\ SendFails(collected)
  /\ pc' = "enqueue"
  /\ UNCHANGED <<file, torn, rest, collected, world, forgone, crashes>>

\* The last QUEUE_MAX_ENTRIES.
Trimmed(entries) ==
  IF Len(entries) <= Cap THEN entries
  ELSE SubSeq(entries, Len(entries) - Cap + 1, Len(entries))

Enqueue ==
  /\ pc = "enqueue"
  /\ file' = Trimmed(Append(file, collected))
  /\ forgone' = forgone \cup (ToSet(Append(file, collected)) \ ToSet(file'))
  /\ pc' = "flush"
  /\ UNCHANGED <<torn, rest, collected, world, received, crashes>>

-----------------------------------------------------------------------------
(* Stops and the world.                                                    *)

\* A stop between two steps loses what is in hand; one while the file is
\* written, truncated first, leaves a prefix of it, perhaps cut in a line.
Stop(content) ==
  /\ crashes < MaxCrashes
  /\ crashes' = crashes + 1
  /\ pc' = "stopped"
  /\ rest' = <<>>
  /\ file' = content
  /\ forgone' = forgone \cup
       ((ToSet(file) \cup IF pc \in {"live", "enqueue"} THEN {collected} ELSE {})
          \ (ToSet(content) \cup received))
  /\ UNCHANGED <<collected, world, received>>

Crash ==
  \/ pc # "stopped" /\ Stop(file) /\ UNCHANGED torn
  \/ /\ pc \in {"save", "enqueue"}
     /\ LET written == IF pc = "save" THEN rest ELSE Trimmed(Append(file, collected)) IN
        \E k \in 0 .. Len(written) :
          /\ Stop(SubSeq(written, 1, k))
          /\ torn' \in {FALSE, k < Len(written)}

\* The machine boots, or somebody starts the service.
StartService ==
  /\ pc = "stopped"
  /\ pc' = "flush"
  /\ UNCHANGED <<file, torn, rest, collected, world, received, forgone, crashes>>

HeartbeatsAge ==
  /\ \E n \in aged + 1 .. collected : aged' = n
  /\ UNCHANGED <<pc, file, torn, rest, collected, foreign, hubUp, received, forgone, crashes>>

\* The server is deleted at the hub, and the machine enrolled anew.
ServerReplaced ==
  /\ foreign # collected
  /\ foreign' = collected
  /\ UNCHANGED <<pc, file, torn, rest, collected, aged, hubUp, received, forgone, crashes>>

HubChanges ==
  /\ hubUp' = ~hubUp
  /\ UNCHANGED <<pc, file, torn, rest, collected, aged, foreign, received, forgone, crashes>>

-----------------------------------------------------------------------------
Init ==
  /\ pc = "flush"
  /\ file = <<>> /\ torn = FALSE /\ rest = <<>>
  /\ collected = 0 /\ aged = 0 /\ foreign = 0
  /\ hubUp = TRUE
  /\ received = {}
  /\ forgone = {}
  /\ crashes = 0

Loop ==
  \/ StartFlush \/ FailToLoad \/ FlushSent \/ FlushStops \/ FlushDone \/ SaveFlush
  \/ Collect \/ CollectUncounted \/ LiveSent \/ LiveFails \/ Enqueue

Next ==
  \/ Loop \/ Crash \/ StartService
  \/ HeartbeatsAge \/ ServerReplaced \/ HubChanges

Spec == Init /\ [][Next]_vars

\* The loop runs on, the service is started again after a boot.
FairSpec == Spec /\ WF_vars(Loop) /\ WF_vars(StartService)

-----------------------------------------------------------------------------
(* Properties.                                                             *)

InHand == IF pc \in {"live", "enqueue"} THEN {collected} ELSE {}

\* agent 37-41: no heartbeat is lost but to the cap, to age or to a stop of
\* the machine: it was recorded, or it waits in the file, or the loop is about
\* to send or queue it. (agent 1165-1194, 1290-1302)
EvidenceKept ==
  \A n \in 1 .. collected :
    n \in received \cup ToSet(file) \cup InHand \cup forgone

\* A replayed heartbeat leaves the file: with the hub up for good, the file
\* whole and no queued heartbeat foreign, nothing stays queued for ever.
\* A foreign one would hold those behind it until it is too old.
\* (agent 1174-1194)
QueueDrains ==
  <>[](hubUp /\ ~torn /\ foreign = 0) =>
    \A n \in Beats : []<>(n \notin ToSet(file))

=============================================================================
