-------------------------- MODULE Services_proofs --------------------------
(***************************************************************************)
(* What the safety properties of the smaller components rest on, for every *)
(* value of their constants: AgentCollect, Retention, Inventory, Probes    *)
(* and Versions share no state, so each has its own invariant and theorem. *)
(***************************************************************************)
EXTENDS Services, WorkflowSession_proofs, FiniteSetsExt, SequenceTheorems

CollectSpec == Collect!CollectInit /\ [][Collect!CollectNext]_Collect!collectVars
RetentionSpec == Purge!RetentionInit /\ [][Purge!RetentionNext]_Purge!retentionVars
InventorySpec == Drift!InventoryInit /\ [][Drift!InventoryNext]_Drift!inventoryVars
ProbesSpec == Probe!ProbesInit /\ [][Probe!ProbesNext]_Probe!probeVars
VersionsSpec == Edits!VersionsInit /\ [][Edits!VersionsNext]_Edits!versionVars

-----------------------------------------------------------------------------
(* AgentCollect. The history ages with the last folded sample that held    *)
(* the link, and leaves a link out only once that is long ago.             *)

\* The ages a thread's sample can have.
SamplesAge == \A t \in Collect!Threads : sample[t].age \in 0 .. 1

HistoryFollows ==
  \A l \in Links :
    /\ seen[l] \in 0 .. Collect!Old
    /\ \/ history[l] = seen[l]
       \/ history[l] = Collect!Gone /\ seen[l] = Collect!Old

LinksKept ==
  /\ sample = [t \in Collect!Threads |-> sample[t]]
  /\ SamplesAge
  /\ HistoryFollows

\* A thread's new sample leaves the other thread's as it was.
LEMMA SampleReplaced ==
  ASSUME sample = [t \in Collect!Threads |-> sample[t]], SamplesAge,
         NEW t \in Collect!Threads, NEW s, s.age \in 0 .. 1,
         sample' = [sample EXCEPT ![t] = s]
  PROVE  sample' = [u \in Collect!Threads |-> sample'[u]] /\ SamplesAge'
<1>1. \A u \in Collect!Threads : sample'[u] = IF u = t THEN s ELSE sample[u]
  OBVIOUS
<1>2. SamplesAge'
  BY <1>1 DEF SamplesAge
<1> QED
  BY <1>2

\* A connection once seen is reported for six hours: whatever the two threads
\* fold, and in whatever order, the history is as old as the last sample folded
\* that held the link, and drops it when that is more than six hours ago.
\* (agent 398-470)
THEOREM LinksAreRemembered ==
  ASSUME SixHours \in Nat
  PROVE  CollectSpec => []LinksRemembered
<1> USE DEF LinksKept, SamplesAge, HistoryFollows, Collect!Old, Collect!Gone
<1>1. Collect!CollectInit => LinksKept
  BY DEF Collect!CollectInit, Collect!NoSample
<1>2. LinksKept /\ [Collect!CollectNext]_Collect!collectVars => LinksKept'
  <2> SUFFICES ASSUME LinksKept, [Collect!CollectNext]_Collect!collectVars
               PROVE  LinksKept'
    OBVIOUS
  <2>1. CASE UNCHANGED <<history, sample, seen>>
    BY <2>1
  <2>2. ASSUME NEW t \in Collect!Threads, Collect!ReadSockets(t)  PROVE LinksKept'
    <3>1. PICK current : sample' = [sample EXCEPT ![t] =
                           [taken |-> TRUE, current |-> current, age |-> 0]]
      BY <2>2 DEF Collect!ReadSockets
    <3>2. UNCHANGED <<history, seen>>
      BY <2>2 DEF Collect!ReadSockets
    <3>3. SamplesAge'
      BY SampleReplaced, <3>1
    <3>4. sample' = [u \in Collect!Threads |-> sample'[u]]
      BY SampleReplaced, <3>1
    <3> QED
      BY <3>2, <3>3, <3>4
  <2>3. ASSUME NEW t \in Collect!Threads, Collect!FoldSample(t)  PROVE LinksKept'
    <3>1. /\ history' = Collect!Folded(sample[t])
          /\ seen' = [l \in Links |->
               IF l \in sample[t].current THEN sample[t].age ELSE seen[l]]
          /\ sample' = [sample EXCEPT ![t] = Collect!NoSample]
      BY <2>3 DEF Collect!FoldSample
    <3>2. sample' = [u \in Collect!Threads |-> sample'[u]] /\ SamplesAge'
      BY SampleReplaced, <3>1 DEF Collect!NoSample
    <3>3. HistoryFollows'
      BY <3>1 DEF Collect!Folded
    <3> QED
      BY <3>2, <3>3
  <2>4. ASSUME Collect!PassTime  PROVE LinksKept'
    <3>1. /\ history' = [l \in Links |->
               IF history[l] = Collect!Gone THEN Collect!Gone ELSE Collect!Later(history[l])]
          /\ seen' = [l \in Links |-> Collect!Later(seen[l])]
          /\ sample' = [t \in Collect!Threads |->
               IF sample[t].taken THEN [sample[t] EXCEPT !.age = 1] ELSE sample[t]]
      BY <2>4 DEF Collect!PassTime
    <3>2. sample' = [u \in Collect!Threads |-> sample'[u]] /\ SamplesAge'
      BY <3>1
    <3>3. HistoryFollows'
      BY <3>1 DEF Collect!Later
    <3> QED
      BY <3>2, <3>3
  <2> QED
    BY <2>1, <2>2, <2>3, <2>4
    DEF Collect!CollectNext, Collect!AskForUsage, Collect!ScanOn, Collect!ScanVolume,
        Collect!ScanEnds, Collect!ScanRaises, Collect!LinkOpens, Collect!LinkCloses,
        Collect!collectVars, Collect!linkVars
<1>3. LinksKept => Collect!LinksRemembered
  BY DEF Collect!LinksRemembered
<1> QED
  BY <1>1, <1>2, <1>3, PTL DEF CollectSpec, LinksRemembered

-----------------------------------------------------------------------------
(* Retention. A mail that waits for its first copy is no older than the    *)
(* wait, and its incident older than the mail by an outage at most.        *)

RetentionTyped ==
  /\ keepIncidents \in Nat /\ keepMail \in Nat
  /\ incident \in [status : {"OPEN", "RESOLVED"}, age : Nat] \cup {Purge!Gone}
  /\ mail \in [status : {"PENDING", "SENT"}, age : Nat] \cup {Purge!Gone}
  /\ held \in 0 .. MaxHeld
  /\ worker \in {"works", "holds", "away"}
  /\ worker # "works" => held > 0
  /\ delivered \in 0 .. 2

\* Nothing is mailed before the incident closes, nothing marked before it was
\* mailed, and a second copy needs a mail that could not be marked.
Copies ==
  /\ incident.status = "OPEN" => mail = Purge!Gone /\ delivered = 0
  /\ mail.status = "SENT" => delivered = 1
  /\ mail.status = "PENDING" /\ delivered > 0 => incident = Purge!Gone
  /\ delivered > 1 => incident = Purge!Gone /\ mail.status # "SENT"

\* How long a mail has waited for its first copy.
Waiting ==
  mail.status = "PENDING" /\ delivered = 0 =>
    IF worker = "works" THEN mail.age <= MaxHeld ELSE mail.age < held

\* Where incidents are kept long enough that of a mail which waits is there.
IncidentThere ==
  Purge!IncidentsKept =>
    /\ delivered <= 1
    /\ mail.status = "PENDING" =>
         incident.status = "RESOLVED" /\ incident.age <= MaxOutage + mail.age

\* Where mails are kept long enough none is purged before its first copy.
MailThere ==
  Purge!MailKept => (mail = Purge!Gone => incident.status = "OPEN" \/ delivered >= 1)

MailSafe == RetentionTyped /\ Copies /\ Waiting /\ IncidentThere /\ MailThere

\* A mail held over quiet days or an absence of the worker goes out twice only
\* where its incident is gone and it cannot be marked, never where incidents
\* are kept for longer than an outage and the wait, and is not purged before
\* its first copy where mails are kept for longer than the wait.
\* (retention_service 30-84, notification_service 450-472)
THEOREM MailGoesOnce ==
  ASSUME Days \subseteq Nat, MaxOutage \in Nat, MaxHeld \in Nat
  PROVE  RetentionSpec => []HeldMailGoesOnce
<1> USE DEF RetentionTyped, Copies, Waiting, IncidentThere, MailThere, Purge!Gone,
            Purge!IncidentsKept, Purge!MailKept, Purge!settings
<1>1. Purge!RetentionInit => MailSafe
  BY DEF Purge!RetentionInit, MailSafe
<1>2. MailSafe /\ [Purge!RetentionNext]_Purge!retentionVars => MailSafe'
  <2> SUFFICES ASSUME MailSafe, [Purge!RetentionNext]_Purge!retentionVars
               PROVE  MailSafe'
    OBVIOUS
  <2> USE DEF MailSafe
  <2>1. CASE Purge!PurgeIfDue
    BY <2>1 DEF Purge!PurgeIfDue, Purge!Expired
  <2>2. CASE Purge!RetryMail
    BY <2>2 DEF Purge!RetryMail
  <2>3. CASE Purge!Resolve
    BY <2>3 DEF Purge!Resolve
  <2>4. ASSUME NEW w \in {"works", "holds", "away"}, Purge!NextDay(w)  PROVE MailSafe'
    <3> USE DEF Purge!Older, Purge!Horizon
    <3>1. RetentionTyped'
      BY <2>4 DEF Purge!NextDay
    <3>2. Copies'
      BY <2>4 DEF Purge!NextDay
    <3>3. Waiting'
      BY <2>4 DEF Purge!NextDay
    <3>4. IncidentThere'
      BY <2>4 DEF Purge!NextDay
    <3>5. MailThere'
      BY <2>4 DEF Purge!NextDay
    <3> QED
      BY <3>1, <3>2, <3>3, <3>4, <3>5
  <2>5. CASE UNCHANGED Purge!retentionVars
    BY <2>5 DEF Purge!retentionVars
  <2> QED
    BY <2>1, <2>2, <2>3, <2>4, <2>5 DEF Purge!RetentionNext
<1>3. MailSafe => Purge!HeldMailGoesOnce
  BY DEF MailSafe, Purge!HeldMailGoesOnce
<1> QED
  BY <1>1, <1>2, <1>3, PTL DEF RetentionSpec, HeldMailGoesOnce

-----------------------------------------------------------------------------
(* Inventory. Between its two commits a request's changes already count.   *)

\* What the rows tell and an inventory, as far as rows can tell it.
Agrees(inventory) ==
  IF category = "SERVICE" THEN DOMAIN told = DOMAIN Drift!Usable(inventory)
  ELSE told = Drift!Usable(inventory)

\* Before a reader's beginning nothing is stored.
RowsAddUp ==
  /\ request.busy \in BOOLEAN
  /\ ~begun => snapshot = << >>
  /\ sure => Agrees(IF request.busy THEN request.items ELSE snapshot)

\* Changes told from where the rows agree lead to where they agree again.
LEMMA ChangesAddUp ==
  ASSUME NEW new, Agrees(snapshot), UNCHANGED category,
         told' = Drift!After(told, Drift!Usable(snapshot), Drift!Usable(new))
  PROVE  Agrees(new)'
<1> DEFINE old == Drift!Usable(snapshot)
           after == Drift!Usable(new)
<1>1. after = [i \in DOMAIN after |-> after[i]] /\ Drift!Usable(new)' = after
  BY DEF Drift!Usable
<1>2. DOMAIN told' = (DOMAIN told \cup (DOMAIN after \ DOMAIN old)) \ (DOMAIN old \ DOMAIN after)
  BY DEF Drift!After, Drift!Added, Drift!Removed
<1>3. DOMAIN told = DOMAIN old => DOMAIN told' = DOMAIN after
  <2> HIDE DEF old, after
  <2> QED
    BY <1>2
<1>4. CASE category = "SERVICE"
  BY <1>1, <1>3, <1>4 DEF Agrees
<1>5. CASE category # "SERVICE"
  <2>1. told = old /\ DOMAIN told' = DOMAIN after
    BY <1>3, <1>5 DEF Agrees
  <2>2. \A i \in DOMAIN after : told'[i] = after[i]
    BY <2>1, <1>5 DEF Drift!After, Drift!Added, Drift!Removed, Drift!Altered
  <2>3. told' = [i \in DOMAIN told' |-> told'[i]]
    BY DEF Drift!After
  <2>4. told' = after
    <3> HIDE DEF after
    <3> QED
      BY <1>1, <2>1, <2>2, <2>3
  <2> QED
    BY <1>1, <1>5, <2>4 DEF Agrees
<1> QED
  BY <1>4, <1>5

\* Whatever comes and goes, the rows since the first snapshot add up to the
\* stored one, for any inventories and any cap, unless a request failed between
\* its commits, the cap cut a heartbeat's changes short, or something was found
\* after an empty snapshot. (server_service 340-430)
THEOREM RowsTellTheInventory == InventorySpec => []DriftRecorded
<1>0. Drift!Usable(<< >>) = << >>
  <2>1. << >> = [i \in {} |-> 0] /\ DOMAIN << >> = {}
    OBVIOUS
  <2> QED
    BY <2>1 DEF Drift!Usable
<1>1. Drift!InventoryInit => RowsAddUp
  <2> SUFFICES ASSUME Drift!InventoryInit  PROVE RowsAddUp
    OBVIOUS
  <2>1. snapshot = << >> /\ told = << >> /\ request.busy = FALSE
    BY DEF Drift!InventoryInit, Drift!Idle
  <2> QED
    BY <1>0, <2>1 DEF RowsAddUp, Agrees
<1>2. RowsAddUp /\ [Drift!InventoryNext]_Drift!inventoryVars => RowsAddUp'
  <2> SUFFICES ASSUME RowsAddUp, [Drift!InventoryNext]_Drift!inventoryVars
               PROVE  RowsAddUp'
    OBVIOUS
  <2>1. ASSUME NEW new, Drift!DetectChanges(new)  PROVE RowsAddUp'
    <3>1. /\ ~request.busy /\ request'.busy = TRUE /\ request'.items = new
          /\ UNCHANGED <<category, snapshot, begun>>
      BY <2>1 DEF Drift!DetectChanges
    <3>2. CASE snapshot = << >> /\ ~begun
      <4>1. told' = Drift!Usable(new)
        BY <2>1, <3>2 DEF Drift!DetectChanges
      <4>2. Agrees(new)'
        BY <3>1, <4>1 DEF Agrees, Drift!Usable
      <4> QED
        BY <3>1, <3>2, <4>2 DEF RowsAddUp, Agrees, Drift!Usable
    <3>3. CASE snapshot = << >> /\ begun
      <4>1. told' = told /\ (sure' => sure /\ Drift!Usable(new) = << >>)
        BY <2>1, <3>3 DEF Drift!DetectChanges
      <4>2. Drift!Usable(new)' = Drift!Usable(new)
        BY DEF Drift!Usable
      <4>3. sure' => Agrees(new)'
        BY <1>0, <3>1, <3>3, <4>1, <4>2 DEF RowsAddUp, Agrees
      <4> QED
        BY <3>1, <3>3, <4>3 DEF RowsAddUp, Agrees, Drift!Usable
    <3>4. CASE snapshot # << >>
      <4>1. told' = Drift!After(told, Drift!Usable(snapshot), Drift!Usable(new))
        BY <2>1, <3>4 DEF Drift!DetectChanges
      <4>2. sure' => sure
        BY <2>1, <3>4 DEF Drift!DetectChanges
      <4>3. sure => Agrees(new)'
        BY <3>1, <4>1, ChangesAddUp DEF RowsAddUp
      <4> QED
        BY <3>1, <3>4, <4>2, <4>3 DEF RowsAddUp, Agrees, Drift!Usable
    <3> QED
      BY <3>2, <3>3, <3>4
  <2>2. CASE Drift!StoreSnapshot
    BY <2>2 DEF Drift!StoreSnapshot, Drift!Idle, RowsAddUp, Agrees, Drift!Usable
  <2>3. CASE Drift!FailRequest
    <3>1. /\ request'.busy = FALSE /\ UNCHANGED <<category, snapshot, begun>>
          /\ sure' => ~begun
          /\ ~begun => told' = << >>
      BY <2>3 DEF Drift!FailRequest, Drift!Idle
    <3>2. ~begun => snapshot' = << >> /\ Drift!Usable(snapshot)' = << >>
      BY <1>0, <3>1 DEF RowsAddUp, Drift!Usable
    <3>3. sure' => Agrees(snapshot)'
      BY <3>1, <3>2 DEF Agrees
    <3> QED
      BY <3>1, <3>2, <3>3 DEF RowsAddUp, Agrees, Drift!Usable
  <2>4. CASE UNCHANGED Drift!inventoryVars
    BY <2>4 DEF Drift!inventoryVars, RowsAddUp, Agrees, Drift!Usable
  <2> QED
    BY <2>1, <2>2, <2>3, <2>4 DEF Drift!InventoryNext
<1>3. RowsAddUp => Drift!DriftRecorded
  BY DEF RowsAddUp, Agrees, Drift!DriftRecorded
<1> QED
  BY <1>1, <1>2, <1>3, PTL DEF InventorySpec, DriftRecorded

-----------------------------------------------------------------------------
(* Probes. What was checked and diagnosed is the verdict and the chain of  *)
(* one target; that the two agree is a fact about the operators.           *)

OfOneTarget ==
  /\ target \in Targets
  /\ checked \in {Probe!NotYet, Probe!Attempt(application)}
  /\ diagnosed \in {<< >>, Probe!Chain(application)}

\* An attempt that gets through to its end is never worse than slow.
LEMMA GradesPass == \A elapsed : Probe!Grade(elapsed) \in Probe!Passed
  BY DEF Probe!Grade, Probe!Passed

\* Where all addresses behave alike and the limits on connecting do not tell
\* the delays apart, the address diagnose tries connects when some address does.
LEMMA FirstSpeaksForAll ==
  ASSUME target.sortedFirst \in DOMAIN target.answers,
         \A i \in DOMAIN target.answers : target.answers[i] = target.answers[1],
         NEW timeout, Probe!SameSide(target.connect, timeout, Probe!ConnectTimeout)
  PROVE  Probe!Connects(timeout) <=> target.resolves /\ Probe!FirstAccepts
  BY DEF Probe!Connects, Probe!Accepting, Probe!FirstAccepts, Probe!SameSide

\* A port is found open exactly when the check connects.
LEMMA TcpAgrees ==
  ASSUME target.sortedFirst \in DOMAIN target.answers,
         application.type = "TCP", Probe!Comparable(application)
  PROVE  LET chain == Probe!Chain(application)
         IN  Probe!Attempt(application) \in Probe!Passed
               <=> \A step \in DOMAIN chain : chain[step] # "failed"
<1> DEFINE chain == Probe!Chain(application)
<1>1. Probe!Connects(application.timeout) <=> target.resolves /\ Probe!FirstAccepts
  BY FirstSpeaksForAll DEF Probe!Comparable
<1>2. Probe!Attempt(application) \in Probe!Passed <=> Probe!Connects(application.timeout)
  BY GradesPass DEF Probe!Attempt, Probe!TcpAttempt, Probe!Passed
<1>3. chain = IF ~target.resolves THEN [dns |-> "failed"]
              ELSE IF ~Probe!FirstAccepts THEN [dns |-> "ok", tcp |-> "failed"]
              ELSE [dns |-> "ok", tcp |-> "ok"]
  BY DEF Probe!Chain
<1>4. (\A step \in DOMAIN chain : chain[step] # "failed")
        <=> target.resolves /\ Probe!FirstAccepts
  <2> HIDE DEF chain
  <2> QED
    BY <1>3
<1> QED
  BY <1>1, <1>2, <1>4

\* A page is found in order exactly when the check passes.
LEMMA HttpAgrees ==
  ASSUME target.sortedFirst \in DOMAIN target.answers,
         application.type = "HTTP", Probe!Comparable(application)
  PROVE  LET chain == Probe!Chain(application)
         IN  Probe!Attempt(application) \in Probe!Passed
               <=> \A step \in DOMAIN chain : chain[step] # "failed"
<1> DEFINE chain == Probe!Chain(application)
           texts == application.contains \cup application.absent
           page == /\ Probe!Answers /\ target.status = "expected"
                   /\ texts # {} => Probe!RightText(application)
<1>1. Probe!Connects(application.timeout) <=> target.resolves /\ Probe!FirstAccepts
  BY FirstSpeaksForAll DEF Probe!Comparable
<1>2. Probe!Connects(application.timeout) <=> Probe!Connects(Probe!HttpTimeout)
  BY DEF Probe!Comparable, Probe!SameSide, Probe!Connects
<1>3. Probe!Attempt(application) \in Probe!Passed
        <=> /\ Probe!Connects(application.timeout) /\ target.tls
            /\ target.respond <= application.timeout
            /\ target.status = "expected"
            /\ texts # {} => ~target.stalls /\ Probe!RightText(application)
  BY GradesPass DEF Probe!Attempt, Probe!HttpAttempt, Probe!Passed
<1>4. Probe!Attempt(application) \in Probe!Passed
        <=> Probe!Connects(application.timeout) /\ page
  BY <1>2, <1>3 DEF Probe!Comparable, Probe!SameSide, Probe!Answers
<1>5. (\A step \in DOMAIN Probe!PageSteps(application) :
         Probe!PageSteps(application)[step] # "failed") <=> page
  <2>1. Probe!ContentStep(application) = "failed"
          <=> texts # {} /\ ~Probe!RightText(application)
    BY DEF Probe!ContentStep, Probe!Said
  <2>2. Probe!Said(target.status = "expected") = "failed" <=> target.status # "expected"
    BY DEF Probe!Said
  <2>3. CASE Probe!Answers
    <3> DEFINE http == Probe!Said(target.status = "expected")
               content == Probe!ContentStep(application)
               steps == [dns |-> "ok", tcp |-> "ok", http |-> http, content |-> content]
    <3>1. Probe!PageSteps(application) = steps
      BY <2>3 DEF Probe!PageSteps
    <3>2. (\A step \in DOMAIN steps : steps[step] # "failed")
            <=> http # "failed" /\ content # "failed"
      <4> HIDE DEF http, content
      <4> QED
        OBVIOUS
    <3> QED
      BY <2>1, <2>2, <2>3, <3>1, <3>2
  <2>4. CASE ~Probe!Answers
    BY <2>4 DEF Probe!PageSteps
  <2> QED
    BY <2>3, <2>4
<1>6. chain = IF ~target.resolves THEN [dns |-> "failed"]
              ELSE IF ~Probe!FirstAccepts THEN [dns |-> "ok", tcp |-> "failed"]
              ELSE Probe!PageSteps(application)
  BY DEF Probe!Chain
<1>7. (\A step \in DOMAIN chain : chain[step] # "failed")
        <=> target.resolves /\ Probe!FirstAccepts /\ page
  <2> HIDE DEF chain, page
  <2> QED
    BY <1>5, <1>6
<1> QED
  BY <1>1, <1>4, <1>7

\* For any limits, delays and texts and any addresses, a diagnosis finds a
\* fault exactly when the check does, wherever the two can be compared at all.
\* The assumption is that the first of the sorted addresses is one of them.
\* (monitoring_service 61-102, 323-373; diagnose_service 75-165)
THEOREM DiagnosisFollowsTheCheck ==
  ASSUME \A t \in Targets : t.sortedFirst \in DOMAIN t.answers
  PROVE  ProbesSpec => []DiagnosisAgrees
<1>1. Probe!ProbesInit => OfOneTarget
  BY DEF Probe!ProbesInit, OfOneTarget
<1>2. OfOneTarget /\ [Probe!ProbesNext]_Probe!probeVars => OfOneTarget'
  <2> SUFFICES ASSUME OfOneTarget, [Probe!ProbesNext]_Probe!probeVars
               PROVE  OfOneTarget'
    OBVIOUS
  <2>1. UNCHANGED <<application, target>>
    BY DEF Probe!ProbesNext, Probe!Check, Probe!Diagnose, Probe!probeVars
  <2>2. /\ Probe!Attempt(application)' = Probe!Attempt(application)
        /\ Probe!Chain(application)' = Probe!Chain(application)
        /\ Probe!NotYet' = Probe!NotYet
    BY <2>1 DEF Probe!Attempt, Probe!TcpAttempt, Probe!DatabaseAttempt, Probe!HttpAttempt,
      Probe!FileAttempt, Probe!LogAttempt, Probe!Connects, Probe!ConnectTime, Probe!Accepting,
      Probe!RightText, Probe!Chain, Probe!FirstAccepts, Probe!PageSteps, Probe!Answers,
      Probe!ContentStep, Probe!Grade, Probe!Said, Probe!NotYet, Probe!HttpTimeout,
      Probe!ConnectTimeout, Probe!Slow
  <2>3. /\ checked' \in {checked, Probe!Attempt(application)}
        /\ diagnosed' \in {diagnosed, Probe!Chain(application)}
    BY DEF Probe!ProbesNext, Probe!Check, Probe!Diagnose, Probe!probeVars
  <2> QED
    BY <2>1, <2>2, <2>3 DEF OfOneTarget
<1>3. OfOneTarget => Probe!DiagnosisAgrees
  <2> SUFFICES ASSUME OfOneTarget, application.type \in {"TCP", "HTTP"},
                      Probe!Comparable(application),
                      checked # Probe!NotYet, diagnosed # << >>
               PROVE  checked \in Probe!Passed
                        <=> \A step \in DOMAIN diagnosed : diagnosed[step] # "failed"
    BY DEF Probe!DiagnosisAgrees
  <2>1. /\ checked = Probe!Attempt(application)
        /\ diagnosed = Probe!Chain(application)
        /\ target.sortedFirst \in DOMAIN target.answers
    BY DEF OfOneTarget
  <2> QED
    BY <2>1, TcpAgrees, HttpAgrees
<1> QED
  BY <1>1, <1>2, <1>3, PTL DEF ProbesSpec, DiagnosisAgrees

-----------------------------------------------------------------------------
(* Versions. Numbers leave no gap, and a request that was not overlapped   *)
(* still finds the row as it read it and its version where it put it.      *)

\* The row a rollback to version n takes.
FirstIs(n, i) ==
  /\ i \in DOMAIN versions /\ versions[i].number = n
  /\ \A j \in DOMAIN versions : j < i => versions[j].number # n

HistorySound ==
  /\ profile \in Edits!Profiles
  /\ versions \in Seq([number : Nat, snapshot : Edits!Profiles])
  /\ \E m \in Nat : Edits!Numbers = 1 .. m
  /\ \A n \in Edits!Numbers : \E i \in DOMAIN versions : FirstIs(n, i)

\* A request that is alone: nothing was written since it read the row but its
\* own version, the first of that number.
Undisturbed(e) ==
  /\ e.loaded = profile
  /\ e.stage = "loaded" => e.number \notin Edits!Numbers
  /\ e.stage = "recorded" =>
       \E i \in DOMAIN versions : FirstIs(e.number, i) /\ versions[i].snapshot = profile

Sets(changes) ==
  /\ "field" \in DOMAIN changes => changes["field"] \in Values
  /\ "enabled" \in DOMAIN changes => changes["enabled"] \in BOOLEAN

Shaped(e) ==
  e \in [stage : {"loaded", "recorded"}, loaded : Edits!Profiles, changes : {e.changes},
         number : Nat, alone : BOOLEAN]

EditSound(e) ==
  e # Edits!NoEdit =>
    /\ Shaped(e) /\ Sets(e.changes)
    /\ e.number > 0 /\ e.number - 1 \in Edits!Numbers \cup {0}
    /\ e.alone => Undisturbed(e)

EditsSound ==
  /\ HistorySound
  /\ edit = [r \in Requests |-> edit[r]]
  /\ \A r \in Requests : EditSound(edit[r])

\* A rollback takes the first row of a number.
LEMMA SnapshotIsFirst ==
  ASSUME HistorySound, NEW n, NEW i, FirstIs(n, i)
  PROVE  Edits!SnapshotOf(n) = versions[i].snapshot /\ n \in Edits!Numbers
<1> DEFINE rows == {j \in DOMAIN versions : versions[j].number = n}
<1>1. i \in rows /\ rows \subseteq Nat /\ \A j \in rows : i <= j
  BY DEF HistorySound, FirstIs
<1>2. Edits!Min(rows) = i
  <2> HIDE DEF rows
  <2>1. Edits!Min(rows) \in rows /\ \A j \in rows : Edits!Min(rows) <= j
    BY <1>1 DEF Edits!Min
  <2>2. Edits!Min(rows) <= i /\ i <= Edits!Min(rows) /\ i \in Nat /\ Edits!Min(rows) \in Nat
    BY <1>1, <2>1
  <2> QED
    BY <2>2
<1> QED
  BY <1>2 DEF Edits!SnapshotOf, Edits!Numbers, FirstIs

\* Two fields are set.
LEMMA OverlapShaped ==
  ASSUME NEW e, Shaped(e), NEW x, x = [e EXCEPT !.alone = FALSE]
  PROVE  /\ Shaped(x) /\ ~x.alone
         /\ x.number = e.number /\ x.changes = e.changes /\ x.stage = e.stage
  BY DEF Shaped

\* The same of the stage.
LEMMA RecordedShaped ==
  ASSUME NEW e, Shaped(e), NEW x, x = [e EXCEPT !.stage = "recorded"]
  PROVE  /\ Shaped(x) /\ x.stage = "recorded" /\ x.loaded = e.loaded
         /\ x.number = e.number /\ x.changes = e.changes /\ x.alone = e.alone
  BY DEF Shaped

\* What a request has read stays true while nothing is written.
LEMMA StillSound ==
  ASSUME NEW e, EditSound(e), UNCHANGED <<profile, versions>>
  PROVE  EditSound(e)'
  BY DEF EditSound, Shaped, Sets, Undisturbed, FirstIs, Edits!NoEdit, Edits!Numbers,
         Edits!Profiles

\* Once overlapped it claims nothing of the row.
LEMMA OverlapSound ==
  ASSUME NEW e, EditSound(e), e # Edits!NoEdit, NEW x, x = [e EXCEPT !.alone = FALSE],
         Edits!Numbers \subseteq Edits!Numbers'
  PROVE  EditSound(x)'
<1>1. Shaped(e) /\ Sets(e.changes) /\ e.number > 0
      /\ e.number - 1 \in Edits!Numbers \cup {0}
  BY DEF EditSound
<1>2. /\ Shaped(x) /\ ~x.alone
      /\ x.number = e.number /\ x.changes = e.changes /\ x.stage = e.stage
  BY <1>1, OverlapShaped
<1>3. Shaped(x)' /\ Sets(x.changes)' /\ x.number > 0
      /\ x.number - 1 \in Edits!Numbers' \cup {0}
  BY <1>1, <1>2 DEF Shaped, Sets, Edits!Profiles
<1> QED
  BY <1>2, <1>3 DEF EditSound

\* What is written overlaps every other request that is in an edit.
LEMMA OthersSound ==
  ASSUME EditsSound, NEW own, NEW q \in Requests, q \notin own,
         edit'[q] = Edits!Overlapped(own)[q],
         Edits!Numbers \subseteq Edits!Numbers'
  PROVE  EditSound(edit[q])'
<1>1. PICK x : x = edit'[q]
  OBVIOUS
<1>2. EditSound(x)'
  <2>1. CASE edit[q] = Edits!NoEdit
    <3>1. x = Edits!NoEdit
      BY <1>1, <2>1 DEF Edits!Overlapped
    <3> QED
      BY <3>1 DEF EditSound, Edits!NoEdit
  <2>2. CASE edit[q] # Edits!NoEdit
    <3>1. x = [edit[q] EXCEPT !.alone = FALSE]
      BY <1>1, <2>2 DEF Edits!Overlapped
    <3>2. PICK e : e = edit[q]
      OBVIOUS
    <3>3. EditSound(e) /\ e # Edits!NoEdit /\ x = [e EXCEPT !.alone = FALSE]
      BY <2>2, <3>1, <3>2, Zenon DEF EditsSound
    <3> QED
      BY <3>3, OverlapSound
  <2> QED
    BY <2>1, <2>2
<1> QED
  BY <1>1, <1>2 DEF EditSound, Shaped, Sets, Undisturbed, FirstIs

\* The next number is taken by no row and leaves no gap.
LEMMA NextNumber ==
  ASSUME HistorySound
  PROVE  LET n == Edits!Max(Edits!Numbers \cup {0}) + 1
         IN  n \in Nat /\ n > 0 /\ n \notin Edits!Numbers /\ n - 1 \in Edits!Numbers \cup {0}
<1>1. PICK m \in Nat : Edits!Numbers = 1 .. m
  BY DEF HistorySound
<1>2. Edits!Max(0 .. m) = m
  <2>1. Edits!Max(0 .. m) \in 0 .. m /\ \A j \in 0 .. m : Edits!Max(0 .. m) >= j
    <3>1. \E x \in 0 .. m : \A j \in 0 .. m : x >= j
      OBVIOUS
    <3> QED
      BY <3>1 DEF Edits!Max
  <2> QED
    BY <2>1
<1>3. Edits!Numbers \cup {0} = 0 .. m
  BY <1>1
<1>4. Edits!Max(Edits!Numbers \cup {0}) = m
  BY <1>2, <1>3, Zenon
<1> QED
  BY <1>1, <1>4

\* A request reads the row and the latest number.
LEMMA BeginSound ==
  ASSUME EditsSound, NEW r \in Requests, NEW changes, Sets(changes), Edits!Begin(r, changes)
  PROVE  EditsSound'
<1> DEFINE n == Edits!Max(Edits!Numbers \cup {0}) + 1
           e == [stage |-> "loaded", loaded |-> profile, changes |-> changes,
                 number |-> n, alone |-> TRUE]
<1>1. edit' = [edit EXCEPT ![r] = e] /\ UNCHANGED <<profile, versions>>
  BY DEF Edits!Begin
<1>2. n \in Nat /\ n > 0 /\ n \notin Edits!Numbers /\ n - 1 \in Edits!Numbers \cup {0}
  BY NextNumber DEF EditsSound
<1>3. EditSound(e)
  <2> HIDE DEF n
  <2>1. Shaped(e) /\ Sets(e.changes) /\ e.number = n
    BY <1>2 DEF Shaped, EditsSound, HistorySound
  <2>2. Undisturbed(e)
    BY <1>2 DEF Undisturbed
  <2> QED
    BY <1>2, <2>1, <2>2 DEF EditSound
<1>4. ASSUME NEW q \in Requests  PROVE EditSound(edit[q])'
  <2> HIDE DEF e
  <2>1. PICK x : x = edit'[q]
    OBVIOUS
  <2>2. EditSound(x)
    BY <1>1, <1>3, <2>1 DEF EditsSound
  <2>3. EditSound(x)'
    BY <1>1, <2>2, StillSound
  <2> QED
    BY <2>1, <2>3 DEF EditSound, Shaped, Sets, Undisturbed, FirstIs
<1>5. edit' = [q \in Requests |-> edit'[q]]
  <2> HIDE DEF e
  <2> QED
    BY <1>1 DEF EditsSound
<1>6. HistorySound'
  BY <1>1 DEF EditsSound, HistorySound, FirstIs, Edits!Numbers, Edits!Profiles
<1> QED
  BY <1>4, <1>5, <1>6 DEF EditsSound

\* What a form or a snapshot sets are values of the fields.
LEMMA FormsSet ==
  ASSUME NEW p \in Edits!Profiles, NEW sent
  PROVE  Sets(p) /\ Sets([f \in sent |-> p[f]])
  BY DEF Edits!Profiles, Sets

\* A request that is alone inserts the first version of its number.
LEMMA InsertSound ==
  ASSUME EditsSound, NEW r \in Requests, Edits!InsertVersion(r)
  PROVE  EditsSound'
<1> DEFINE new == [number |-> edit[r].number, snapshot |-> edit[r].loaded]
<1>1. /\ edit[r].stage = "loaded"
      /\ versions' = Append(versions, new)
      /\ edit' = [Edits!Overlapped({r}) EXCEPT ![r] =
                    [Edits!Overlapped({r})[r] EXCEPT !.stage = "recorded"]]
      /\ UNCHANGED profile
  BY DEF Edits!InsertVersion
<1>2. PICK e : e = edit[r]
  OBVIOUS
<1>3. PICK x : x = [e EXCEPT !.stage = "recorded"]
  OBVIOUS
<1>4. edit' = [q \in Requests |-> IF q = r THEN x ELSE Edits!Overlapped({r})[q]]
  <2>1. Edits!Overlapped({r})[r] = e
    BY <1>2 DEF Edits!Overlapped
  <2>2. edit' = [Edits!Overlapped({r}) EXCEPT ![r] = x]
    BY <1>1, <1>3, <2>1, Zenon
  <2> QED
    BY <2>2 DEF Edits!Overlapped
<1>5. /\ Shaped(e) /\ Sets(e.changes) /\ e.stage = "loaded"
      /\ e.number > 0 /\ e.number - 1 \in Edits!Numbers \cup {0}
      /\ e.alone => Undisturbed(e)
  <2>1. e # Edits!NoEdit
    BY <1>1, <1>2 DEF Edits!NoEdit
  <2> QED
    BY <1>1, <1>2, <2>1 DEF EditsSound, EditSound
<1>6. /\ Shaped(x) /\ x.stage = "recorded" /\ x.loaded = e.loaded
      /\ x.number = e.number /\ x.changes = e.changes /\ x.alone = e.alone
  BY <1>3, <1>5, RecordedShaped
<1> PICK last : last = Len(versions) + 1
  OBVIOUS
<1>7. /\ versions \in Seq([number : Nat, snapshot : Edits!Profiles])
      /\ new = [number |-> e.number, snapshot |-> e.loaded]
      /\ new \in [number : Nat, snapshot : Edits!Profiles]
  BY <1>2, <1>5 DEF EditsSound, HistorySound, Shaped
<1>8. /\ versions' \in Seq([number : Nat, snapshot : Edits!Profiles])
      /\ last \in Nat
      /\ DOMAIN versions = 1 .. last - 1 /\ DOMAIN versions' = 1 .. last
      /\ \A i \in DOMAIN versions : versions'[i] = versions[i]
      /\ versions'[last] = new
  <2> HIDE DEF new
  <2> QED
    BY <1>1, <1>7
<1>9. Edits!Numbers' = Edits!Numbers \cup {e.number}
  <2>1. new.number = e.number
    BY <1>7
  <2> HIDE DEF new
  <2> QED
    BY <1>8, <2>1 DEF Edits!Numbers
<1>10. \A n, i : FirstIs(n, i) => FirstIs(n, i)'
  BY <1>8 DEF FirstIs
<1>11. e.number \notin Edits!Numbers =>
         FirstIs(e.number, last)' /\ versions'[last].snapshot = e.loaded
  <2>1. new.number = e.number /\ new.snapshot = e.loaded
    BY <1>7
  <2>2. e.number \notin Edits!Numbers =>
          \A j \in 1 .. last - 1 : versions[j].number # e.number
    BY <1>8 DEF Edits!Numbers
  <2> HIDE DEF new
  <2>3. \A j \in 1 .. last : j < last => j \in 1 .. last - 1
    BY <1>8
  <2>4. last \in 1 .. last
    BY <1>8, <1>7
  <2> QED
    BY <1>8, <2>1, <2>2, <2>3, <2>4 DEF FirstIs
<1>12. HistorySound'
  <2>1. profile' \in Edits!Profiles'
    BY <1>1 DEF EditsSound, HistorySound, Edits!Profiles
  <2>2. (versions \in Seq([number : Nat, snapshot : Edits!Profiles]))'
    BY <1>8 DEF Edits!Profiles
  <2>3. \E m \in Nat : Edits!Numbers' = 1 .. m
    <3>1. PICK m \in Nat : Edits!Numbers = 1 .. m
      BY DEF EditsSound, HistorySound
    <3>2. e.number \in 1 .. m + 1
      BY <1>5, <3>1 DEF Shaped
    <3>3. Edits!Numbers' = 1 .. m \/ Edits!Numbers' = 1 .. m + 1
      BY <1>9, <3>1, <3>2
    <3> QED
      BY <3>3
  <2>4. \A n \in Edits!Numbers' : \E i \in DOMAIN versions' : FirstIs(n, i)'
    <3> SUFFICES ASSUME NEW n \in Edits!Numbers'
                 PROVE  \E i \in DOMAIN versions' : FirstIs(n, i)'
      OBVIOUS
    <3>1. CASE n \in Edits!Numbers
      <4>1. PICK i \in DOMAIN versions : FirstIs(n, i)
        BY <3>1 DEF EditsSound, HistorySound
      <4>2. FirstIs(n, i)'
        BY <1>10, <4>1
      <4>3. i \in DOMAIN versions'
        BY <1>8, <4>1
      <4> QED
        BY <4>2, <4>3
    <3>2. CASE n \notin Edits!Numbers
      <4>1. n = e.number
        BY <1>9, <3>2
      <4>2. FirstIs(n, last)'
        BY <1>11, <3>2, <4>1
      <4>3. last \in DOMAIN versions'
        BY <1>8
      <4> QED
        BY <4>2, <4>3
    <3> QED
      BY <3>1, <3>2
  <2> QED
    BY <2>1, <2>2, <2>3, <2>4 DEF HistorySound
<1>13. EditSound(x)'
  <2>1. Shaped(x)' /\ Sets(x.changes)' /\ x.number > 0
        /\ x.number - 1 \in Edits!Numbers' \cup {0}
    BY <1>5, <1>6, <1>9 DEF Shaped, Sets, Edits!Profiles
  <2>2. ASSUME x.alone  PROVE Undisturbed(x)'
    <3>1. e.loaded = profile /\ e.number \notin Edits!Numbers
      BY <1>5, <1>6, <2>2 DEF Undisturbed
    <3>2. /\ FirstIs(e.number, last)'
          /\ versions'[last].snapshot = profile'
          /\ last \in DOMAIN versions'
      BY <1>1, <1>8, <1>11, <3>1
    <3> QED
      BY <1>1, <1>6, <3>1, <3>2 DEF Undisturbed
  <2> QED
    BY <2>1, <2>2 DEF EditSound
<1>14. ASSUME NEW q \in Requests  PROVE EditSound(edit[q])'
  <2>1. CASE q = r
    BY <1>4, <1>13, <2>1 DEF EditSound, Shaped, Sets, Undisturbed, FirstIs
  <2>2. CASE q # r
    BY <1>4, <1>9, <2>2, OthersSound
  <2> QED
    BY <2>1, <2>2
<1> QED
  BY <1>4, <1>12, <1>14 DEF EditsSound

\* The profile changes, under every other request.
LEMMA ApplySound ==
  ASSUME EditsSound, NEW r \in Requests, Edits!Apply(r)
  PROVE  EditsSound'
<1>1. /\ edit[r].stage = "recorded" /\ UNCHANGED versions
      /\ profile' = Edits!Changed(edit[r].changes)
      /\ edit' = [Edits!Overlapped({r}) EXCEPT ![r] = Edits!NoEdit]
  BY DEF Edits!Apply
<1>2. edit' = [q \in Requests |-> IF q = r THEN Edits!NoEdit ELSE Edits!Overlapped({r})[q]]
  BY <1>1 DEF Edits!Overlapped
<1>3. Sets(edit[r].changes)
  <2>1. edit[r] # Edits!NoEdit
    BY <1>1 DEF Edits!NoEdit
  <2> QED
    BY <2>1 DEF EditsSound, EditSound
<1>4. profile' \in Edits!Profiles'
  <2> DEFINE changes == edit[r].changes
             new(f) == IF f \in DOMAIN changes THEN changes[f] ELSE profile[f]
  <2>1. profile \in Edits!Profiles
    BY DEF EditsSound, HistorySound
  <2>2. new("field") \in Values /\ new("enabled") \in BOOLEAN
    BY <1>3, <2>1 DEF Sets, Edits!Profiles
  <2>3. DOMAIN profile = {"field", "enabled"}
    BY <2>1 DEF Edits!Profiles
  <2>4. profile' = [f \in {"field", "enabled"} |-> new(f)]
    BY <1>1, <2>3 DEF Edits!Changed
  <2> HIDE DEF new
  <2>5. profile' = [field |-> new("field"), enabled |-> new("enabled")]
    BY <2>4
  <2> QED
    BY <2>2, <2>5 DEF Edits!Profiles
<1>5. HistorySound'
  BY <1>1, <1>4 DEF EditsSound, HistorySound, FirstIs, Edits!Numbers, Edits!Profiles
<1>6. Edits!Numbers' = Edits!Numbers
  BY <1>1 DEF Edits!Numbers
<1>7. ASSUME NEW q \in Requests  PROVE EditSound(edit[q])'
  <2>1. CASE q = r
    BY <1>2, <2>1 DEF EditSound, Edits!NoEdit
  <2>2. CASE q # r
    BY <1>2, <1>6, <2>2, OthersSound
  <2> QED
    BY <2>1, <2>2
<1> QED
  BY <1>2, <1>5, <1>7 DEF EditsSound

\* The switch of monitoring and the deletion.
LEMMA SwitchSound ==
  ASSUME EditsSound, Edits!SwitchMonitoring \/ Edits!DeleteProfile
  PROVE  EditsSound'
<1>1. PICK enabled \in BOOLEAN : profile' = [profile EXCEPT !.enabled = enabled]
  BY DEF Edits!SwitchMonitoring, Edits!DeleteProfile
<1>2. edit' = Edits!Overlapped({}) /\ UNCHANGED versions
  BY DEF Edits!SwitchMonitoring, Edits!DeleteProfile
<1>3. HistorySound'
  <2>1. profile' \in Edits!Profiles'
    BY <1>1 DEF EditsSound, HistorySound, Edits!Profiles
  <2> QED
    BY <1>2, <2>1 DEF EditsSound, HistorySound, FirstIs, Edits!Numbers, Edits!Profiles
<1>4. \A q \in Requests : EditSound(edit[q])'
  BY <1>2, OthersSound DEF Edits!Numbers
<1> QED
  BY <1>2, <1>3, <1>4 DEF EditsSound, Edits!Overlapped

\* Every step.
LEMMA EditsStep ==
  ASSUME EditsSound, [Edits!VersionsNext]_Edits!versionVars
  PROVE  EditsSound'
<1>1. ASSUME NEW r \in Requests, Edits!BeginEdit(r)  PROVE EditsSound'
  <2>1. PICK p \in Edits!Profiles, sent \in Forms :
          Edits!Begin(r, [f \in sent |-> p[f]])
    BY <1>1 DEF Edits!BeginEdit
  <2> QED
    BY <2>1, FormsSet, BeginSound
<1>2. ASSUME NEW r \in Requests, Edits!BeginRollback(r)  PROVE EditsSound'
  <2>1. PICK n \in Edits!Numbers : Edits!Begin(r, Edits!SnapshotOf(n))
    BY <1>2 DEF Edits!BeginRollback
  <2>2. PICK i \in DOMAIN versions : FirstIs(n, i)
    BY DEF EditsSound, HistorySound
  <2>3. Edits!SnapshotOf(n) = versions[i].snapshot
    BY <2>2, SnapshotIsFirst DEF EditsSound
  <2>4. versions[i].snapshot \in Edits!Profiles
    <3>1. versions \in Seq([number : Nat, snapshot : Edits!Profiles])
      BY DEF EditsSound, HistorySound
    <3>2. i \in 1 .. Len(versions)
      BY <2>2, <3>1
    <3>3. versions[i] \in [number : Nat, snapshot : Edits!Profiles]
      BY <3>1, <3>2, ElementOfSeq, Zenon
    <3> QED
      BY <3>3
  <2> QED
    BY <2>1, <2>3, <2>4, FormsSet, BeginSound
<1>3. ASSUME NEW r \in Requests, Edits!Abandon(r)  PROVE EditsSound'
  <2>1. edit' = [edit EXCEPT ![r] = Edits!NoEdit] /\ UNCHANGED <<profile, versions>>
    BY <1>3 DEF Edits!Abandon
  <2>2. ASSUME NEW q \in Requests  PROVE EditSound(edit[q])'
    <3>1. PICK x : x = edit'[q]
      OBVIOUS
    <3>2. EditSound(x)
      BY <2>1, <3>1 DEF EditsSound, EditSound
    <3>3. EditSound(x)'
      BY <2>1, <3>2, StillSound
    <3> QED
      BY <3>1, <3>3 DEF EditSound, Shaped, Sets, Undisturbed, FirstIs
  <2>3. edit' = [q \in Requests |-> edit'[q]]
    BY <2>1 DEF EditsSound
  <2>4. HistorySound'
    BY <2>1 DEF EditsSound, HistorySound, FirstIs, Edits!Numbers, Edits!Profiles
  <2> QED
    BY <2>2, <2>3, <2>4 DEF EditsSound
<1>4. CASE UNCHANGED Edits!versionVars
  BY <1>4 DEF Edits!versionVars, EditsSound, HistorySound, FirstIs, EditSound, Shaped, Sets,
    Undisturbed, Edits!Numbers, Edits!Profiles, Edits!NoEdit
<1> QED
  BY <1>1, <1>2, <1>3, <1>4, InsertSound, ApplySound, SwitchSound DEF Edits!VersionsNext

\* What an edit or a rollback replaced, a rollback to some number brings back,
\* for any number of requests, versions and values, unless another request or a
\* switch wrote in between: the version it recorded is the first of its number.
\* (application_service 105-146)
THEOREM ReplacedCanBeRestored == VersionsSpec => UndoIsPossible
<1>1. Edits!VersionsInit => EditsSound
  <2> SUFFICES ASSUME Edits!VersionsInit  PROVE EditsSound
    OBVIOUS
  <2>1. versions = << >> /\ profile \in Edits!Profiles
        /\ edit = [r \in Requests |-> Edits!NoEdit]
    BY DEF Edits!VersionsInit
  <2>2. Edits!Numbers = 1 .. 0 /\ 0 \in Nat
    BY <2>1 DEF Edits!Numbers
  <2>3. HistorySound
    BY <2>1, <2>2 DEF HistorySound
  <2> QED
    BY <2>1, <2>3 DEF EditsSound, EditSound
<1>2. EditsSound /\ [Edits!VersionsNext]_Edits!versionVars => EditsSound'
  BY EditsStep
<1>3. EditsSound =>
        \A r \in Requests :
          edit[r] # Edits!NoEdit /\ edit[r].alone /\ Edits!Apply(r)
            => \E n \in Edits!Numbers : Edits!SnapshotOf(n) = profile
  <2> SUFFICES ASSUME EditsSound, NEW r \in Requests,
                      edit[r] # Edits!NoEdit, edit[r].alone, Edits!Apply(r)
               PROVE  \E n \in Edits!Numbers : Edits!SnapshotOf(n) = profile
    OBVIOUS
  <2>1. PICK i \in DOMAIN versions :
          FirstIs(edit[r].number, i) /\ versions[i].snapshot = profile
    BY DEF EditsSound, EditSound, Undisturbed, Edits!Apply
  <2> QED
    BY <2>1, SnapshotIsFirst DEF EditsSound
<1> QED
  BY <1>1, <1>2, <1>3, PTL DEF VersionsSpec, UndoIsPossible, Edits!UndoIsPossible
-----------------------------------------------------------------------------
(* Side by side.                                                           *)

SideBySide == Init /\ [][Next]_allVars

\* What the run explores is each component's own specification, whichever of
\* them moves: the others only stutter. There has to be something to probe.
LEMMA EachPartAlone ==
  ASSUME Applications # {}, Targets # {}
  PROVE  SideBySide =>
           /\ WorkflowSpec /\ CollectSpec /\ RetentionSpec
           /\ InventorySpec /\ ProbesSpec /\ VersionsSpec
<1>1. Init => WorkflowInit /\ Collect!CollectInit /\ Purge!RetentionInit
              /\ Drift!InventoryInit /\ Edits!VersionsInit
  BY DEF Init
<1>2. Init => Probe!ProbesInit
  BY DEF Init, Probe!ProbesInit
<1>3. [Next]_allVars => [WorkflowNext]_workflowVars
  BY DEF Next, allVars, workflow, workflowVars
<1>4. [Next]_allVars => [Collect!CollectNext]_Collect!collectVars
  BY DEF Next, allVars, collect, Collect!collectVars
<1>5. [Next]_allVars => [Purge!RetentionNext]_Purge!retentionVars
  BY DEF Next, allVars, purge, Purge!retentionVars, Purge!settings
<1>6. [Next]_allVars => [Drift!InventoryNext]_Drift!inventoryVars
  BY DEF Next, allVars, drift, Drift!inventoryVars
<1>7. [Next]_allVars => [Edits!VersionsNext]_Edits!versionVars
  BY DEF Next, allVars, edits, Edits!versionVars
<1>8. [Next]_allVars => [Probe!ProbesNext]_Probe!probeVars
  BY DEF Next, allVars, probes, Probe!probeVars
<1>. QED
  BY <1>1, <1>2, <1>3, <1>4, <1>5, <1>6, <1>7, <1>8, PTL
     DEF SideBySide, WorkflowSpec, CollectSpec, RetentionSpec, InventorySpec, ProbesSpec,
         VersionsSpec

\* In the composition that the run explores all of them keep their promises
\* together, for every value of the constants: times, lengths and counts are
\* numbers, and the first of a target's sorted addresses is one of them.
THEOREM HoldSideBySide ==
  ASSUME Applications # {}, Targets # {},
         \A t \in Targets : t.sortedFirst \in DOMAIN t.answers,
         SixHours \in Nat, Days \subseteq Nat, MaxOutage \in Nat, MaxHeld \in Nat
  PROVE  SideBySide =>
           /\ []LoginsWithinLimit /\ LostSessionIsNoOutage /\ []LinksRemembered
           /\ []HeldMailGoesOnce /\ []DriftRecorded /\ []DiagnosisAgrees /\ UndoIsPossible
<1>1. CollectSpec => []LinksRemembered
  BY LinksAreRemembered
<1>2. RetentionSpec => []HeldMailGoesOnce
  BY MailGoesOnce
<1>3. ProbesSpec => []DiagnosisAgrees
  BY DiagnosisFollowsTheCheck
<1>. QED
  BY EachPartAlone, RefusalsAreFew, LostSessionsAreHidden, <1>1, <1>2, RowsTellTheInventory,
     <1>3, ReplacedCanBeRestored, PTL
=============================================================================
