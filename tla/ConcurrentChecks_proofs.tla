----------------------- MODULE ConcurrentChecks_proofs -----------------------
(***************************************************************************)
(* Any number of processes that check one application at once, stopping    *)
(* wherever they may: a process never has two incidents open, and no       *)
(* notification is mailed more often than its writer, the retry and the    *)
(* crashes account for.                                                    *)
(***************************************************************************)
EXTENDS ConcurrentChecks, SequenceTheorems, FiniteSetTheorems, TLAPS

-----------------------------------------------------------------------------
(* What a process knows where it is: what it read before, and what the     *)
(* others cannot have changed since.                                       *)

Work == [at : Places, result : Results, inc : Ids \cup {0}, row : DOMAIN rows \cup {<<>>}]

\* The notification a process works on, once it has an incident.
Key(p, w) == <<w.inc, IF w.result = "DOWN" THEN "DOWN" ELSE "RECOVERY", p>>

\* An incident read as absent may have been inserted since, by another; an
\* open one may have been resolved; a row of p's own is nobody else's.
Doing(p, w) ==
  /\ w.at \in {"resolve", "announce", "smtp", "mark", "flag"} => w.inc \in Ids
  /\ w.at \in {"guard", "insert"} => w.result = "DOWN"
  /\ w.at = "guard" => \A i \in OpenIncidents : <<i, "DOWN", p>> \notin DOMAIN rows
  /\ w.at = "insert" => \A i \in OpenIncidents : incident[i].by # p
  /\ w.at = "resolve" => w.result = "UP"
  /\ w.at \in {"resolve", "announce"} => Key(p, w) \notin DOMAIN rows
  /\ w.at = "announce" /\ w.result = "UP" => incident[w.inc].status = "RESOLVED"
  /\ w.at \in {"smtp", "mark"} => w.row = Key(p, w) /\ w.row \in DOMAIN rows
  /\ w.at = "idle" => w = Idle
  /\ w.at = "retry" => p = Worker
  /\ w.at = "retried" => p = Worker /\ w.row \in DOMAIN rows

EachDoing == \A p \in Procs : Doing(p, proc[p])

RecoveriesFollow ==
  \A k \in DOMAIN rows : k[2] = "RECOVERY" => incident[k[1]].status = "RESOLVED"

\* The processes that may yet insert fit under the bound on incidents.
Inserting ==
  {p \in Procs : proc[p].at \in {"measured", "guard", "insert"} /\ proc[p].result = "DOWN"}

Room == Len(incident) + Cardinality(Inserting) <= MaxIncidents

Sound == TypeOK /\ EachDoing /\ RecoveriesFollow /\ OneOpenPerProcess

\* What a step of p leaves to the other processes.
Frame(p) ==
  /\ \E w : proc' = [proc EXCEPT ![p] = w]
  /\ Ids \subseteq Ids'
  /\ \A i \in Ids : /\ incident'[i].by = incident[i].by
                    /\ incident[i].status = "RESOLVED" => incident'[i].status = "RESOLVED"
  /\ \A i \in Ids' \ Ids : incident'[i].by = p
  /\ DOMAIN rows \subseteq DOMAIN rows'
  /\ \A k \in DOMAIN rows' \ DOMAIN rows : k[3] = p

\* The facts about types that the steps below use.
LEMMA StateTyped ==
  ASSUME TypeOK
  PROVE  /\ Len(incident) \in Nat /\ Ids = 1 .. Len(incident)
         /\ \A i \in Ids : /\ incident[i] \in [status : {"OPEN", "RESOLVED"}, by : Procs]
                           /\ incident[i].status \in {"OPEN", "RESOLVED"}
         /\ DOMAIN rows \subseteq Ids \X Types \X Procs
         /\ \A k \in DOMAIN rows : k = <<k[1], k[2], k[3]>> /\ k[1] \in Ids /\ k[2] \in Types
                                   /\ k[3] \in Procs /\ k # <<>>
         /\ \A p \in Procs : proc[p] \in Work
<1>1. Len(incident) \in Nat /\ incident \in [1 .. Len(incident) -> [status : {"OPEN", "RESOLVED"}, by : Procs]]
  BY LenProperties DEF TypeOK
<1>2. \A i \in Ids : /\ incident[i] \in [status : {"OPEN", "RESOLVED"}, by : Procs]
                     /\ incident[i].status \in {"OPEN", "RESOLVED"}
  BY <1>1 DEF Ids
<1>3. ASSUME NEW k \in Ids \X Types \X Procs
      PROVE  k = <<k[1], k[2], k[3]>> /\ k[1] \in Ids /\ k[2] \in Types /\ k[3] \in Procs /\ k # <<>>
  OBVIOUS
<1>4. DOMAIN rows \subseteq Ids \X Types \X Procs
  BY DEF TypeOK
<1>. QED
  BY <1>1, <1>2, <1>3, <1>4 DEF TypeOK, Work, Ids

\* A step of one process leaves every other where it was, with all it knows.
LEMMA OthersGoOn ==
  ASSUME TypeOK, EachDoing, NEW p \in Procs, Frame(p), NEW q \in Procs \ {p}
  PROVE  proc'[q] = proc[q] /\ proc'[q] \in Work' /\ Doing(q, proc[q])'
<1>1. proc'[q] = proc[q] /\ proc[q] \in Work
  BY StateTyped DEF Frame, TypeOK
<1>2. proc'[q] \in Work'
  BY <1>1 DEF Frame, Work
<1>. DEFINE w == proc[q]
<1>3. Doing(q, w)
  BY DEF EachDoing
<1>4. \A k \in DOMAIN rows' : k[3] = q => k \in DOMAIN rows
  BY DEF Frame
<1>5. \A i \in OpenIncidents' : i \in OpenIncidents \/ incident'[i].by = p
  <2>. SUFFICES ASSUME NEW i \in Ids', incident'[i].status = "OPEN", i \in Ids
       PROVE  i \in OpenIncidents
    BY DEF OpenIncidents, Frame
  <2>. QED
    BY StateTyped DEF OpenIncidents, Frame
<1>6. w.at = "guard" => \A i \in OpenIncidents' : <<i, "DOWN", q>> \notin DOMAIN rows'
  <2>. SUFFICES ASSUME w.at = "guard", NEW i \in OpenIncidents', <<i, "DOWN", q>> \in DOMAIN rows'
       PROVE  FALSE
    OBVIOUS
  <2>1. <<i, "DOWN", q>> \in DOMAIN rows
    BY <1>4
  <2>2. i \in Ids /\ incident'[i].status = "OPEN"
    BY <2>1, StateTyped DEF OpenIncidents
  <2>3. i \in OpenIncidents
    BY <2>2, StateTyped DEF OpenIncidents, Frame
  <2>. QED
    BY <1>3, <2>1, <2>3 DEF Doing
<1>7. w.at = "insert" => \A i \in OpenIncidents' : incident'[i].by # q
  BY <1>3, <1>5 DEF Doing, OpenIncidents, Frame
<1>8. Key(q, w) \notin DOMAIN rows => Key(q, w) \notin DOMAIN rows'
  BY <1>4 DEF Key
<1>9. Doing(q, w)'
  <2>1. w' = w
    BY <1>1
  <2>. QED
    BY <1>3, <1>6, <1>7, <1>8, <2>1 DEF Doing, Frame, Key
<1>. QED
  BY <1>1, <1>2, <1>9

\* A step of p is right when p's own work is.
LEMMA AllGoOn ==
  ASSUME TypeOK, EachDoing, NEW p \in Procs, Frame(p), proc'[p] \in Work', Doing(p, proc[p])'
  PROVE  proc' \in [Procs -> Work'] /\ EachDoing'
<1>1. \A q \in Procs : proc'[q] \in Work' /\ Doing(q, proc[q])'
  BY OthersGoOn
<1>2. DOMAIN proc' = Procs /\ proc' = [q \in Procs |-> proc'[q]]
  BY DEF Frame, TypeOK
<1>. QED
  BY <1>1, <1>2 DEF EachDoing

-----------------------------------------------------------------------------
(* Steps that move a process and leave the tables as they are.             *)

\* A step that changes no incident and no row.
LEMMA MoveKeeps ==
  ASSUME Sound, NEW p \in Procs, NEW w \in Work, Doing(p, w), proc' = [proc EXCEPT ![p] = w],
         UNCHANGED <<incident, rows>>, flagged' \subseteq Ids \X Types,
         todo' \subseteq DOMAIN rows, crashes' \in 0 .. MaxCrashes
  PROVE  Sound'
<1>1. TypeOK /\ EachDoing
  BY DEF Sound
<1>2. proc'[p] = w /\ Frame(p)
  BY <1>1 DEF Frame, TypeOK, Ids
<1>3. Ids' = Ids /\ OpenIncidents' = OpenIncidents
  BY DEF Ids, OpenIncidents
<1>4. proc'[p] \in Work' /\ Doing(p, proc[p])'
  BY <1>2, <1>3 DEF Work, Doing, Key
<1>5. proc' \in [Procs -> Work'] /\ EachDoing'
  BY <1>1, <1>2, <1>4, AllGoOn
<1>6. TypeOK'
  BY <1>1, <1>3, <1>5 DEF TypeOK, Work
<1>7. RecoveriesFollow' /\ OneOpenPerProcess'
  BY <1>3 DEF Sound, RecoveriesFollow, OneOpenPerProcess
<1>. QED
  BY <1>5, <1>6, <1>7 DEF Sound

\* Moving on changes the place alone.
LEMMA Placed ==
  ASSUME NEW w \in Work, NEW place \in Places
  PROVE  LET v == [w EXCEPT !.at = place]
         IN  v \in Work /\ v.at = place /\ v.result = w.result /\ v.inc = w.inc /\ v.row = w.row
BY DEF Work

\* A process at rest claims nothing.
LEMMA IdleIsWork ==
  ASSUME NEW p
  PROVE  Idle \in Work /\ Doing(p, Idle) /\ Idle.at = "idle" /\ Idle.result = "UP"
         /\ Idle.row = <<>>
BY DEF Idle, Work, Doing, Places, Results

\* A check or a retry that is over.
LEMMA FinishKeeps ==
  ASSUME Sound, NEW p \in Procs, Finishes(p), UNCHANGED <<incident, rows>>,
         flagged' \subseteq Ids \X Types, todo' \subseteq todo, crashes' \in 0 .. MaxCrashes
  PROVE  Sound'
<1>1. todo' \subseteq DOMAIN rows
  BY DEF Sound, TypeOK
<1>. QED
  BY <1>1, IdleIsWork, MoveKeeps DEF Finishes

\* A check's measurement.
LEMMA CheckBegins ==
  ASSUME Sound, NEW p \in Procs, NEW r \in Results, Measure(p, r)
  PROVE  Sound'
<1>1. TypeOK /\ proc[p] \in Work
  BY StateTyped DEF Sound
<1>. DEFINE w == [proc[p] EXCEPT !.at = "measured", !.result = r]
<1>2. w \in Work /\ w.at = "measured"
  BY <1>1 DEF Work, Places
<1>3. proc' = [proc EXCEPT ![p] = w]
  BY DEF Measure
<1>. HIDE DEF w
<1>4. Doing(p, w)
  BY <1>2 DEF Doing
<1>. QED
  BY <1>1, <1>2, <1>3, <1>4, MoveKeeps DEF Measure, TypeOK

\* A failed check, up to the insertion.
LEMMA OutageFound ==
  ASSUME Sound, NEW p \in Procs, FindOutage(p) \/ PassGuard(p)
  PROVE  Sound'
<1>1. TypeOK /\ proc[p] \in Work
  BY StateTyped DEF Sound
<1>2. PICK place \in {"guard", "insert"} : Goes(p, place)
  BY DEF FindOutage, PassGuard
<1>. DEFINE w == [proc[p] EXCEPT !.at = place]
<1>3. w \in Work /\ w.at = place /\ w.result = proc[p].result
  <2>1. place \in Places
    BY DEF Places
  <2>. QED
    BY <1>1, <2>1, Placed
<1>4. proc' = [proc EXCEPT ![p] = w]
  BY <1>2 DEF Goes
<1>. HIDE DEF w
<1>5. OpenIncidents = {} /\ proc[p].result = "DOWN"
  <2>1. FindOutage(p) => OpenIncidents = {} /\ proc[p].result = "DOWN"
    BY DEF FindOutage
  <2>2. PassGuard(p) => OpenIncidents = {} /\ proc[p].at = "guard"
    BY DEF PassGuard, At
  <2>3. proc[p].at = "guard" => proc[p].result = "DOWN"
    BY DEF Sound, EachDoing, Doing
  <2>. QED
    BY <2>1, <2>2, <2>3
<1>6. Doing(p, w)
  BY <1>3, <1>5 DEF Doing
<1>. QED
  <2>1. UNCHANGED <<incident, flagged, rows, todo, crashes>>
    BY DEF FindOutage, PassGuard
  <2>2. flagged' \subseteq Ids \X Types /\ todo' \subseteq DOMAIN rows /\ crashes' \in 0 .. MaxCrashes
    BY <1>1, <2>1 DEF TypeOK
  <2>. QED
    BY <1>3, <1>4, <1>6, <2>1, <2>2, MoveKeeps

\* A success that finds an open incident.
LEMMA RecoveryFound ==
  ASSUME Sound, NEW p \in Procs, FindRecovery(p)
  PROVE  Sound'
<1>1. TypeOK /\ proc[p] \in Work /\ proc[p].result = "UP"
  BY StateTyped DEF Sound, FindRecovery
<1>2. PICK i \in OpenIncidents : proc' = [proc EXCEPT ![p].at = "resolve", ![p].inc = i]
  BY DEF FindRecovery
<1>. DEFINE w == [proc[p] EXCEPT !.at = "resolve", !.inc = i]
<1>3. i \in Ids /\ incident[i].status # "RESOLVED"
  BY <1>1, <1>2 DEF OpenIncidents
<1>4. w \in Work /\ w.at = "resolve" /\ w.result = "UP" /\ w.inc = i
  BY <1>1, <1>3 DEF Work, Places
<1>5. proc' = [proc EXCEPT ![p] = w]
  BY <1>2
<1>. HIDE DEF w
<1>6. Key(p, w) \notin DOMAIN rows
  BY <1>3, <1>4 DEF Key, Sound, RecoveriesFollow
<1>7. Doing(p, w)
  BY <1>3, <1>4, <1>6 DEF Doing
<1>. QED
  BY <1>1, <1>4, <1>5, <1>7, MoveKeeps DEF FindRecovery, TypeOK

\* A check that announces the incident another process inserted.
LEMMA TakenOver ==
  ASSUME Sound, NEW p \in Procs, TakeOver(p)
  PROVE  Sound'
<1>1. TypeOK /\ proc[p] \in Work
  BY StateTyped DEF Sound
<1>2. PICK i \in OpenIncidents : proc' = [proc EXCEPT ![p].at = "announce", ![p].inc = i]
  BY DEF TakeOver
<1>. DEFINE w == [proc[p] EXCEPT !.at = "announce", !.inc = i]
<1>3. i \in Ids
  BY <1>2 DEF OpenIncidents
<1>4. w \in Work /\ w.at = "announce" /\ w.result = proc[p].result /\ w.inc = i
  BY <1>1, <1>3 DEF Work, Places
<1>5. proc' = [proc EXCEPT ![p] = w]
  BY <1>2
<1>. HIDE DEF w
<1>6. proc[p].result = "DOWN" /\ <<i, "DOWN", p>> \notin DOMAIN rows
  BY <1>2 DEF TakeOver, At, Sound, EachDoing, Doing
<1>7. Doing(p, w)
  BY <1>3, <1>4, <1>6 DEF Doing, Key
<1>. QED
  BY <1>1, <1>4, <1>5, <1>7, MoveKeeps DEF TakeOver, TypeOK

\* The worker's retry, from reading what is pending.
LEMMA RetryBegins == ASSUME Sound, StartRetry PROVE Sound'
<1>1. TypeOK /\ Worker \in Procs /\ proc[Worker] \in Work
  BY StateTyped, ProcsAssumption DEF Sound
<1>. DEFINE w == [proc[Worker] EXCEPT !.at = "retry"]
<1>2. w \in Work /\ w.at = "retry"
  BY <1>1, Placed DEF Places
<1>3. proc' = [proc EXCEPT ![Worker] = w] /\ todo' \subseteq DOMAIN rows
  BY DEF StartRetry, Goes, Pending
<1>. HIDE DEF w
<1>4. Doing(Worker, w)
  BY <1>2 DEF Doing
<1>. QED
  BY <1>1, <1>2, <1>3, <1>4, MoveKeeps DEF StartRetry, TypeOK

\* The steps that end a check, a crash among them.
LEMMA WorkEnds ==
  ASSUME Sound, NEW p \in Procs,
         FindNothingToDo(p) \/ SkipMail(p) \/ FlagIncident(p) \/ Crash(p)
  PROVE  Sound'
<1>1. TypeOK /\ proc[p] \in Work
  BY StateTyped DEF Sound
<1>2. /\ Finishes(p) /\ UNCHANGED <<incident, rows>>
      /\ todo' \subseteq todo
  BY DEF FindNothingToDo, SkipMail, FlagIncident, Crash
<1>3. flagged' \subseteq Ids \X Types
  <2>1. FlagIncident(p) => proc[p].inc \in Ids
    BY DEF FlagIncident, At, Sound, EachDoing, Doing
  <2>2. MailType(p) \in Types
    BY DEF MailType, Types
  <2>. QED
    BY <1>1, <2>1, <2>2 DEF FindNothingToDo, SkipMail, FlagIncident, Crash, TypeOK
<1>4. crashes' \in 0 .. MaxCrashes
  BY <1>1, BoundsAssumption DEF FindNothingToDo, SkipMail, FlagIncident, Crash, TypeOK
<1>. QED
  BY <1>2, <1>3, <1>4, FinishKeeps

-----------------------------------------------------------------------------
(* Steps that write to the tables.                                         *)

\* The incident inserted is p's only open one: p found none at the guard, and
\* nobody else inserts in p's name.
LEMMA Inserted ==
  ASSUME Sound, Room, NEW p \in Procs, InsertIncident(p)
  PROVE  Sound'
<1>1. TypeOK /\ EachDoing /\ proc[p] \in Work
  BY StateTyped DEF Sound
<1>. DEFINE new == [status |-> "OPEN", by |-> p]
            last == Len(incident) + 1
            w == [proc[p] EXCEPT !.at = "announce", !.inc = last]
<1>2. /\ incident' \in Seq([status : {"OPEN", "RESOLVED"}, by : Procs]) /\ Len(incident') = last
      /\ incident'[last] = new /\ \A i \in Ids : incident'[i] = incident[i]
  <2>1. incident \in Seq([status : {"OPEN", "RESOLVED"}, by : Procs])
    BY <1>1 DEF TypeOK
  <2>2. new \in [status : {"OPEN", "RESOLVED"}, by : Procs]
    OBVIOUS
  <2>3. incident' = Append(incident, new)
    BY DEF InsertIncident
  <2>. QED
    BY <2>1, <2>2, <2>3, AppendProperties DEF Ids
<1>3. Len(incident) \in Nat /\ Ids = 1 .. Len(incident) /\ Ids' = 1 .. last
  BY <1>1, <1>2, StateTyped DEF Ids
<1>4. new.status = "OPEN" /\ new.by = p
  OBVIOUS
<1>. HIDE DEF new
<1>5. /\ w.at = "announce" /\ w.result = proc[p].result /\ w.inc = last /\ w \in Work'
      /\ proc' = [proc EXCEPT ![p] = w]
  <2>1. w.at = "announce" /\ w.result = proc[p].result /\ w.inc = last
    BY <1>1 DEF Work
  <2>2. w \in Work'
    <3>1. UNCHANGED rows /\ last \in Ids'
      BY <1>3 DEF InsertIncident
    <3>. QED
      BY <1>1, <3>1 DEF Work, Places
  <2>3. proc' = [proc EXCEPT ![p] = w]
    BY <1>2 DEF InsertIncident
  <2>. QED
    BY <2>1, <2>2, <2>3
<1>. HIDE DEF w
<1>6. proc[p].at = "insert" /\ proc[p].result = "DOWN" /\ \A i \in OpenIncidents : incident[i].by # p
  BY <1>1 DEF InsertIncident, At, EachDoing, Doing
<1>7. proc'[p] = w /\ Frame(p)
  BY <1>1, <1>2, <1>3, <1>4, <1>5 DEF Frame, TypeOK, InsertIncident
<1>8. DOMAIN rows' \subseteq Ids \X Types \X Procs
  BY <1>1 DEF InsertIncident, TypeOK
<1>9. Doing(p, proc[p])'
  <2>1. Key(p, w) \notin DOMAIN rows'
    BY <1>3, <1>5, <1>8 DEF Key
  <2>. QED
    BY <1>3, <1>5, <1>6, <1>7, <2>1 DEF Doing, Key
<1>10. proc' \in [Procs -> Work'] /\ EachDoing'
  BY <1>1, <1>5, <1>7, <1>9, AllGoOn
<1>11. TypeOK'
  <2>1. last <= MaxIncidents
    <3>1. p \in Inserting
      BY <1>6 DEF Inserting
    <3>2. IsFiniteSet(Inserting)
      BY ProcsAssumption, FS_Subset DEF Inserting
    <3>3. Cardinality(Inserting) \in Nat /\ Cardinality(Inserting) # 0
      BY <3>1, <3>2, FS_CardinalityType, FS_EmptySet
    <3>. QED
      BY <1>3, <3>3, BoundsAssumption DEF Room
  <2>2. Ids \subseteq Ids'
    BY <1>3
  <2>. QED
    BY <1>1, <1>2, <1>10, <2>1, <2>2 DEF TypeOK, InsertIncident, Work
<1>12. RecoveriesFollow'
  BY <1>1, <1>2, StateTyped DEF Sound, RecoveriesFollow, InsertIncident
<1>13. OneOpenPerProcess'
  <2>. SUFFICES ASSUME NEW i \in Ids', NEW j \in Ids', i # j,
                       incident'[i].status = "OPEN", incident'[j].status = "OPEN",
                       incident'[i].by = incident'[j].by
       PROVE  FALSE
    BY DEF OneOpenPerProcess
  <2>1. (i \in Ids \/ i = last) /\ (j \in Ids \/ j = last)
    BY <1>3
  <2>2. \A n \in Ids : incident'[n].status = "OPEN" => incident'[n].by # p
    BY <1>2, <1>6 DEF OpenIncidents
  <2>3. CASE i \in Ids /\ j \in Ids
    BY <1>2, <2>3 DEF Sound, OneOpenPerProcess
  <2>. QED
    BY <1>2, <1>4, <2>1, <2>2, <2>3
<1>. QED
  BY <1>10, <1>11, <1>12, <1>13 DEF Sound

\* A resolution, which changes the incident for all processes.
LEMMA Resolved ==
  ASSUME Sound, NEW p \in Procs, ResolveIncident(p)
  PROVE  Sound'
<1>1. TypeOK /\ EachDoing /\ proc[p] \in Work
  BY StateTyped DEF Sound
<1>. DEFINE n == proc[p].inc
            new == [incident[n] EXCEPT !.status = "RESOLVED"]
            w == [proc[p] EXCEPT !.at = "announce"]
<1>2. n \in Ids /\ proc[p].result = "UP" /\ Key(p, proc[p]) \notin DOMAIN rows
  BY <1>1 DEF ResolveIncident, At, EachDoing, Doing
<1>3. /\ new \in [status : {"OPEN", "RESOLVED"}, by : Procs]
      /\ new.status = "RESOLVED" /\ new.by = incident[n].by
  BY <1>1, <1>2, StateTyped
<1>4. incident' = [incident EXCEPT ![n] = new]
  BY DEF ResolveIncident
<1>5. w \in Work /\ w.at = "announce" /\ w.result = "UP" /\ w.inc = n
  BY <1>1, <1>2, Placed DEF Places
<1>6. proc' = [proc EXCEPT ![p] = w]
  BY DEF ResolveIncident, Goes
<1>. HIDE DEF new, w, n
<1>7. /\ incident' \in Seq([status : {"OPEN", "RESOLVED"}, by : Procs])
      /\ Len(incident') = Len(incident) /\ Ids' = Ids
      /\ \A i \in Ids : incident'[i] = IF i = n THEN new ELSE incident[i]
  BY <1>1, <1>2, <1>3, <1>4, ExceptSeq DEF TypeOK, Ids
<1>8. \A i \in Ids : /\ incident'[i].by = incident[i].by
                     /\ incident[i].status = "RESOLVED" => incident'[i].status = "RESOLVED"
                     /\ incident'[i].status = "OPEN" => incident[i].status = "OPEN"
  BY <1>3, <1>7
<1>9. UNCHANGED rows
  BY DEF ResolveIncident
<1>10. proc'[p] = w /\ Frame(p)
  BY <1>1, <1>6, <1>7, <1>8, <1>9 DEF Frame, TypeOK
<1>11. Doing(p, proc[p])'
  <2>1. Key(p, w) = Key(p, proc[p])
    BY <1>2, <1>5 DEF Key, n
  <2>2. incident'[n].status = "RESOLVED" /\ n \in Ids'
    BY <1>2, <1>3, <1>7
  <2>. QED
    BY <1>2, <1>5, <1>9, <1>10, <2>1, <2>2 DEF Doing, Key
<1>12. proc' \in [Procs -> Work'] /\ EachDoing'
  BY <1>1, <1>5, <1>7, <1>9, <1>10, <1>11, AllGoOn DEF Work
<1>13. TypeOK'
  BY <1>1, <1>7, <1>9, <1>12 DEF TypeOK, ResolveIncident, Work
<1>14. RecoveriesFollow'
  BY <1>1, <1>8, <1>9, StateTyped DEF Sound, RecoveriesFollow
<1>15. OneOpenPerProcess'
  BY <1>7, <1>8 DEF Sound, OneOpenPerProcess
<1>. QED
  BY <1>12, <1>13, <1>14, <1>15 DEF Sound

\* The notifications a step leaves: at most one is new, p's own and of an
\* incident p works on.
LEMMA RowsKeep ==
  ASSUME Sound, NEW p \in Procs, \E w : proc' = [proc EXCEPT ![p] = w],
         UNCHANGED <<incident, crashes>>, flagged' \subseteq Ids \X Types,
         DOMAIN rows \subseteq DOMAIN rows', DOMAIN rows' \subseteq Ids \X Types \X Procs,
         \A k \in DOMAIN rows' : rows'[k] \in [status : {"PENDING", "SENT"}, copies : Nat],
         \A k \in DOMAIN rows' \ DOMAIN rows :
           k[3] = p /\ (k[2] = "RECOVERY" => incident[k[1]].status = "RESOLVED"),
         todo' \subseteq todo, proc'[p] \in Work', Doing(p, proc[p])'
  PROVE  Sound'
<1>1. TypeOK /\ EachDoing
  BY DEF Sound
<1>2. Ids' = Ids
  BY DEF Ids
<1>3. Frame(p)
  BY <1>1, <1>2 DEF Frame
<1>4. proc' \in [Procs -> Work'] /\ EachDoing'
  BY <1>1, <1>3, AllGoOn
<1>5. TypeOK'
  BY <1>1, <1>2, <1>4 DEF TypeOK, Work
<1>6. RecoveriesFollow' /\ OneOpenPerProcess'
  BY <1>1, <1>2 DEF Sound, RecoveriesFollow, OneOpenPerProcess
<1>. QED
  BY <1>4, <1>5, <1>6 DEF Sound

\* What the insertion of a notification does.
LEMMA Created ==
  ASSUME Sound, NEW p \in Procs, CreateRow(p)
  PROVE  LET k == Key(p, proc[p])
         IN  /\ k \notin DOMAIN rows /\ DOMAIN rows' = DOMAIN rows \cup {k}
             /\ rows'[k] = [status |-> "PENDING", copies |-> 0]
             /\ \A l \in DOMAIN rows : rows'[l] = rows[l]
             /\ proc' = [proc EXCEPT ![p].at = "smtp", ![p].row = k]
             /\ proc[p].at = "announce" /\ proc[p].inc \in Ids
<1>. DEFINE k == Key(p, proc[p])
<1>1. k = <<proc[p].inc, MailType(p), p>>
  BY DEF Key, MailType
<1>2. k \notin DOMAIN rows /\ proc[p].at = "announce" /\ proc[p].inc \in Ids
  BY DEF CreateRow, At, Sound, EachDoing, Doing
<1>3. /\ rows' = [l \in DOMAIN rows \cup {k} |->
                     IF l = k THEN [status |-> "PENDING", copies |-> 0] ELSE rows[l]]
      /\ proc' = [proc EXCEPT ![p].at = "smtp", ![p].row = k]
  BY <1>1 DEF CreateRow
<1>. HIDE DEF k
<1>4. /\ DOMAIN rows' = DOMAIN rows \cup {k}
      /\ rows'[k] = [status |-> "PENDING", copies |-> 0]
      /\ \A l \in DOMAIN rows : rows'[l] = rows[l]
  BY <1>2, <1>3
<1>. QED
  BY <1>2, <1>3, <1>4 DEF k

\* A notification is created under a key of its writer's own.
LEMMA RowCreated ==
  ASSUME Sound, NEW p \in Procs, CreateRow(p)
  PROVE  Sound'
<1>. DEFINE k == Key(p, proc[p])
            w == [proc[p] EXCEPT !.at = "smtp", !.row = k]
<1>1. TypeOK /\ proc[p] \in Work
  BY StateTyped DEF Sound
<1>2. /\ k \notin DOMAIN rows /\ DOMAIN rows' = DOMAIN rows \cup {k}
      /\ rows'[k] = [status |-> "PENDING", copies |-> 0]
      /\ \A l \in DOMAIN rows : rows'[l] = rows[l]
      /\ proc' = [proc EXCEPT ![p] = w]
      /\ proc[p].at = "announce" /\ proc[p].inc \in Ids
  BY Created
<1>3. UNCHANGED <<incident, crashes>> /\ flagged' \subseteq Ids \X Types /\ todo' \subseteq todo
  BY <1>1 DEF CreateRow, TypeOK
<1>4. k \in Ids \X Types \X Procs /\ k[1] = proc[p].inc /\ k[3] = p
      /\ (k[2] = "RECOVERY" => proc[p].result = "UP")
  BY <1>1, <1>2 DEF Key, Types, Work, Results
<1>5. k[2] = "RECOVERY" => incident[k[1]].status = "RESOLVED"
  BY <1>2, <1>4 DEF Sound, EachDoing, Doing
<1>6. w.at = "smtp" /\ w.result = proc[p].result /\ w.inc = proc[p].inc /\ w.row = k
  BY <1>1 DEF Work
<1>7. w \in Work'
  <2>1. k \in DOMAIN rows' /\ Ids' = Ids /\ DOMAIN rows \subseteq DOMAIN rows'
    BY <1>2, <1>3 DEF Ids
  <2>. HIDE DEF k
  <2>. QED
    BY <1>1, <2>1 DEF Work, Places
<1>8. Key(p, w) = k
  BY <1>6 DEF Key
<1>. HIDE DEF w, k
<1>9. proc'[p] = w
  BY <1>1, <1>2 DEF TypeOK
<1>10. Ids' = Ids
  BY <1>3 DEF Ids
<1>11. Doing(p, proc[p])'
  BY <1>2, <1>6, <1>8, <1>9, <1>10 DEF Doing, Key
<1>12. /\ DOMAIN rows' \subseteq Ids \X Types \X Procs
       /\ \A l \in DOMAIN rows' : rows'[l] \in [status : {"PENDING", "SENT"}, copies : Nat]
       /\ \A l \in DOMAIN rows' \ DOMAIN rows :
            l[3] = p /\ (l[2] = "RECOVERY" => incident[l[1]].status = "RESOLVED")
  <2>1. DOMAIN rows' \subseteq Ids \X Types \X Procs
    BY <1>1, <1>2, <1>4 DEF TypeOK
  <2>2. [status |-> "PENDING", copies |-> 0] \in [status : {"PENDING", "SENT"}, copies : Nat]
    OBVIOUS
  <2>3. \A l \in DOMAIN rows' : rows'[l] \in [status : {"PENDING", "SENT"}, copies : Nat]
    BY <1>1, <1>2, <2>2, Zenon DEF TypeOK
  <2>. QED
    BY <1>2, <1>4, <1>5, <2>1, <2>3
<1>. QED
  BY <1>2, <1>3, <1>7, <1>9, <1>11, <1>12, RowsKeep

\* The other steps write to one row that is there.
Writes(k, row) ==
  /\ k \in DOMAIN rows
  /\ rows' = [rows EXCEPT ![k] = row]
  /\ row \in [status : {"PENDING", "SENT"}, copies : Nat]

\* A row that exists is written to.
LEMMA WriteKeeps ==
  ASSUME Sound, NEW p \in Procs, NEW k, NEW row, Writes(k, row),
         NEW w \in Work, proc' = [proc EXCEPT ![p] = w], Doing(p, w),
         UNCHANGED <<incident, crashes>>, flagged' \subseteq Ids \X Types, todo' \subseteq todo
  PROVE  Sound'
<1>1. TypeOK
  BY DEF Sound
<1>2. DOMAIN rows' = DOMAIN rows
  BY DEF Writes
<1>3. \A l \in DOMAIN rows : rows'[l] \in [status : {"PENDING", "SENT"}, copies : Nat]
  BY <1>1, Zenon DEF Writes, TypeOK
<1>4. proc'[p] = w
  BY <1>1 DEF TypeOK
<1>5. Ids' = Ids /\ OpenIncidents' = OpenIncidents
  BY DEF Ids, OpenIncidents
<1>6. proc'[p] \in Work' /\ Doing(p, proc[p])'
  BY <1>2, <1>4, <1>5 DEF Work, Doing, Key
<1>7. DOMAIN rows' \subseteq Ids \X Types \X Procs
  BY <1>1, <1>2 DEF TypeOK
<1>. QED
  BY <1>2, <1>3, <1>6, <1>7, RowsKeep

\* SendMail and MarkSent, on p's own row; RetryMail and RetryMarkSent on any.
LEMMA MailSent ==
  ASSUME Sound, NEW p \in Procs, SendMail(p)
  PROVE  LET k == proc[p].row
         IN  /\ Writes(k, [rows[k] EXCEPT !.copies = @ + 1])
             /\ proc' = [proc EXCEPT ![p].at = "mark"]
             /\ proc[p].at = "smtp" /\ k = Key(p, proc[p])
<1>1. proc[p].row \in DOMAIN rows /\ proc[p].at = "smtp" /\ proc[p].row = Key(p, proc[p])
  BY DEF SendMail, At, Sound, EachDoing, Doing
<1>2. rows[proc[p].row] \in [status : {"PENDING", "SENT"}, copies : Nat]
  BY <1>1 DEF Sound, TypeOK
<1>. QED
  BY <1>1, <1>2 DEF SendMail, Goes, Writes

\* What marking a row as sent does.
LEMMA MailMarked ==
  ASSUME Sound, NEW p \in Procs, MarkSent(p)
  PROVE  LET k == proc[p].row
         IN  /\ Writes(k, [rows[k] EXCEPT !.status = "SENT"])
             /\ proc' = [proc EXCEPT ![p].at = "flag"]
             /\ proc[p].at = "mark" /\ k = Key(p, proc[p])
<1>1. proc[p].row \in DOMAIN rows /\ proc[p].at = "mark" /\ proc[p].row = Key(p, proc[p])
  BY DEF MarkSent, At, Sound, EachDoing, Doing
<1>2. rows[proc[p].row] \in [status : {"PENDING", "SENT"}, copies : Nat]
  BY <1>1 DEF Sound, TypeOK
<1>. QED
  BY <1>1, <1>2 DEF MarkSent, Goes, Writes

\* What a retried mail does.
LEMMA MailRetried ==
  ASSUME Sound, NEW k \in todo, RetryMail(k)
  PROVE  Writes(k, [rows[k] EXCEPT !.copies = @ + 1])
<1>1. rows[k] \in [status : {"PENDING", "SENT"}, copies : Nat] /\ k \in DOMAIN rows
  BY DEF Sound, TypeOK
<1>. QED
  BY <1>1 DEF RetryMail, Writes

\* What marking a retried row does.
LEMMA RetryMarked ==
  ASSUME Sound, RetryMarkSent
  PROVE  LET k == proc[Worker].row
         IN  Writes(k, [rows[k] EXCEPT !.status = "SENT"]) /\ proc[Worker].at = "retried"
<1>1. proc[Worker].row \in DOMAIN rows /\ proc[Worker].at = "retried"
  BY ProcsAssumption DEF RetryMarkSent, At, Sound, EachDoing, Doing
<1>2. rows[proc[Worker].row] \in [status : {"PENDING", "SENT"}, copies : Nat]
  BY <1>1 DEF Sound, TypeOK
<1>. QED
  BY <1>1, <1>2 DEF RetryMarkSent, Writes

\* The writer's own delivery.
LEMMA DeliverySound ==
  ASSUME Sound, NEW p \in Procs, SendMail(p) \/ MarkSent(p)
  PROVE  Sound'
<1>1. TypeOK /\ proc[p] \in Work
  BY StateTyped DEF Sound
<1>. DEFINE Delivers(place, k, row) ==
              /\ proc' = [proc EXCEPT ![p].at = place]
              /\ k = proc[p].row /\ k = Key(p, proc[p]) /\ Writes(k, row)
              /\ proc[p].at \in {"smtp", "mark"}
<1>2. PICK place \in {"mark", "flag"} : \E k, row : Delivers(place, k, row)
  <2>1. ASSUME SendMail(p)
        PROVE  \E k, row : Delivers("mark", k, row)
    BY <2>1, MailSent
  <2>2. ASSUME MarkSent(p)
        PROVE  \E k, row : Delivers("flag", k, row)
    BY <2>2, MailMarked
  <2>. HIDE DEF Delivers
  <2>. QED
    BY <2>1, <2>2
<1>3. PICK k, row : Delivers(place, k, row)
  BY <1>2
<1>. DEFINE w == [proc[p] EXCEPT !.at = place]
<1>4. w \in Work /\ w.at = place /\ w.result = proc[p].result /\ w.inc = proc[p].inc
      /\ w.row = proc[p].row
  <2>1. place \in Places
    BY DEF Places
  <2>. QED
    BY <1>1, <2>1, Placed
<1>5. proc' = [proc EXCEPT ![p] = w]
  BY <1>3
<1>. HIDE DEF w
<1>6. proc[p].inc \in Ids /\ k \in DOMAIN rows
  BY <1>3 DEF Sound, EachDoing, Doing, Writes
<1>7. Doing(p, w)
  BY <1>3, <1>4, <1>6 DEF Doing, Key
<1>8. UNCHANGED <<incident, crashes>> /\ flagged' \subseteq Ids \X Types /\ todo' \subseteq todo
  BY <1>1 DEF SendMail, MarkSent, TypeOK
<1>. QED
  BY <1>3, <1>4, <1>5, <1>7, <1>8, WriteKeeps

\* The retry's delivery.
LEMMA RetrySound ==
  ASSUME Sound, ContinueRetry
  PROVE  Sound'
<1>1. TypeOK /\ Worker \in Procs /\ proc[Worker] \in Work
  BY StateTyped, ProcsAssumption DEF Sound
<1>2. ASSUME NEW k \in todo, RetryMail(k) PROVE Sound'
  <2>. DEFINE w == [proc[Worker] EXCEPT !.at = "retried", !.row = k]
  <2>1. k \in DOMAIN rows
    BY <1>1 DEF TypeOK
  <2>2. w \in Work /\ w.at = "retried" /\ w.row = k
    BY <1>1, <2>1 DEF Work, Places
  <2>3. proc' = [proc EXCEPT ![Worker] = w]
    BY <1>2 DEF RetryMail
  <2>. HIDE DEF w
  <2>4. Doing(Worker, w)
    BY <2>1, <2>2 DEF Doing
  <2>5. UNCHANGED <<incident, crashes>> /\ flagged' \subseteq Ids \X Types /\ todo' \subseteq todo
    BY <1>1, <1>2 DEF RetryMail, TypeOK
  <2>. QED
    BY <1>1, <1>2, <2>2, <2>3, <2>4, <2>5, MailRetried, WriteKeeps
<1>3. ASSUME RetryMarkSent PROVE Sound'
  <2>. DEFINE k == proc[Worker].row
              w == [proc[Worker] EXCEPT !.at = "retry", !.row = <<>>]
  <2>1. Writes(k, [rows[k] EXCEPT !.status = "SENT"])
    BY <1>3, RetryMarked
  <2>2. UNCHANGED <<incident, crashes>> /\ todo' \subseteq todo
    BY <1>3 DEF RetryMarkSent
  <2>3. flagged' \subseteq Ids \X Types
    <3>1. k \in Ids \X Types \X Procs
      BY <1>1, <2>1 DEF Writes, TypeOK
    <3>2. <<k[1], k[2]>> \in Ids \X Types
      BY <3>1
    <3>3. flagged' = flagged \cup {<<k[1], k[2]>>}
      BY <1>3 DEF RetryMarkSent
    <3>. QED
      BY <1>1, <3>2, <3>3 DEF TypeOK
  <2>4. proc' = [proc EXCEPT ![Worker] = Idle] \/ proc' = [proc EXCEPT ![Worker] = w]
    BY <1>3 DEF RetryMarkSent, Finishes
  <2>5. w \in Work /\ w.at = "retry"
    BY <1>1 DEF Work, Places
  <2>. HIDE DEF w
  <2>6. Doing(Worker, w)
    BY <2>5 DEF Doing
  <2>7. CASE proc' = [proc EXCEPT ![Worker] = Idle]
    BY <1>1, <2>1, <2>2, <2>3, <2>7, IdleIsWork, WriteKeeps
  <2>8. CASE proc' = [proc EXCEPT ![Worker] = w]
    BY <1>1, <2>1, <2>2, <2>3, <2>5, <2>6, <2>8, WriteKeeps
  <2>. QED
    BY <2>4, <2>7, <2>8
<1>. QED
  BY <1>2, <1>3 DEF ContinueRetry

-----------------------------------------------------------------------------
(* The bound on incidents, and the theorem.                                *)

\* There are finitely many processes, so those that may insert can be counted.
LEMMA InsertingFinite ==
  /\ IsFiniteSet(Inserting) /\ Cardinality(Inserting) \in Nat
  /\ IsFiniteSet(Failing) /\ Cardinality(Failing) \in Nat
<1>1. Inserting \in SUBSET Procs /\ Failing \in SUBSET Procs
  BY DEF Inserting, Failing
<1>. QED
  BY <1>1, ProcsAssumption, FS_Subset, FS_CardinalityType

\* A step that measures no failure and inserts nothing takes no room.
LEMMA NoNewFailure ==
  ASSUME TypeOK, Room, Len(incident') = Len(incident), Inserting' \subseteq Inserting
  PROVE  Room'
<1>1. IsFiniteSet(Inserting') /\ Cardinality(Inserting') <= Cardinality(Inserting)
  BY InsertingFinite, FS_Subset
<1>2. Cardinality(Inserting') \in Nat
  BY <1>1, FS_CardinalityType
<1>. QED
  BY <1>1, <1>2, InsertingFinite, StateTyped, BoundsAssumption DEF Room

\* No process inserts that was not counted when its check began.
LEMMA RoomStays ==
  ASSUME Sound, Room, [Next]_vars
  PROVE  Room'
<1>1. TypeOK /\ EachDoing /\ Len(incident) \in Nat
  BY StateTyped DEF Sound
<1>2. ASSUME NEW p \in Procs, proc' = [proc EXCEPT ![p] = proc'[p]],
             Len(incident') = Len(incident),
             proc'[p].at \in {"measured", "guard", "insert"} /\ proc'[p].result = "DOWN"
               => p \in Inserting
      PROVE  Room'
  <2>1. \A q \in Procs \ {p} : proc'[q] = proc[q]
    BY <1>2 DEF Sound, TypeOK
  <2>2. Inserting' \subseteq Inserting
    BY <1>2, <2>1 DEF Inserting
  <2>. QED
    BY <1>1, <1>2, <2>2, NoNewFailure
<1>3. ASSUME NEW p \in Procs, NEW r \in Results, Measure(p, r) PROVE Room'
  <2>. DEFINE w == [proc[p] EXCEPT !.at = "measured", !.result = r]
  <2>1. w.at = "measured" /\ w.result = r
    BY <1>1, StateTyped DEF Work
  <2>2. proc' = [proc EXCEPT ![p] = w] /\ UNCHANGED incident
    BY <1>3 DEF Measure
  <2>. HIDE DEF w
  <2>3. proc'[p] = w /\ \A q \in Procs \ {p} : proc'[q] = proc[q]
    BY <1>1, <2>2 DEF TypeOK
  <2>4. CASE r = "UP"
    BY <1>2, <2>1, <2>2, <2>3, <2>4
  <2>5. CASE r = "DOWN"
    <3>1. Inserting' \subseteq Failing \cup {p}
      BY <2>3 DEF Inserting, Failing
    <3>2. /\ IsFiniteSet(Failing \cup {p})
          /\ Cardinality(Failing \cup {p}) <= Cardinality(Failing) + 1
          /\ Cardinality(Failing \cup {p}) \in Nat
      <4>1. /\ IsFiniteSet(Failing \cup {p})
            /\ Cardinality(Failing \cup {p}) =
                 IF p \in Failing THEN Cardinality(Failing) ELSE Cardinality(Failing) + 1
        BY InsertingFinite, FS_AddElement
      <4>. QED
        BY <4>1, InsertingFinite
    <3>3. /\ Cardinality(Inserting') <= Cardinality(Failing \cup {p})
          /\ Cardinality(Inserting') \in Nat
      BY <3>1, <3>2, FS_Subset, FS_CardinalityType
    <3>4. Len(incident) + Cardinality(Failing) < MaxIncidents
      BY <1>3, <2>5 DEF Measure
    <3>. QED
      BY <1>1, <2>2, <3>2, <3>3, <3>4, InsertingFinite, BoundsAssumption DEF Room
  <2>. QED
    BY <2>4, <2>5 DEF Results
<1>4. ASSUME NEW p \in Procs, Finishes(p), UNCHANGED incident PROVE Room'
  BY <1>1, <1>2, <1>4, IdleIsWork DEF Finishes, TypeOK
<1>5. ASSUME NEW p \in Procs, NEW place \in Places, Goes(p, place),
             Len(incident') = Len(incident),
             place \in {"guard", "insert"} => proc[p].at \in {"measured", "guard"},
             place # "measured"
      PROVE  Room'
  <2>. DEFINE w == [proc[p] EXCEPT !.at = place]
  <2>1. w.at = place /\ w.result = proc[p].result
    BY <1>1, StateTyped, Placed
  <2>2. proc' = [proc EXCEPT ![p] = w]
    BY <1>5 DEF Goes
  <2>. HIDE DEF w
  <2>3. proc'[p] = w
    BY <1>1, <2>2 DEF TypeOK
  <2>. QED
    BY <1>2, <1>5, <2>1, <2>2, <2>3 DEF Inserting
<1>6. ASSUME NEW p \in Procs, NEW w, proc' = [proc EXCEPT ![p] = w],
             w.at \notin {"measured", "guard", "insert"}, UNCHANGED incident
      PROVE  Room'
  BY <1>1, <1>2, <1>6 DEF TypeOK
<1>7. ASSUME NEW p \in Procs,
             FindNothingToDo(p) \/ SkipMail(p) \/ FlagIncident(p) \/ Crash(p)
      PROVE  Room'
  BY <1>4, <1>7 DEF FindNothingToDo, SkipMail, FlagIncident, Crash
<1>8. ASSUME NEW p \in Procs, FindOutage(p) \/ PassGuard(p) PROVE Room'
  BY <1>5, <1>8 DEF FindOutage, PassGuard, At, Places
<1>9. ASSUME NEW p \in Procs, FindRecovery(p) \/ TakeOver(p) PROVE Room'
  <2>1. PICK place, i :
          /\ place \in {"resolve", "announce"}
          /\ proc' = [proc EXCEPT ![p].at = place, ![p].inc = i]
    BY <1>9 DEF FindRecovery, TakeOver
  <2>. DEFINE w == [proc[p] EXCEPT !.at = place, !.inc = i]
  <2>2. w.at = place
    BY <1>1, StateTyped DEF Work
  <2>3. proc' = [proc EXCEPT ![p] = w] /\ UNCHANGED incident
    BY <1>9, <2>1 DEF FindRecovery, TakeOver
  <2>. HIDE DEF w
  <2>. QED
    BY <1>6, <2>1, <2>2, <2>3
<1>10. ASSUME NEW p \in Procs, CreateRow(p) PROVE Room'
  <2>. DEFINE w == [proc[p] EXCEPT !.at = "smtp", !.row = Key(p, proc[p])]
  <2>1. w.at = "smtp"
    BY <1>1, StateTyped DEF Work
  <2>2. proc' = [proc EXCEPT ![p] = w] /\ UNCHANGED incident
    BY <1>10, Created DEF CreateRow
  <2>. HIDE DEF w
  <2>. QED
    BY <1>6, <2>1, <2>2
<1>11. ASSUME NEW p \in Procs, InsertIncident(p) PROVE Room'
  <2>. DEFINE last == Len(incident')
  <2>1. PICK w : proc' = [proc EXCEPT ![p] = w] /\ w = [proc[p] EXCEPT !.at = "announce", !.inc = last]
    BY <1>11 DEF InsertIncident
  <2>2. w.at = "announce"
    BY <1>1, <2>1, StateTyped DEF Work
  <2>3. proc'[p] = w /\ \A q \in Procs \ {p} : proc'[q] = proc[q]
    BY <1>1, <2>1 DEF TypeOK
  <2>4. Inserting' \subseteq Inserting \ {p}
    BY <2>2, <2>3 DEF Inserting
  <2>5. p \in Inserting
    BY <1>1, <1>11 DEF InsertIncident, At, EachDoing, Doing, Inserting
  <2>6. /\ IsFiniteSet(Inserting \ {p})
        /\ Cardinality(Inserting \ {p}) = Cardinality(Inserting) - 1
    BY <2>5, InsertingFinite, FS_RemoveElement
  <2>7. Cardinality(Inserting') <= Cardinality(Inserting) - 1 /\ Cardinality(Inserting') \in Nat
    BY <2>4, <2>6, FS_Subset, FS_CardinalityType
  <2>8. Len(incident') = Len(incident) + 1
    <3>1. incident \in Seq([status : {"OPEN", "RESOLVED"}, by : Procs])
          /\ [status |-> "OPEN", by |-> p] \in [status : {"OPEN", "RESOLVED"}, by : Procs]
      BY <1>1 DEF TypeOK
    <3>. QED
      BY <1>11, <3>1, AppendProperties DEF InsertIncident
  <2>. QED
    BY <1>1, <2>7, <2>8, InsertingFinite, BoundsAssumption DEF Room
<1>12. ASSUME NEW p \in Procs, ResolveIncident(p) PROVE Room'
  <2>1. Len(incident') = Len(incident)
    BY <1>1, <1>12, LenProperties DEF ResolveIncident, TypeOK
  <2>. QED
    BY <1>5, <1>12, <2>1 DEF ResolveIncident, Places
<1>13. ASSUME NEW p \in Procs, SendMail(p) \/ MarkSent(p) PROVE Room'
  BY <1>5, <1>13 DEF SendMail, MarkSent, Places
<1>14. CASE StartRetry
  BY <1>5, <1>14, ProcsAssumption DEF StartRetry, Places
<1>15. CASE ContinueRetry
  <2>1. Worker \in Procs /\ UNCHANGED incident
    BY <1>15, ProcsAssumption DEF ContinueRetry, RetryMail, RetryMarkSent
  <2>2. ASSUME NEW k \in todo, RetryMail(k) PROVE Room'
    <3>. DEFINE w == [proc[Worker] EXCEPT !.at = "retried", !.row = k]
    <3>1. w.at = "retried"
      BY <1>1, <2>1, StateTyped DEF Work
    <3>2. proc' = [proc EXCEPT ![Worker] = w]
      BY <2>2 DEF RetryMail
    <3>. HIDE DEF w
    <3>. QED
      BY <1>6, <2>1, <3>1, <3>2
  <2>3. ASSUME RetryMarkSent PROVE Room'
    <3>. DEFINE w == [proc[Worker] EXCEPT !.at = "retry", !.row = <<>>]
    <3>1. w.at = "retry"
      BY <1>1, <2>1, StateTyped DEF Work
    <3>2. Finishes(Worker) \/ proc' = [proc EXCEPT ![Worker] = w]
      BY <2>3 DEF RetryMarkSent
    <3>. HIDE DEF w
    <3>. QED
      BY <1>4, <1>6, <2>1, <3>1, <3>2
  <2>. QED
    BY <1>15, <2>2, <2>3 DEF ContinueRetry
<1>16. CASE UNCHANGED vars
  BY <1>16 DEF vars, Room, Inserting
<1>. QED
  BY <1>3, <1>7, <1>8, <1>9, <1>10, <1>11, <1>12, <1>13, <1>14, <1>15, <1>16 DEF Next, Proceed

\* Every step keeps what the processes know.
LEMMA SoundStays ==
  ASSUME Sound, Room, [Next]_vars
  PROVE  Sound'
<1>1. CASE UNCHANGED vars
  BY <1>1 DEF vars, Sound, TypeOK, EachDoing, Doing, Key, OpenIncidents, Ids, RecoveriesFollow,
     OneOpenPerProcess
<1>2. CASE Next
  BY <1>2, CheckBegins, OutageFound, RecoveryFound, TakenOver, RetryBegins, WorkEnds, Inserted,
     Resolved, RowCreated, DeliverySound, RetrySound DEF Next, Proceed
<1>. QED
  BY <1>1, <1>2

\* At the beginning no process knows anything.
LEMMA InitSound == Init => Sound /\ Room
<1>. SUFFICES ASSUME Init PROVE Sound /\ Room
  OBVIOUS
<1>1. Len(incident) = 0 /\ Ids = {} /\ incident \in Seq([status : {"OPEN", "RESOLVED"}, by : Procs])
  BY EmptySeq DEF Init, Ids
<1>2. DOMAIN rows = {}
  BY DEF Init
<1>3. proc \in [Procs -> Work] /\ EachDoing
  BY IdleIsWork DEF Init, EachDoing
<1>4. TypeOK
  BY <1>1, <1>2, <1>3, BoundsAssumption DEF Init, TypeOK, Work
<1>5. Inserting = {}
  BY IdleIsWork DEF Init, Inserting
<1>6. Room
  BY <1>1, <1>5, FS_EmptySet, BoundsAssumption DEF Room
<1>. QED
  BY <1>1, <1>2, <1>3, <1>4, <1>6 DEF Sound, RecoveriesFollow, OneOpenPerProcess

\* Two incidents open at once were inserted by different processes: whatever
\* the interleaving and wherever processes stop, the guard keeps each process
\* to one. (incident_service 56-80)
THEOREM OneOpenForEach == Spec => [](TypeOK /\ OneOpenPerProcess)
<1>1. Init => Sound /\ Room
  BY InitSound
<1>2. Sound /\ Room /\ [Next]_vars => Sound' /\ Room'
  BY SoundStays, RoomStays
<1>3. Sound => TypeOK /\ OneOpenPerProcess
  BY DEF Sound
<1>. QED
  BY <1>1, <1>2, <1>3, PTL DEF Spec

-----------------------------------------------------------------------------
(* Copies. A row is mailed once more by the process that wrote it while it *)
(* is about to, and once more by the worker while the row is on its list   *)
(* or, still pending, may get there: not when the worker has mailed it and *)
(* goes on to mark it. A crash makes the worker forget that, once.         *)

Sending(k) == IF proc[k[3]].at = "smtp" /\ proc[k[3]].row = k THEN 1 ELSE 0

InWorkersHands(k) == proc[Worker].row = k /\ proc[Worker].at \in {"smtp", "mark", "retried"}

Retries(k) ==
  IF k \in todo \/ (rows[k].status = "PENDING" /\ ~InWorkersHands(k)) THEN 1 ELSE 0

Owed(k) == rows[k].copies + Sending(k) + Retries(k)

CopiesAccounted == \A k \in DOMAIN rows : Owed(k) <= Cardinality({k[3], Worker}) + crashes

\* The writer and the worker are two, or one.
LEMMA PairCounts ==
  ASSUME NEW p
  PROVE  /\ Cardinality({p, Worker}) \in Nat
         /\ Cardinality({p, Worker}) = IF p = Worker THEN 1 ELSE 2
<1>1. {p, Worker} = {p} \cup {Worker} /\ IsFiniteSet({p}) /\ Cardinality({p}) = 1
  BY FS_Singleton
<1>. QED
  BY <1>1, FS_AddElement

\* What is owed for a row are numbers.
LEMMA CountsTyped ==
  ASSUME TypeOK, NEW k \in DOMAIN rows
  PROVE  /\ rows[k].copies \in Nat /\ rows[k].status \in {"PENDING", "SENT"}
         /\ crashes \in Nat /\ k[3] \in Procs /\ Worker \in Procs
         /\ Sending(k) \in {0, 1} /\ Retries(k) \in {0, 1}
<1>1. rows[k] \in [status : {"PENDING", "SENT"}, copies : Nat]
  BY DEF TypeOK
<1>. QED
  BY <1>1, StateTyped, ProcsAssumption, BoundsAssumption DEF TypeOK, Sending, Retries

\* What a step of p does to the two counts.
LEMMA Recount ==
  ASSUME TypeOK, NEW p \in Procs, NEW w, proc' = [proc EXCEPT ![p] = w],
         NEW k, k[3] \in Procs
  PROVE  /\ Sending(k)' = IF k[3] = p THEN IF w.at = "smtp" /\ w.row = k THEN 1 ELSE 0
                          ELSE Sending(k)
         /\ InWorkersHands(k)' <=> IF p = Worker
                                   THEN w.row = k /\ w.at \in {"smtp", "mark", "retried"}
                                   ELSE InWorkersHands(k)
<1>1. \A q \in Procs : proc'[q] = IF q = p THEN w ELSE proc[q]
  BY DEF TypeOK
<1>2. proc'[k[3]] = IF k[3] = p THEN w ELSE proc[k[3]]
  BY <1>1
<1>3. proc'[Worker] = IF p = Worker THEN w ELSE proc[Worker]
  BY <1>1, ProcsAssumption
<1>. QED
  BY <1>2, <1>3 DEF Sending, InWorkersHands

\* Nothing more is owed than before, but for one more crash.
LEMMA NoMoreOwed ==
  ASSUME TypeOK, TypeOK', CopiesAccounted, DOMAIN rows' = DOMAIN rows,
         \A k \in DOMAIN rows : Owed(k)' + crashes <= Owed(k) + crashes'
  PROVE  CopiesAccounted'
<1>. SUFFICES ASSUME NEW k \in DOMAIN rows
     PROVE  Owed(k)' <= Cardinality({k[3], Worker}) + crashes'
  BY DEF CopiesAccounted
<1>1. Owed(k) \in Nat /\ Owed(k)' \in Nat /\ crashes \in Nat /\ crashes' \in Nat
  <2>1. Owed(k) \in Nat /\ crashes \in Nat
    BY CountsTyped DEF Owed
  <2>2. \A l \in DOMAIN rows' : Owed(l)' \in Nat /\ crashes' \in Nat
    <3>. SUFFICES ASSUME NEW l \in DOMAIN rows' PROVE Owed(l)' \in Nat /\ crashes' \in Nat
      OBVIOUS
    <3>1. rows'[l] \in [status : {"PENDING", "SENT"}, copies : Nat]
      BY DEF TypeOK
    <3>2. rows'[l].copies \in Nat /\ crashes' \in Nat
      BY <3>1, BoundsAssumption DEF TypeOK
    <3>3. Sending(l)' \in {0, 1} /\ Retries(l)' \in {0, 1}
      BY DEF Sending, Retries
    <3>. QED
      BY <3>2, <3>3 DEF Owed
  <2>. QED
    BY <2>1, <2>2
<1>. QED
  BY <1>1, PairCounts DEF CopiesAccounted

\* Steps of p that begin and end away from the mail.
LEMMA QuietMove ==
  ASSUME TypeOK, TypeOK', CopiesAccounted, NEW p \in Procs, NEW w,
         proc' = [proc EXCEPT ![p] = w],
         proc[p].at \notin {"smtp", "mark", "retried"}, w.at \notin {"smtp", "mark", "retried"},
         UNCHANGED <<rows, crashes>>,
         todo' = todo \/ (p = Worker /\ \A k \in todo' : rows[k].status = "PENDING")
  PROVE  CopiesAccounted'
<1>1. ASSUME NEW k \in DOMAIN rows PROVE Owed(k)' + crashes <= Owed(k) + crashes'
  <2>0. k[3] \in Procs
    BY CountsTyped
  <2>1. Sending(k)' = Sending(k)
    <3>1. Sending(k)' = IF k[3] = p THEN 0 ELSE Sending(k)
      BY <2>0, Recount
    <3>2. k[3] = p => Sending(k) = 0
      BY DEF Sending
    <3>. QED
      BY <3>1, <3>2
  <2>2. InWorkersHands(k)' <=> InWorkersHands(k)
    <3>1. InWorkersHands(k)' <=> (p # Worker /\ InWorkersHands(k))
      BY <2>0, Recount
    <3>. QED
      BY <3>1 DEF InWorkersHands
  <2>3. p = Worker => ~InWorkersHands(k)
    BY DEF InWorkersHands
  <2>4. Retries(k)' \in {0, 1} /\ Retries(k)' <= Retries(k)
    BY <2>2, <2>3 DEF Retries
  <2>. QED
    BY <2>1, <2>4, CountsTyped DEF Owed
<1>. QED
  BY <1>1, NoMoreOwed

\* A new row is owed its writer's mail and the worker's retry: one mail when
\* the writer is the worker.
LEMMA CreatedAccounted ==
  ASSUME Sound, TypeOK', CopiesAccounted, NEW p \in Procs, CreateRow(p)
  PROVE  CopiesAccounted'
<1>1. TypeOK /\ proc[p] \in Work
  BY StateTyped DEF Sound
<1>2. PICK n : n = Key(p, proc[p])
  OBVIOUS
<1>. DEFINE w == [proc[p] EXCEPT !.at = "smtp", !.row = n]
<1>3. /\ n \notin DOMAIN rows /\ DOMAIN rows' = DOMAIN rows \cup {n}
      /\ rows'[n] = [status |-> "PENDING", copies |-> 0]
      /\ \A l \in DOMAIN rows : rows'[l] = rows[l]
      /\ proc' = [proc EXCEPT ![p] = w]
      /\ proc[p].at = "announce" /\ n[3] = p
  BY <1>2, Created DEF Key
<1>4. w.at = "smtp" /\ w.row = n
  BY <1>1 DEF Work
<1>. HIDE DEF w
<1>5. todo' = todo /\ crashes' = crashes /\ crashes \in Nat
  BY <1>1, BoundsAssumption DEF CreateRow, TypeOK
<1>6. Owed(n)' <= Cardinality({n[3], Worker}) + crashes'
  <2>1. Sending(n)' = 1 /\ (p = Worker => InWorkersHands(n)')
    BY <1>1, <1>3, <1>4, Recount
  <2>2. n \notin todo'
    BY <1>1, <1>3, <1>5 DEF TypeOK
  <2>3. Retries(n)' \in {0, 1} /\ (p = Worker => Retries(n)' = 0)
    BY <2>1, <2>2 DEF Retries
  <2>4. rows'[n].copies = 0
    BY <1>3
  <2>5. Owed(n)' = 0 + 1 + Retries(n)'
    BY <2>1, <2>4 DEF Owed
  <2>. QED
    <3>1. n[3] = p
      BY <1>3
    <3>2. Cardinality({n[3], Worker}) = IF p = Worker THEN 1 ELSE 2
      BY <3>1, PairCounts, Zenon
    <3>. QED
      BY <1>5, <2>3, <2>5, <3>2
<1>7. ASSUME NEW k \in DOMAIN rows PROVE Owed(k)' <= Cardinality({k[3], Worker}) + crashes'
  <2>1. k # n /\ k[3] \in Procs
    BY <1>1, <1>3, CountsTyped
  <2>2. Sending(k)' = Sending(k)
    <3>1. Sending(k)' = IF k[3] = p THEN 0 ELSE Sending(k)
      BY <1>1, <1>3, <1>4, <2>1, Recount
    <3>2. k[3] = p => Sending(k) = 0
      BY <1>3 DEF Sending
    <3>. QED
      BY <3>1, <3>2
  <2>3. InWorkersHands(k)' <=> InWorkersHands(k)
    <3>1. InWorkersHands(k)' <=> (p # Worker /\ InWorkersHands(k))
      BY <1>1, <1>3, <1>4, <2>1, Recount
    <3>. QED
      BY <1>3, <3>1 DEF InWorkersHands
  <2>4. Owed(k)' = Owed(k)
    BY <1>3, <1>5, <2>2, <2>3 DEF Owed, Retries
  <2>. QED
    BY <1>5, <2>4 DEF CopiesAccounted
<1>. QED
  BY <1>3, <1>6, <1>7 DEF CopiesAccounted

\* A write to a row, pointwise.
LEMMA Written ==
  ASSUME NEW n, NEW row, Writes(n, row)
  PROVE  /\ DOMAIN rows' = DOMAIN rows /\ n \in DOMAIN rows
         /\ \A k \in DOMAIN rows : rows'[k] = IF k = n THEN row ELSE rows[k]
BY DEF Writes

\* The writer's mail: what was owed by Sending has become a copy.
LEMMA MailedAccounted ==
  ASSUME Sound, TypeOK', CopiesAccounted, NEW p \in Procs, SendMail(p)
  PROVE  CopiesAccounted'
<1>1. TypeOK /\ proc[p] \in Work
  BY StateTyped DEF Sound
<1>2. PICK n : n = proc[p].row
  OBVIOUS
<1>. DEFINE w == [proc[p] EXCEPT !.at = "mark"]
<1>3. /\ Writes(n, [rows[n] EXCEPT !.copies = @ + 1]) /\ n[3] = p
      /\ proc' = [proc EXCEPT ![p] = w] /\ proc[p].at = "smtp"
  BY <1>2, MailSent DEF Key
<1>4. w.at = "mark" /\ w.row = n
  BY <1>1, <1>2 DEF Work
<1>. HIDE DEF w
<1>5. todo' = todo /\ crashes' = crashes
  BY DEF SendMail
<1>6. DOMAIN rows' = DOMAIN rows /\ n \in DOMAIN rows
      /\ rows'[n].copies = rows[n].copies + 1 /\ rows'[n].status = rows[n].status
      /\ \A k \in DOMAIN rows : k # n => rows'[k] = rows[k]
  <2>1. rows[n] \in [status : {"PENDING", "SENT"}, copies : Nat]
    BY <1>1, <1>3 DEF Writes, TypeOK
  <2>. QED
    BY <1>3, <2>1, Written
<1>7. ASSUME NEW k \in DOMAIN rows PROVE Owed(k)' + crashes <= Owed(k) + crashes'
  <2>1. k[3] \in Procs /\ rows[k].copies \in Nat /\ crashes \in Nat /\ Retries(k) \in {0, 1}
        /\ Sending(k) \in {0, 1}
    BY <1>1, CountsTyped
  <2>2. Sending(k)' = (IF k[3] = p THEN 0 ELSE Sending(k))
        /\ Sending(n) = 1
    BY <1>1, <1>2, <1>3, <1>4, <2>1, Recount DEF Sending
  <2>3. InWorkersHands(k)' <=> InWorkersHands(k)
    <3>1. InWorkersHands(k)' <=> IF p = Worker THEN n = k ELSE InWorkersHands(k)
      BY <1>1, <1>3, <1>4, <2>1, Recount
    <3>. QED
      BY <1>2, <1>3, <3>1 DEF InWorkersHands
  <2>4. Retries(k)' = Retries(k)
    BY <1>5, <1>6, <2>3 DEF Retries
  <2>5. CASE k = n
    BY <1>3, <1>5, <1>6, <2>1, <2>2, <2>4, <2>5 DEF Owed
  <2>6. CASE k # n
    BY <1>5, <1>6, <2>1, <2>2, <2>4, <2>6 DEF Owed
  <2>. QED
    BY <2>5, <2>6
<1>. QED
  BY <1>1, <1>6, <1>7, NoMoreOwed

\* A row marked as sent is on no list it was not on before.
LEMMA MarkedAccounted ==
  ASSUME Sound, TypeOK', CopiesAccounted, NEW p \in Procs, NEW n, NEW w,
         proc' = [proc EXCEPT ![p] = w], Writes(n, [rows[n] EXCEPT !.status = "SENT"]),
         proc[p].at \in {"mark", "retried"}, proc[p].row = n,
         w.at \notin {"smtp", "mark", "retried"}, UNCHANGED <<todo, crashes>>
  PROVE  CopiesAccounted'
<1>1. TypeOK
  BY DEF Sound
<1>2. DOMAIN rows' = DOMAIN rows /\ n \in DOMAIN rows
      /\ rows'[n].copies = rows[n].copies /\ rows'[n].status = "SENT"
      /\ \A k \in DOMAIN rows : k # n => rows'[k] = rows[k]
  <2>1. rows[n] \in [status : {"PENDING", "SENT"}, copies : Nat]
    BY <1>1 DEF Writes, TypeOK
  <2>. QED
    BY <2>1, Written
<1>3. ASSUME NEW k \in DOMAIN rows PROVE Owed(k)' + crashes <= Owed(k) + crashes'
  <2>1. k[3] \in Procs /\ rows[k].copies \in Nat /\ crashes \in Nat /\ Retries(k) \in {0, 1}
        /\ Sending(k) \in {0, 1}
    BY <1>1, CountsTyped
  <2>2. Sending(k)' = IF k[3] = p THEN 0 ELSE Sending(k)
    BY <1>1, <2>1, Recount
  <2>3. InWorkersHands(k)' <=> (p # Worker /\ InWorkersHands(k))
    BY <1>1, <2>1, Recount
  <2>4. k # n => (InWorkersHands(k)' <=> InWorkersHands(k))
    BY <2>3 DEF InWorkersHands
  <2>5. Retries(k)' \in {0, 1} /\ Retries(k)' <= Retries(k)
    BY <1>2, <2>4 DEF Retries
  <2>6. rows'[k].copies = rows[k].copies
    BY <1>2
  <2>. QED
    BY <2>1, <2>2, <2>5, <2>6 DEF Owed
<1>. QED
  BY <1>1, <1>2, <1>3, NoMoreOwed

\* The worker's mail: what was owed by Retries has become a copy.
LEMMA RetriedAccounted ==
  ASSUME Sound, TypeOK', CopiesAccounted, NEW n \in todo, RetryMail(n)
  PROVE  CopiesAccounted'
<1>1. TypeOK /\ Worker \in Procs /\ proc[Worker] \in Work
  BY StateTyped, ProcsAssumption DEF Sound
<1>. DEFINE w == [proc[Worker] EXCEPT !.at = "retried", !.row = n]
<1>2. w.at = "retried" /\ w.row = n
  BY <1>1 DEF Work
<1>3. proc' = [proc EXCEPT ![Worker] = w] /\ proc[Worker].at = "retry"
  BY DEF RetryMail, At
<1>. HIDE DEF w
<1>4. todo' = todo \ {n} /\ crashes' = crashes
  BY DEF RetryMail
<1>5. DOMAIN rows' = DOMAIN rows /\ n \in DOMAIN rows
      /\ rows'[n].copies = rows[n].copies + 1 /\ rows'[n].status = rows[n].status
      /\ \A k \in DOMAIN rows : k # n => rows'[k] = rows[k]
  <2>1. rows[n] \in [status : {"PENDING", "SENT"}, copies : Nat]
    BY <1>1 DEF TypeOK
  <2>2. Writes(n, [rows[n] EXCEPT !.copies = @ + 1])
    BY MailRetried
  <2>. QED
    BY <2>1, <2>2, Written
<1>6. ASSUME NEW k \in DOMAIN rows PROVE Owed(k)' + crashes <= Owed(k) + crashes'
  <2>1. k[3] \in Procs /\ rows[k].copies \in Nat /\ crashes \in Nat /\ Retries(k) \in {0, 1}
        /\ Sending(k) \in {0, 1}
    BY <1>1, CountsTyped
  <2>2. Sending(k)' \in {0, 1} /\ Sending(k)' <= Sending(k)
    <3>1. Sending(k)' = IF k[3] = Worker THEN 0 ELSE Sending(k)
      BY <1>1, <1>2, <1>3, <2>1, Recount
    <3>. QED
      BY <2>1, <3>1
  <2>3. (InWorkersHands(k)' <=> k = n) /\ ~InWorkersHands(k)
    <3>1. InWorkersHands(k)' <=> k = n
      BY <1>1, <1>2, <1>3, <2>1, Recount
    <3>. QED
      BY <1>3, <3>1 DEF InWorkersHands
  <2>4. CASE k = n
    <3>1. Retries(k) = 1 /\ Retries(k)' = 0
      BY <1>4, <2>3, <2>4 DEF Retries
    <3>. QED
      BY <1>4, <1>5, <2>1, <2>2, <2>4, <3>1 DEF Owed
  <2>5. CASE k # n
    <3>1. Retries(k)' = Retries(k)
      BY <1>4, <1>5, <2>3, <2>5 DEF Retries
    <3>. QED
      BY <1>4, <1>5, <2>1, <2>2, <2>5, <3>1 DEF Owed
  <2>. QED
    BY <2>4, <2>5
<1>. QED
  BY <1>1, <1>5, <1>6, NoMoreOwed

\* The one more that may be owed after a crash is accounted for by it.
LEMMA CrashAccounted ==
  ASSUME Sound, TypeOK', CopiesAccounted, NEW p \in Procs, Crash(p)
  PROVE  CopiesAccounted'
<1>1. TypeOK
  BY DEF Sound
<1>2. ASSUME NEW k \in DOMAIN rows PROVE Owed(k)' + crashes <= Owed(k) + crashes'
  <2>1. k[3] \in Procs /\ rows[k].copies \in Nat /\ crashes \in Nat /\ Retries(k) \in {0, 1}
        /\ Sending(k) \in {0, 1}
    BY <1>1, CountsTyped
  <2>2. proc' = [proc EXCEPT ![p] = Idle] /\ rows' = rows /\ crashes' = crashes + 1
    BY DEF Crash, Finishes
  <2>3. Sending(k)' \in {0, 1} /\ Sending(k)' <= Sending(k)
    <3>1. Sending(k)' = IF k[3] = p THEN 0 ELSE Sending(k)
      BY <1>1, <2>1, <2>2, Recount, IdleIsWork
    <3>. QED
      BY <2>1, <3>1
  <2>4. Retries(k)' \in {0, 1}
    BY DEF Retries
  <2>. QED
    BY <2>1, <2>2, <2>3, <2>4 DEF Owed
<1>3. UNCHANGED rows
  BY DEF Crash
<1>. QED
  BY <1>1, <1>2, <1>3, NoMoreOwed

\* Every step accounts for the copies it mails.
LEMMA CopiesStay ==
  ASSUME Sound, TypeOK', CopiesAccounted, [Next]_vars
  PROVE  CopiesAccounted'
<1>1. TypeOK /\ \A p \in Procs : proc[p] \in Work
  BY StateTyped DEF Sound
<1>. DEFINE Mailing == {"smtp", "mark", "retried"}
<1>2. ASSUME NEW p \in Procs, NEW place \in Places \ Mailing, Goes(p, place),
             proc[p].at \notin Mailing, UNCHANGED <<rows, crashes>>,
             todo' = todo \/ (p = Worker /\ \A k \in todo' : rows[k].status = "PENDING")
      PROVE  CopiesAccounted'
  <2>. DEFINE w == [proc[p] EXCEPT !.at = place]
  <2>1. w.at = place
    BY <1>1, Placed
  <2>2. proc' = [proc EXCEPT ![p] = w]
    BY <1>2 DEF Goes
  <2>. HIDE DEF w
  <2>. QED
    BY <1>1, <1>2, <2>1, <2>2, QuietMove
<1>3. ASSUME NEW p \in Procs, NEW r \in Results, Measure(p, r) PROVE CopiesAccounted'
  <2>. DEFINE w == [proc[p] EXCEPT !.at = "measured", !.result = r]
  <2>1. w.at = "measured"
    BY <1>1 DEF Work
  <2>2. proc' = [proc EXCEPT ![p] = w] /\ proc[p].at = "idle" /\ UNCHANGED <<rows, crashes, todo>>
    BY <1>3 DEF Measure, At
  <2>. HIDE DEF w
  <2>. QED
    BY <1>1, <2>1, <2>2, QuietMove
<1>4. ASSUME NEW p \in Procs, FindNothingToDo(p) \/ SkipMail(p) \/ FlagIncident(p)
      PROVE  CopiesAccounted'
  <2>1. /\ proc' = [proc EXCEPT ![p] = Idle] /\ proc[p].at \notin Mailing
        /\ UNCHANGED <<rows, crashes, todo>>
    BY <1>4 DEF FindNothingToDo, SkipMail, FlagIncident, At, Finishes
  <2>. QED
    BY <1>1, <2>1, IdleIsWork, QuietMove
<1>5. ASSUME NEW p \in Procs, FindOutage(p) PROVE CopiesAccounted'
  BY <1>2, <1>5 DEF FindOutage, At, Places
<1>6. ASSUME NEW p \in Procs, PassGuard(p) PROVE CopiesAccounted'
  BY <1>2, <1>6 DEF PassGuard, At, Places
<1>7. ASSUME NEW p \in Procs, ResolveIncident(p) PROVE CopiesAccounted'
  BY <1>2, <1>7 DEF ResolveIncident, At, Places
<1>8. ASSUME StartRetry PROVE CopiesAccounted'
  BY <1>2, <1>8, ProcsAssumption DEF StartRetry, At, Places, Pending
<1>9. ASSUME NEW p \in Procs, FindRecovery(p) \/ TakeOver(p) \/ InsertIncident(p)
      PROVE  CopiesAccounted'
  <2>1. proc[p].at \notin Mailing /\ UNCHANGED <<rows, crashes, todo>>
    BY <1>9 DEF FindRecovery, TakeOver, InsertIncident, At
  <2>2. ASSUME NEW place \in {"resolve", "announce"}, NEW i,
               proc' = [proc EXCEPT ![p].at = place, ![p].inc = i]
        PROVE  CopiesAccounted'
    <3>. DEFINE w == [proc[p] EXCEPT !.at = place, !.inc = i]
    <3>1. w.at = place
      BY <1>1 DEF Work
    <3>2. proc' = [proc EXCEPT ![p] = w]
      BY <2>2
    <3>. HIDE DEF w
    <3>. QED
      BY <1>1, <2>1, <3>1, <3>2, QuietMove
  <2>3. CASE FindRecovery(p)
    <3>1. PICK i \in OpenIncidents : proc' = [proc EXCEPT ![p].at = "resolve", ![p].inc = i]
      BY <2>3 DEF FindRecovery
    <3>. QED
      BY <2>2, <3>1
  <2>4. CASE TakeOver(p)
    <3>1. PICK i \in OpenIncidents : proc' = [proc EXCEPT ![p].at = "announce", ![p].inc = i]
      BY <2>4 DEF TakeOver
    <3>. QED
      BY <2>2, <3>1
  <2>5. CASE InsertIncident(p)
    <3>1. proc' = [proc EXCEPT ![p].at = "announce", ![p].inc = Len(incident')]
      BY <2>5 DEF InsertIncident
    <3>. QED
      BY <2>2, <3>1
  <2>. QED
    BY <1>9, <2>3, <2>4, <2>5
<1>10. ASSUME NEW p \in Procs, MarkSent(p) PROVE CopiesAccounted'
  <2>. DEFINE w == [proc[p] EXCEPT !.at = "flag"]
  <2>1. w.at = "flag"
    BY <1>1, Placed DEF Places
  <2>2. proc' = [proc EXCEPT ![p] = w] /\ proc[p].at = "mark" /\ UNCHANGED <<todo, crashes>>
        /\ Writes(proc[p].row, [rows[proc[p].row] EXCEPT !.status = "SENT"])
    BY <1>10, MailMarked DEF MarkSent
  <2>. HIDE DEF w
  <2>. QED
    BY <2>1, <2>2, MarkedAccounted
<1>11. ASSUME RetryMarkSent PROVE CopiesAccounted'
  <2>. DEFINE w == [proc[Worker] EXCEPT !.at = "retry", !.row = <<>>]
  <2>1. w.at = "retry"
    BY <1>1, ProcsAssumption DEF Work
  <2>2. /\ proc[Worker].at = "retried" /\ UNCHANGED <<todo, crashes>>
        /\ Writes(proc[Worker].row, [rows[proc[Worker].row] EXCEPT !.status = "SENT"])
    BY <1>11, RetryMarked DEF RetryMarkSent
  <2>3. proc' = [proc EXCEPT ![Worker] = Idle] \/ proc' = [proc EXCEPT ![Worker] = w]
    BY <1>11 DEF RetryMarkSent, Finishes
  <2>. HIDE DEF w
  <2>. QED
    BY <2>1, <2>2, <2>3, IdleIsWork, ProcsAssumption, MarkedAccounted
<1>12. CASE UNCHANGED vars
  BY <1>12 DEF vars, CopiesAccounted, Owed, Sending, Retries, InWorkersHands
<1>. QED
  BY <1>3, <1>4, <1>5, <1>6, <1>7, <1>8, <1>9, <1>10, <1>11, <1>12, CreatedAccounted,
     MailedAccounted, RetriedAccounted, CrashAccounted DEF Next, Proceed, ContinueRetry

\* The owner gets a notification at most once from its writer, once from the
\* worker and once more for each crash, whatever the processes and their
\* interleaving: a retry under way, a mail of the writer's still to come and
\* a row pending after a crash are all accounted for before they happen.
\* (notification_service 146-205, 435-472)
THEOREM CopiesLimited == Spec => []CopiesBounded
<1>1. Init => Sound /\ Room /\ CopiesAccounted
  BY InitSound DEF Init, CopiesAccounted
<1>2. Sound /\ Room /\ CopiesAccounted /\ [Next]_vars => Sound' /\ Room' /\ CopiesAccounted'
  <2>1. Sound' => TypeOK'
    BY DEF Sound
  <2>. QED
    BY <2>1, SoundStays, RoomStays, CopiesStay
<1>3. Sound /\ CopiesAccounted => CopiesBounded
  <2>. SUFFICES ASSUME Sound, CopiesAccounted, NEW k \in DOMAIN rows
       PROVE  rows[k].copies <= Cardinality({k[3], Worker}) + crashes
    BY DEF CopiesBounded
  <2>1. Owed(k) <= Cardinality({k[3], Worker}) + crashes
    BY DEF CopiesAccounted
  <2>2. /\ rows[k].copies \in Nat /\ crashes \in Nat /\ Sending(k) \in {0, 1}
        /\ Retries(k) \in {0, 1} /\ Cardinality({k[3], Worker}) \in Nat
    BY CountsTyped, PairCounts DEF Sound
  <2>. QED
    BY <2>1, <2>2 DEF Owed
<1>. QED
  BY <1>1, <1>2, <1>3, PTL DEF Spec
=============================================================================
