--------------------- MODULE NotificationDelivery_proofs ---------------------
(***************************************************************************)
(* What the safety runs of NotificationDelivery check of one server's      *)
(* incident, for any incidents, routes, number of retries, length of the   *)
(* notifications table and number of threads that stop: what a quiet day,  *)
(* a mute and the switch hold back, when a mail can go out twice, and      *)
(* that nobody is escalated to who was never told. And what it checks of   *)
(* the policy that says who is mailed, for every setting and every minute. *)
(***************************************************************************)
EXTENDS AlertPolicy, NotificationDelivery, SequenceTheorems, TLAPS

-----------------------------------------------------------------------------
(* The table, the mails and the columns, as the steps change them.         *)

\* The facts about types that the steps below use.
LEMMA Typed ==
  ASSUME TypeOK
  PROVE  /\ Len(rows) \in Nat /\ MaxRows \in Nat /\ Len(rows) <= MaxRows
         /\ RowIds = 1 .. Len(rows) /\ RowIds \subseteq 1 .. MaxRows
         /\ \A k \in RowIds : rows[k] \in Row
         /\ drafts \subseteq RowIds /\ retrying \subseteq RowIds
         /\ alertsOn \in BOOLEAN /\ quiet \in BOOLEAN
<1>1. Len(rows) \in Nat /\ MaxRows \in Nat /\ Len(rows) <= MaxRows
  BY LenProperties, BoundsAssumption DEF TypeOK
<1>2. \A k \in RowIds : rows[k] \in Row
  BY ElementOfSeq DEF TypeOK, RowIds
<1>. QED
  BY <1>1, <1>2 DEF TypeOK, RowIds

\* Rows change, and keep whom and what they are about.
Kept ==
  /\ rows' \in Seq(Row) /\ Len(rows') = Len(rows)
  /\ \A k \in RowIds : rows'[k].inc = rows[k].inc /\ rows'[k].type = rows[k].type

\* A row is added behind the others.
Grown(i, type) ==
  /\ rows' \in Seq(Row) /\ Len(rows') = Len(rows) + 1 /\ Len(rows') <= MaxRows
  /\ \A k \in RowIds : rows'[k] = rows[k]
  /\ rows'[Len(rows) + 1] = [inc |-> i, type |-> type, status |-> "PENDING", tries |-> 0]
  /\ drafts' = drafts \cup {Len(rows) + 1}

LEMMA WritesGrow ==
  ASSUME TypeOK, NEW i \in Incidents, NEW type \in Types, Writes(i, type)
  PROVE  Grown(i, type)
<1>. DEFINE row == [inc |-> i, type |-> type, status |-> "PENDING", tries |-> 0]
<1>1. row \in Row
  BY DEF Row, Statuses
<1>2. rows' = Append(rows, row) /\ drafts' = drafts \cup {Len(rows) + 1} /\ Len(rows) < MaxRows
  BY DEF Writes, HasRoom
<1>. HIDE DEF row
<1>3. /\ rows' \in Seq(Row) /\ Len(rows') = Len(rows) + 1
      /\ \A k \in RowIds : rows'[k] = rows[k]
      /\ rows'[Len(rows) + 1] = row
  BY <1>1, <1>2, AppendProperties DEF TypeOK, RowIds
<1>. QED
  BY <1>2, <1>3, Typed DEF Grown, row

LEMMA PutKeeps ==
  ASSUME TypeOK, NEW k \in RowIds, NEW status \in Statuses, NEW tries \in Nat,
         Put(k, status, tries)
  PROVE  /\ Kept /\ rows'[k].status = status
         /\ \A j \in RowIds \ {k} : rows'[j] = rows[j]
<1>. DEFINE row == [rows[k] EXCEPT !.status = status, !.tries = tries]
<1>1. rows[k] \in Row
  BY Typed
<1>2. row \in Row /\ row.inc = rows[k].inc /\ row.type = rows[k].type /\ row.status = status
  BY <1>1 DEF Row
<1>3. rows' = [rows EXCEPT ![k] = row]
  BY DEF Put
<1>. HIDE DEF row
<1>4. /\ rows' \in Seq(Row) /\ Len(rows') = Len(rows)
      /\ \A j \in RowIds : rows'[j] = IF j = k THEN row ELSE rows[j]
  BY <1>2, <1>3, ExceptSeq DEF TypeOK, RowIds
<1>. QED
  BY <1>2, <1>4 DEF Kept

\* A function on the first numbers is a sequence of that length.
LEMMA RowsAreSeq ==
  ASSUME NEW S, NEW n \in Nat, NEW f \in [1 .. n -> S]
  PROVE  f \in Seq(S) /\ Len(f) = n
<1>1. f \in Seq(S)
  BY SeqDef
<1>2. Len(f) \in Nat /\ 1 .. Len(f) = 1 .. n
  BY <1>1, LenProperties
<1>. QED
  BY <1>1, <1>2

\* Some rows are marked at once, by the discard or the digest.
LEMMA MarkKeeps ==
  ASSUME TypeOK, NEW ks, NEW status \in Statuses,
         rows' = [k \in RowIds |->
           IF k \in ks THEN [rows[k] EXCEPT !.status = status] ELSE rows[k]]
  PROVE  /\ Kept
         /\ \A k \in RowIds : /\ k \in ks => rows'[k].status = status
                              /\ k \notin ks => rows'[k] = rows[k]
<1>1. ASSUME NEW row \in Row
      PROVE  LET new == [row EXCEPT !.status = status]
             IN  new \in Row /\ new.inc = row.inc /\ new.type = row.type /\ new.status = status
  BY DEF Row
<1>2. \A k \in RowIds : rows[k] \in Row
  BY Typed
<1>3. \A k \in RowIds : rows'[k] \in Row
  BY <1>1, <1>2
<1>4. rows' \in [1 .. Len(rows) -> Row] /\ Len(rows) \in Nat
  BY <1>3, Typed
<1>5. rows' \in Seq(Row) /\ Len(rows') = Len(rows)
  BY <1>4, RowsAreSeq
<1>. QED
  BY <1>1, <1>2, <1>5 DEF Kept

\* Mail that goes out is counted, for rows among ks.
Counted(ks) ==
  /\ mails' \in [1 .. MaxRows -> Nat]
  /\ \A k \in 1 .. MaxRows : mails[k] <= mails'[k] /\ (mails'[k] # mails[k] => k \in ks)
  /\ loose \subseteq loose' /\ loose' \subseteq 1 .. MaxRows
  /\ faults' \in Nat

LEMMA MailedCounts ==
  ASSUME TypeOK, NEW ks, Mailed(ks), UNCHANGED <<loose, faults>>
  PROVE  Counted(ks) /\ \A k \in ks \cap (1 .. MaxRows) : mails[k] < mails'[k]
BY DEF TypeOK, Mailed, Counted

LEMMA SilentCounts == ASSUME TypeOK, NEW ks, Silent PROVE Counted(ks)
BY DEF TypeOK, Silent, Counted

\* What goes out without a record is loose.
LEMMA StopsCount ==
  ASSUME TypeOK, NEW ks \in SUBSET (1 .. MaxRows), Stops(ks)
  PROVE  Counted(ks) /\ \A k \in 1 .. MaxRows : mails'[k] # mails[k] => k \in loose'
<1>1. mails \in [1 .. MaxRows -> Nat] /\ loose \subseteq 1 .. MaxRows /\ faults \in Nat
  BY DEF TypeOK
<1>2. faults' \in Nat
  BY <1>1 DEF Stops
<1>3. CASE UNCHANGED <<mails, loose>>
  BY <1>1, <1>2, <1>3 DEF Counted
<1>4. CASE Mailed(ks) /\ loose' = loose \cup ks
  BY <1>1, <1>2, <1>4 DEF Counted, Mailed
<1>. QED
  BY <1>3, <1>4 DEF Stops

LEMMA RefusesCount ==
  ASSUME TypeOK, NEW ks \in SUBSET (1 .. MaxRows), Refuses(ks)
  PROVE  Counted(ks) /\ \A k \in 1 .. MaxRows : mails'[k] # mails[k] => k \in loose'
BY SilentCounts, StopsCount DEF Refuses, Silent

\* One incident gets new columns.
LEMMA ColumnsChange ==
  ASSUME TypeOK, NEW i \in Incidents, NEW c \in IncidentColumns, inc' = [inc EXCEPT ![i] = c]
  PROVE  /\ inc' \in [Incidents -> IncidentColumns]
         /\ inc'[i] = c /\ \A j \in Incidents \ {i} : inc'[j] = inc[j]
BY DEF TypeOK

-----------------------------------------------------------------------------
(* What a step does.                                                       *)

\* The incident is notified if a DOWN row of it reads SENT after the step.
Flags ==
  /\ inc' \in [Incidents -> IncidentColumns]
  /\ \A i \in Incidents :
       /\ inc[i].notified => inc'[i].notified
       /\ inc'[i].notified =>
            \/ inc[i].notified
            \/ \E j \in RowIds : /\ rows[j].inc = i /\ rows[j].type = "DOWN"
                                 /\ rows'[j].status = "SENT"

\* The escalations' part in a step: none, or one of their own steps.
Escalates ==
  \/ /\ UNCHANGED <<candidates, escalating, cut>>
     /\ \A i \in Incidents : inc'[i].escalated = inc[i].escalated
     /\ Kept \/ \E i \in Incidents, type \in Types \ {"ESCALATION"} : Grown(i, type)
  \/ StartEscalations \/ WorkerStops
  \/ \E i \in Incidents : EscalateNext(i) \/ StampEscalation(i)

Effects ==
  /\ TypeOK'
  /\ Kept \/ \E i \in Incidents, type \in Types :
               Grown(i, type) /\ (type = "ESCALATION" => i \in candidates)
  /\ \A k \in 1 .. MaxRows : mails[k] <= mails'[k]
  /\ \A k \in RowIds : rows'[k].status = "SENT" => rows[k].status = "SENT" \/ mails[k] < mails'[k]
  /\ Flags
  /\ \A i \in candidates' : i \in candidates \/ inc[i].notified
  /\ Escalates

\* A step that changes the columns alone, but not who was told or escalated.
LEMMA ColumnsEffects ==
  ASSUME TypeOK, NEW i \in Incidents, NEW c \in IncidentColumns, inc' = [inc EXCEPT ![i] = c],
         c.notified = inc[i].notified, c.escalated = inc[i].escalated,
         UNCHANGED <<rows, drafts, worker, history, settings>>
  PROVE  Effects
<1>1. /\ inc' \in [Incidents -> IncidentColumns]
      /\ inc'[i] = c /\ \A j \in Incidents \ {i} : inc'[j] = inc[j]
  BY ColumnsChange
<1>2. UNCHANGED <<rows, drafts, retrying, candidates, escalating, mails, loose, cut, faults,
                  owned, muted, alertsOn, quiet, digestDue, smtpUp>>
  BY DEF worker, history, settings
<1>3. TypeOK'
  BY <1>1, <1>2 DEF TypeOK
<1>4. Kept
  BY <1>2 DEF Kept, TypeOK
<1>5. Flags
  BY <1>1 DEF Flags
<1>6. Escalates
  BY <1>1, <1>2, <1>4 DEF Escalates
<1>7. \A k \in 1 .. MaxRows : mails[k] <= mails'[k]
  BY <1>2 DEF TypeOK
<1>. QED
  BY <1>2, <1>3, <1>4, <1>5, <1>6, <1>7 DEF Effects

\* A step that adds a row, of another type than an escalation.
LEMMA GrownEffects ==
  ASSUME TypeOK, NEW i \in Incidents, NEW type \in Types \ {"ESCALATION"}, Grown(i, type),
         NEW c \in IncidentColumns, inc' = [inc EXCEPT ![i] = c],
         c.notified = inc[i].notified, c.escalated = inc[i].escalated,
         UNCHANGED <<worker, history, settings>>
  PROVE  Effects
<1>1. /\ inc' \in [Incidents -> IncidentColumns]
      /\ inc'[i] = c /\ \A j \in Incidents \ {i} : inc'[j] = inc[j]
  BY ColumnsChange
<1>2. UNCHANGED <<retrying, candidates, escalating, mails, loose, cut, faults,
                  owned, muted, alertsOn, quiet, digestDue, smtpUp>>
  BY DEF worker, history, settings
<1>3. Len(rows) \in Nat /\ Len(rows') = Len(rows) + 1
  BY Typed DEF Grown
<1>4. drafts' \subseteq 1 .. Len(rows') /\ retrying' \subseteq 1 .. Len(rows')
  <2>1. drafts \subseteq 1 .. Len(rows) /\ retrying \subseteq 1 .. Len(rows)
    BY DEF TypeOK
  <2>2. drafts' = drafts \cup {Len(rows) + 1} /\ retrying' = retrying
    BY <1>2 DEF Grown
  <2>3. 1 .. Len(rows') = (1 .. Len(rows)) \cup {Len(rows) + 1}
    BY <1>3
  <2>. QED
    BY <2>1, <2>2, <2>3
<1>5. TypeOK'
  BY <1>1, <1>2, <1>4 DEF TypeOK, Grown
<1>6. Flags
  BY <1>1 DEF Flags
<1>7. Escalates
  BY <1>1, <1>2 DEF Escalates
<1>8. \A k \in 1 .. MaxRows : mails[k] <= mails'[k]
  BY <1>2 DEF TypeOK
<1>. QED
  BY <1>2, <1>5, <1>6, <1>7, <1>8 DEF Effects, Grown

\* A step that changes rows and counts mail, and leaves the rest to the worker
\* or to the writer of a row.
LEMMA KeptEffects ==
  ASSUME TypeOK, Kept, NEW ks, Counted(ks),
         \A k \in RowIds : rows'[k].status = "SENT" => rows[k].status = "SENT" \/ mails[k] < mails'[k],
         Flags, Escalates, \A i \in candidates' : i \in candidates \/ inc[i].notified,
         candidates' \subseteq Incidents, escalating' \subseteq Incidents, cut' \subseteq Incidents,
         drafts' \subseteq RowIds, retrying' \subseteq RowIds,
         UNCHANGED <<owned, muted, alertsOn, quiet, smtpUp>>, digestDue' \in BOOLEAN
  PROVE  Effects
<1>1. Len(rows') = Len(rows) /\ rows' \in Seq(Row)
  BY DEF Kept
<1>2. TypeOK'
  BY <1>1 DEF TypeOK, RowIds, Counted, Flags
<1>. QED
  BY <1>2 DEF Effects, Counted

\* What a delivered row does to its incident.
LEMMA FlaggedFlags ==
  ASSUME TypeOK, NEW k \in RowIds, rows'[k].status = "SENT", inc' = Flagged(k)
  PROVE  Flags /\ \A i \in Incidents : inc'[i].escalated = inc[i].escalated
<1>. DEFINE i == rows[k].inc
            c == [inc[i] EXCEPT !.notified = inc[i].notified \/ rows[k].type = "DOWN",
                                !.recovered = inc[i].recovered \/ rows[k].type = "RECOVERY"]
<1>1. i \in Incidents /\ inc[i] \in IncidentColumns
  BY Typed DEF TypeOK, Row
<1>2. /\ c \in IncidentColumns /\ c.escalated = inc[i].escalated
      /\ c.notified <=> inc[i].notified \/ rows[k].type = "DOWN"
  BY <1>1 DEF IncidentColumns
<1>3. inc' = [inc EXCEPT ![i] = c]
  BY DEF Flagged
<1>. HIDE DEF c
<1>4. /\ inc' \in [Incidents -> IncidentColumns]
      /\ inc'[i] = c /\ \A j \in Incidents \ {i} : inc'[j] = inc[j]
  BY <1>1, <1>2, <1>3, ColumnsChange
<1>. QED
  BY <1>2, <1>4 DEF Flags

LEMMA SameFlags ==
  ASSUME TypeOK, UNCHANGED inc
  PROVE  Flags /\ \A i \in Incidents : inc'[i].escalated = inc[i].escalated
BY DEF TypeOK, Flags

LEMMA VerdictIs ==
  ASSUME NEW k \in RowIds, NEW verdict \in Verdict(k)
  PROVE  /\ verdict \in {"HELD", "SUPPRESSED", "DIGEST", "SEND"}
         /\ verdict = "SEND" => alertsOn /\ ~quiet /\ rows[k].inc \notin muted
<1>1. RoutesFor(rows[k].type) \subseteq {"EMAIL", "DIGEST", "NONE"}
  BY RoutesAssumption DEF RoutesFor
<1>2. CASE ~alertsOn
  BY <1>2 DEF Verdict
<1>3. CASE alertsOn /\ quiet
  BY <1>3 DEF Verdict
<1>4. CASE alertsOn /\ ~quiet
  <2>1. PICK route \in RoutesFor(rows[k].type) :
          verdict = CASE route = "NONE"   -> "SUPPRESSED"
                      [] route = "DIGEST" -> "DIGEST"
                      [] route = "EMAIL"  -> IF rows[k].inc \in muted THEN "SUPPRESSED" ELSE "SEND"
    BY <1>4 DEF Verdict
  <2>2. route = "NONE" \/ route = "DIGEST" \/ route = "EMAIL"
    BY <1>1
  <2>. QED
    BY <1>4, <2>1, <2>2
<1>. QED
  BY <1>2, <1>3, <1>4

\* An attempt settles its own row, counts its own mail, and mails nothing that
\* is held back.
LEMMA DecidesIs ==
  ASSUME TypeOK, NEW k \in RowIds, Decides(k)
  PROVE  /\ Kept /\ Counted({k})
         /\ \A j \in RowIds \ {k} : rows'[j] = rows[j]
         /\ rows'[k].status = "SENT" => rows[k].status = "SENT" \/ mails[k] < mails'[k]
         /\ mails'[k] # mails[k] => alertsOn /\ ~quiet /\ rows[k].inc \notin muted
<1>1. rows[k] \in Row /\ k \in 1 .. MaxRows /\ rows[k].tries \in Nat /\ mails \in [1 .. MaxRows -> Nat]
  BY Typed DEF Row, TypeOK
<1>2. PICK verdict \in Verdict(k) :
        \/ verdict = "HELD" /\ UNCHANGED rows /\ Silent
        \/ verdict \in {"SUPPRESSED", "DIGEST"} /\ Put(k, verdict, rows[k].tries) /\ Silent
        \/ /\ verdict = "SEND"
           /\ Put(k, "SENT", rows[k].tries) /\ Mailed({k})
           /\ UNCHANGED <<loose, faults>>
        \/ /\ verdict = "SEND"
           /\ \E tries \in 1 .. rows[k].tries + 1 : Put(k, "FAILED", tries)
           /\ Refuses({k})
  BY DEF Decides
<1>3. CASE verdict = "HELD" /\ UNCHANGED rows /\ Silent
  <2>1. Kept /\ Counted({k})
    BY <1>3, SilentCounts DEF Kept, TypeOK
  <2>. QED
    BY <1>3, <2>1 DEF Silent
<1>4. CASE verdict \in {"SUPPRESSED", "DIGEST"} /\ Put(k, verdict, rows[k].tries) /\ Silent
  <2>1. verdict \in Statuses /\ Counted({k}) /\ UNCHANGED mails
    BY <1>4, SilentCounts DEF Statuses, Silent
  <2>2. Kept /\ rows'[k].status = verdict /\ \A j \in RowIds \ {k} : rows'[j] = rows[j]
    BY <1>1, <1>4, <2>1, PutKeeps
  <2>. QED
    BY <1>4, <2>1, <2>2
<1>5. CASE verdict = "SEND" /\ Put(k, "SENT", rows[k].tries) /\ Mailed({k})
             /\ UNCHANGED <<loose, faults>>
  <2>1. "SENT" \in Statuses /\ Counted({k}) /\ mails[k] < mails'[k]
    BY <1>1, <1>5, MailedCounts DEF Statuses
  <2>2. Kept /\ \A j \in RowIds \ {k} : rows'[j] = rows[j]
    BY <1>1, <1>5, <2>1, PutKeeps
  <2>. QED
    BY <1>5, <2>1, <2>2, VerdictIs
<1>6. ASSUME verdict = "SEND", NEW tries \in 1 .. rows[k].tries + 1, Put(k, "FAILED", tries),
             Refuses({k})
      PROVE  /\ Kept /\ Counted({k})
             /\ \A j \in RowIds \ {k} : rows'[j] = rows[j]
             /\ rows'[k].status = "SENT" => rows[k].status = "SENT" \/ mails[k] < mails'[k]
             /\ mails'[k] # mails[k] => alertsOn /\ ~quiet /\ rows[k].inc \notin muted
  <2>1. "FAILED" \in Statuses /\ tries \in Nat /\ Counted({k})
    BY <1>1, <1>6, RefusesCount DEF Statuses
  <2>2. Kept /\ rows'[k].status = "FAILED" /\ \A j \in RowIds \ {k} : rows'[j] = rows[j]
    BY <1>6, <2>1, PutKeeps
  <2>. QED
    BY <1>6, <2>1, <2>2, VerdictIs
<1>. QED
  BY <1>2, <1>3, <1>4, <1>5, <1>6

LEMMA AttemptEffects == ASSUME TypeOK, NEW k \in RowIds, Attempt(k) PROVE Effects
<1>1. /\ Kept /\ Counted({k})
      /\ \A j \in RowIds \ {k} : rows'[j] = rows[j]
      /\ rows'[k].status = "SENT" => rows[k].status = "SENT" \/ mails[k] < mails'[k]
  BY DecidesIs DEF Attempt
<1>2. Flags /\ \A i \in Incidents : inc'[i].escalated = inc[i].escalated
  BY FlaggedFlags, SameFlags DEF Attempt
<1>3. UNCHANGED <<retrying, candidates, escalating, cut, owned, muted, alertsOn, quiet,
                  digestDue, smtpUp>>
  BY DEF Attempt, worker, settings
<1>4. Escalates
  BY <1>1, <1>2, <1>3 DEF Escalates
<1>5. drafts' \subseteq RowIds /\ retrying' \subseteq RowIds
  BY <1>3, Typed DEF Attempt
<1>6. candidates' \subseteq Incidents /\ escalating' \subseteq Incidents /\ cut' \subseteq Incidents
      /\ digestDue' \in BOOLEAN
  BY <1>3 DEF TypeOK
<1>7. \A j \in RowIds : rows'[j].status = "SENT" => rows[j].status = "SENT" \/ mails[j] < mails'[j]
  BY <1>1
<1>. QED
  BY <1>1, <1>2, <1>3, <1>4, <1>5, <1>6, <1>7, KeptEffects

\* The retry of one row counts its own mail and changes nothing else's row.
LEMMA RetryIs ==
  ASSUME TypeOK, NEW k \in RowIds, RetryRow(k)
  PROVE  /\ Kept /\ Counted({k})
         /\ \A j \in RowIds \ {k} : rows'[j] = rows[j]
         /\ rows'[k].status = "SENT" => rows[k].status = "SENT" \/ mails[k] < mails'[k]
         /\ Flags /\ \A i \in Incidents : inc'[i].escalated = inc[i].escalated
<1>1. rows[k] \in Row /\ k \in 1 .. MaxRows /\ rows[k].tries \in Nat /\ rows[k].status \in Statuses
  BY Typed DEF Row
<1>2. CASE Put(k, "SENT", rows[k].tries) /\ Mailed({k}) /\ inc' = Flagged(k)
             /\ UNCHANGED <<loose, faults>>
  <2>1. "SENT" \in Statuses /\ Counted({k}) /\ mails[k] < mails'[k]
    BY <1>1, <1>2, MailedCounts DEF Statuses
  <2>2. Kept /\ rows'[k].status = "SENT" /\ \A j \in RowIds \ {k} : rows'[j] = rows[j]
    BY <1>1, <1>2, <2>1, PutKeeps
  <2>. QED
    BY <1>2, <2>1, <2>2, FlaggedFlags
<1>3. CASE Put(k, rows[k].status, rows[k].tries + 1) /\ Refuses({k}) /\ UNCHANGED inc
  <2>1. rows[k].tries + 1 \in Nat /\ Counted({k})
    BY <1>1, <1>3, RefusesCount
  <2>2. Kept /\ rows'[k].status = rows[k].status /\ \A j \in RowIds \ {k} : rows'[j] = rows[j]
    BY <1>1, <1>3, <2>1, PutKeeps
  <2>. QED
    BY <1>3, <2>1, <2>2, SameFlags
<1>. QED
  BY <1>2, <1>3 DEF RetryRow

LEMMA RetryEffects == ASSUME TypeOK, NEW k \in RowIds, RetryRow(k) PROVE Effects
<1>1. /\ Kept /\ Counted({k})
      /\ \A j \in RowIds : rows'[j].status = "SENT" => rows[j].status = "SENT" \/ mails[j] < mails'[j]
      /\ Flags /\ \A i \in Incidents : inc'[i].escalated = inc[i].escalated
  BY RetryIs
<1>2. UNCHANGED <<drafts, candidates, escalating, cut, owned, muted, alertsOn, quiet,
                  digestDue, smtpUp>> /\ retrying' \subseteq retrying
  BY DEF RetryRow, settings
<1>3. Escalates
  BY <1>1, <1>2 DEF Escalates
<1>4. drafts' \subseteq RowIds /\ retrying' \subseteq RowIds
  BY <1>2, Typed
<1>5. candidates' \subseteq Incidents /\ escalating' \subseteq Incidents /\ cut' \subseteq Incidents
      /\ digestDue' \in BOOLEAN
  BY <1>2 DEF TypeOK
<1>. QED
  BY <1>1, <1>2, <1>3, <1>4, <1>5, KeptEffects

\* A step that leaves the rows and the incidents, and counts mail.
LEMMA RowsStayEffects ==
  ASSUME TypeOK, UNCHANGED <<inc, rows>>, NEW ks, Counted(ks), Escalates,
         \A i \in candidates' : i \in candidates \/ inc[i].notified,
         candidates' \subseteq Incidents, escalating' \subseteq Incidents, cut' \subseteq Incidents,
         drafts' \subseteq RowIds, retrying' \subseteq RowIds,
         UNCHANGED <<owned, muted, alertsOn, quiet, smtpUp>>, digestDue' \in BOOLEAN
  PROVE  Effects
<1>1. Kept /\ \A k \in RowIds : rows'[k].status = "SENT" => rows[k].status = "SENT"
  BY DEF Kept, TypeOK
<1>2. Flags
  BY SameFlags
<1>. QED
  BY <1>1, <1>2, KeptEffects

\* The worker's retry: discarding, and reading its list.
LEMMA RetryQueueEffects == ASSUME TypeOK, RetryFailedNotifications PROVE Effects
<1>1. /\ UNCHANGED <<inc, drafts, candidates, escalating, mails, cut, faults, owned, muted,
                     alertsOn, quiet, digestDue, smtpUp>>
      /\ \A i \in Incidents : inc'[i].escalated = inc[i].escalated
      /\ drafts \subseteq RowIds /\ retrying \subseteq RowIds /\ RowIds \subseteq 1 .. MaxRows
  BY Typed DEF RetryFailedNotifications, DiscardQueued, StartRetry, worker, settings
<1>2. candidates' \subseteq Incidents /\ escalating' \subseteq Incidents /\ cut' \subseteq Incidents
      /\ digestDue' \in BOOLEAN
  BY <1>1 DEF TypeOK
<1>3. /\ retrying' \subseteq RowIds
      /\ loose \subseteq loose' /\ loose' \subseteq 1 .. MaxRows
  BY <1>1 DEF RetryFailedNotifications, DiscardQueued, StartRetry, worker, Retryable, TypeOK
<1>4. Counted({})
  BY <1>1, <1>3 DEF Counted, TypeOK
<1>5. CASE DiscardQueued
  <2>. DEFINE queued == {k \in RowIds : rows[k].status \in Queued}
  <2>1. rows' = [k \in RowIds |->
          IF k \in queued THEN [rows[k] EXCEPT !.status = "SUPPRESSED"] ELSE rows[k]]
    BY <1>5 DEF DiscardQueued
  <2>2. "SUPPRESSED" \in Statuses
    BY DEF Statuses
  <2>. HIDE DEF queued
  <2>3. /\ Kept
        /\ \A k \in RowIds : /\ k \in queued => rows'[k].status = "SUPPRESSED"
                             /\ k \notin queued => rows'[k] = rows[k]
    BY <2>1, <2>2, MarkKeeps
  <2>4. Flags
    BY <1>1, SameFlags
  <2>5. Escalates
    BY <1>1, <2>3 DEF Escalates
  <2>6. \A k \in RowIds : rows'[k].status = "SENT" => rows[k].status = "SENT"
    BY <2>3
  <2>. QED
    BY <1>1, <1>2, <1>3, <1>4, <2>3, <2>4, <2>5, <2>6, KeptEffects
<1>6. CASE StartRetry
  <2>1. UNCHANGED <<inc, rows>>
    BY <1>6 DEF StartRetry
  <2>2. Kept
    BY <2>1 DEF Kept, TypeOK
  <2>3. Escalates
    BY <1>1, <2>2 DEF Escalates
  <2>. QED
    BY <1>1, <1>2, <1>3, <1>4, <2>1, <2>3, RowsStayEffects
<1>. QED
  BY <1>5, <1>6 DEF RetryFailedNotifications

\* The digest marks its rows when its mail is out, or leaves them.
LEMMA DigestIs ==
  ASSUME TypeOK, SendDailyDigest
  PROVE  LET waiting == {k \in RowIds : rows[k].status = "DIGEST"}
         IN /\ Kept /\ Counted(waiting)
            /\ \A k \in RowIds : /\ k \notin waiting => rows'[k] = rows[k]
                                 /\ rows'[k] # rows[k] => mails[k] < mails'[k]
<1>. DEFINE waiting == {k \in RowIds : rows[k].status = "DIGEST"}
<1>1. waiting \in SUBSET (1 .. MaxRows)
  BY Typed
<1>2. ASSUME rows' = [k \in RowIds |->
               IF k \in waiting THEN [rows[k] EXCEPT !.status = "SENT"] ELSE rows[k]],
             Mailed(waiting), UNCHANGED <<loose, faults>>
      PROVE  /\ Kept /\ Counted(waiting)
             /\ \A k \in RowIds : /\ k \notin waiting => rows'[k] = rows[k]
                                  /\ rows'[k] # rows[k] => mails[k] < mails'[k]
  <2>1. Counted(waiting) /\ \A k \in waiting : mails[k] < mails'[k]
    BY <1>1, <1>2, MailedCounts
  <2>2. "SENT" \in Statuses
    BY DEF Statuses
  <2>. HIDE DEF waiting
  <2>3. Kept /\ \A k \in RowIds : k \notin waiting => rows'[k] = rows[k]
    BY <1>2, <2>2, MarkKeeps
  <2>. QED
    BY <2>1, <2>3
<1>3. CASE UNCHANGED rows /\ (Refuses(waiting) \/ Stops(waiting))
  <2>1. Counted(waiting)
    BY <1>1, <1>3, RefusesCount, StopsCount
  <2>2. Kept
    BY <1>3 DEF Kept, TypeOK
  <2>. QED
    BY <1>3, <2>1, <2>2
<1>. QED
  BY <1>2, <1>3 DEF SendDailyDigest

LEMMA DigestEffects == ASSUME TypeOK, SendDailyDigest PROVE Effects
<1>. DEFINE waiting == {k \in RowIds : rows[k].status = "DIGEST"}
<1>1. Kept /\ Counted(waiting) /\ \A k \in RowIds : rows'[k] # rows[k] => mails[k] < mails'[k]
  BY DigestIs
<1>2. UNCHANGED <<inc, drafts, retrying, candidates, escalating, cut, owned, muted,
                  alertsOn, quiet, smtpUp>> /\ digestDue' = FALSE
  BY DEF SendDailyDigest, worker
<1>3. Flags /\ \A i \in Incidents : inc'[i].escalated = inc[i].escalated
  BY <1>2, SameFlags
<1>4. Escalates
  BY <1>1, <1>2, <1>3 DEF Escalates
<1>5. candidates' \subseteq Incidents /\ escalating' \subseteq Incidents /\ cut' \subseteq Incidents
      /\ drafts' \subseteq RowIds /\ retrying' \subseteq RowIds
  BY <1>2, Typed DEF TypeOK
<1>6. \A k \in RowIds : rows'[k].status = "SENT" => rows[k].status = "SENT" \/ mails[k] < mails'[k]
  BY <1>1
<1>. HIDE DEF waiting
<1>. QED
  BY <1>1, <1>2, <1>3, <1>4, <1>5, <1>6, KeptEffects

\* The escalations' steps.
LEMMA StartEscalationsEffects == ASSUME TypeOK, StartEscalations PROVE Effects
<1>1. /\ UNCHANGED <<inc, rows, drafts, retrying, escalating, mails, loose, cut, faults, owned,
                     muted, alertsOn, quiet, digestDue, smtpUp>>
      /\ candidates' \subseteq Incidents /\ \A i \in candidates' : inc[i].notified
  BY DEF StartEscalations, history, settings
<1>2. Escalates
  BY DEF Escalates
<1>3. Counted({})
  BY <1>1 DEF Counted, TypeOK
<1>4. escalating' \subseteq Incidents /\ cut' \subseteq Incidents /\ digestDue' \in BOOLEAN
      /\ drafts' \subseteq RowIds /\ retrying' \subseteq RowIds
  BY <1>1, Typed DEF TypeOK
<1>. QED
  BY <1>1, <1>2, <1>3, <1>4, RowsStayEffects

\* A stamp changes no other column.
LEMMA StampIs ==
  ASSUME TypeOK, NEW i \in Incidents, inc' = Stamped(i)
  PROVE  /\ Flags /\ inc'[i].escalated
         /\ \A j \in Incidents \ {i} : inc'[j] = inc[j]
<1>. DEFINE c == [inc[i] EXCEPT !.escalated = TRUE]
<1>1. inc[i] \in IncidentColumns
  BY DEF TypeOK
<1>2. c \in IncidentColumns /\ c.notified = inc[i].notified /\ c.escalated
  BY <1>1 DEF IncidentColumns
<1>3. inc' = [inc EXCEPT ![i] = c]
  BY DEF Stamped
<1>. HIDE DEF c
<1>4. /\ inc' \in [Incidents -> IncidentColumns]
      /\ inc'[i] = c /\ \A j \in Incidents \ {i} : inc'[j] = inc[j]
  BY <1>2, <1>3, ColumnsChange
<1>. QED
  BY <1>2, <1>4 DEF Flags

LEMMA EscalateNextEffects ==
  ASSUME TypeOK, NEW i \in Incidents, EscalateNext(i)
  PROVE  Effects
<1>1. UNCHANGED <<retrying, mails, loose, cut, faults, owned, muted, alertsOn, quiet,
                  digestDue, smtpUp>> /\ i \in candidates
  BY DEF EscalateNext, history, settings
<1>2. Escalates
  BY DEF Escalates
<1>3. Counted({})
  BY <1>1 DEF Counted, TypeOK
<1>4. CASE /\ Writes(i, "ESCALATION")
           /\ candidates' = candidates \ {i} /\ escalating' = {i}
           /\ UNCHANGED inc
  <2>1. "ESCALATION" \in Types
    BY DEF Types
  <2>2. Grown(i, "ESCALATION")
    BY <1>4, <2>1, WritesGrow
  <2>3. Flags
    BY <1>4, SameFlags
  <2>4. Len(rows) \in Nat /\ Len(rows') = Len(rows) + 1
    BY <2>2, Typed DEF Grown
  <2>5. drafts \subseteq 1 .. Len(rows) /\ retrying \subseteq 1 .. Len(rows)
    BY DEF TypeOK
  <2>6. 1 .. Len(rows') = (1 .. Len(rows)) \cup {Len(rows) + 1}
    BY <2>4
  <2>7. drafts' \subseteq 1 .. Len(rows') /\ retrying' \subseteq 1 .. Len(rows')
    BY <1>1, <2>2, <2>5, <2>6 DEF Grown
  <2>8. TypeOK'
    BY <1>1, <1>4, <2>2, <2>3, <2>7 DEF TypeOK, Grown, Flags
  <2>9. \A k \in 1 .. MaxRows : mails[k] <= mails'[k]
    BY <1>3 DEF Counted
  <2>. QED
    BY <1>1, <1>2, <1>4, <2>1, <2>2, <2>3, <2>8, <2>9 DEF Effects, Grown
<1>5. CASE inc' = Stamped(i) /\ candidates' = candidates \ {i}
           /\ UNCHANGED <<rows, drafts, escalating>>
  <2>1. Kept /\ \A k \in RowIds : rows'[k].status = "SENT" => rows[k].status = "SENT"
    BY <1>5 DEF Kept, TypeOK
  <2>2. Flags
    BY <1>5, StampIs
  <2>3. candidates' \subseteq Incidents /\ escalating' \subseteq Incidents /\ cut' \subseteq Incidents
        /\ drafts' \subseteq RowIds /\ retrying' \subseteq RowIds /\ digestDue' \in BOOLEAN
    BY <1>1, <1>5, Typed DEF TypeOK
  <2>4. \A j \in candidates' : j \in candidates
    BY <1>5
  <2>. QED
    BY <1>1, <1>2, <1>3, <2>1, <2>2, <2>3, <2>4, KeptEffects
<1>6. CASE candidates' = {} /\ UNCHANGED <<inc, rows, drafts, escalating>>
  <2>1. escalating' \subseteq Incidents /\ cut' \subseteq Incidents /\ digestDue' \in BOOLEAN
        /\ drafts' \subseteq RowIds /\ retrying' \subseteq RowIds
    BY <1>1, <1>6, Typed DEF TypeOK
  <2>. QED
    BY <1>1, <1>2, <1>3, <1>6, <2>1, RowsStayEffects
<1>. QED
  BY <1>4, <1>5, <1>6 DEF EscalateNext

LEMMA StampEffects == ASSUME TypeOK, NEW i \in Incidents, StampEscalation(i) PROVE Effects
<1>1. UNCHANGED <<rows, drafts, retrying, candidates, mails, loose, cut, faults, owned, muted,
                  alertsOn, quiet, digestDue, smtpUp>> /\ inc' = Stamped(i) /\ escalating' \subseteq escalating
  BY DEF StampEscalation, history, settings
<1>2. Escalates
  BY DEF Escalates
<1>3. Counted({})
  BY <1>1 DEF Counted, TypeOK
<1>4. Kept /\ \A k \in RowIds : rows'[k].status = "SENT" => rows[k].status = "SENT"
  BY <1>1 DEF Kept, TypeOK
<1>5. Flags
  BY <1>1, StampIs
<1>6. candidates' \subseteq Incidents /\ escalating' \subseteq Incidents /\ cut' \subseteq Incidents
      /\ drafts' \subseteq RowIds /\ retrying' \subseteq RowIds /\ digestDue' \in BOOLEAN
  BY <1>1, Typed DEF TypeOK
<1>7. \A j \in candidates' : j \in candidates
  BY <1>1
<1>. QED
  BY <1>1, <1>2, <1>3, <1>4, <1>5, <1>6, <1>7, KeptEffects

\* Threads that stop. What they mailed without a record was not held back.
LEMMA ThreadStopsIs ==
  ASSUME TypeOK, NEW k \in RowIds, ThreadStops(k)
  PROVE  /\ Counted({k})
         /\ \A j \in 1 .. MaxRows : mails'[j] # mails[j] =>
              j = k /\ j \in loose' /\ alertsOn /\ ~quiet /\ rows[k].inc \notin muted
<1>1. k \in 1 .. MaxRows
  BY Typed
<1>2. CASE "SEND" \in Verdict(k)
  <2>1. alertsOn /\ ~quiet /\ rows[k].inc \notin muted
    BY <1>2, VerdictIs
  <2>2. Stops({k})
    BY <1>2 DEF ThreadStops
  <2>3. Counted({k}) /\ \A j \in 1 .. MaxRows : mails'[j] # mails[j] => j \in loose'
    BY <1>1, <2>2, StopsCount
  <2>. QED
    BY <2>1, <2>3 DEF Counted
<1>3. CASE "SEND" \notin Verdict(k)
  <2>1. Stops({})
    BY <1>3 DEF ThreadStops
  <2>2. Counted({})
    BY <2>1, StopsCount
  <2>. QED
    BY <2>2 DEF Counted
<1>. QED
  BY <1>2, <1>3

LEMMA ThreadStopsEffects == ASSUME TypeOK, NEW k \in RowIds, ThreadStops(k) PROVE Effects
<1>1. UNCHANGED <<inc, rows, retrying, candidates, escalating, cut, owned, muted, alertsOn, quiet,
                  digestDue, smtpUp>> /\ drafts' \subseteq drafts
  BY DEF ThreadStops, worker, settings
<1>2. Counted({k})
  BY ThreadStopsIs
<1>3. Kept
  BY <1>1 DEF Kept, TypeOK
<1>4. Escalates
  BY <1>1, <1>3 DEF Escalates
<1>5. candidates' \subseteq Incidents /\ escalating' \subseteq Incidents /\ cut' \subseteq Incidents
      /\ drafts' \subseteq RowIds /\ retrying' \subseteq RowIds /\ digestDue' \in BOOLEAN
  BY <1>1, Typed DEF TypeOK
<1>. QED
  BY <1>1, <1>2, <1>4, <1>5, RowsStayEffects

LEMMA WorkerStopsIs ==
  ASSUME TypeOK, WorkerStops
  PROVE  /\ Counted(RowIds)
         /\ \A j \in 1 .. MaxRows : mails'[j] # mails[j] =>
              /\ j \in loose'
              /\ j \in retrying \/ (alertsOn /\ ~quiet /\ rows[j].inc \notin muted)
<1>1. RowIds \subseteq 1 .. MaxRows /\ retrying \subseteq RowIds /\ drafts \subseteq RowIds
  BY Typed
<1>2. ASSUME NEW k \in retrying \cup {k \in drafts \cap Escalations : "SEND" \in Verdict(k)},
             Stops({k})
      PROVE  /\ Counted(RowIds)
             /\ \A j \in 1 .. MaxRows : mails'[j] # mails[j] =>
                  /\ j \in loose'
                  /\ j \in retrying \/ (alertsOn /\ ~quiet /\ rows[j].inc \notin muted)
  <2>1. k \in RowIds
    BY <1>1
  <2>2. k \in retrying \/ (alertsOn /\ ~quiet /\ rows[k].inc \notin muted)
    BY <2>1, VerdictIs
  <2>3. Counted({k}) /\ \A j \in 1 .. MaxRows : mails'[j] # mails[j] => j \in loose'
    BY <1>1, <1>2, <2>1, StopsCount
  <2>. QED
    BY <2>1, <2>2, <2>3 DEF Counted
<1>3. CASE Stops({})
  <2>1. Counted({})
    BY <1>3, StopsCount
  <2>. QED
    BY <2>1 DEF Counted
<1>. QED
  BY <1>2, <1>3 DEF WorkerStops

LEMMA WorkerStopsEffects == ASSUME TypeOK, WorkerStops PROVE Effects
<1>1. /\ UNCHANGED <<inc, rows, owned, muted, alertsOn, quiet, digestDue, smtpUp>>
      /\ retrying' = {} /\ candidates' = {} /\ escalating' = {}
      /\ drafts' \subseteq drafts /\ cut' = cut \cup escalating
  BY DEF WorkerStops, settings
<1>2. Counted(RowIds)
  BY WorkerStopsIs
<1>3. Escalates
  BY DEF Escalates
<1>4. candidates' \subseteq Incidents /\ escalating' \subseteq Incidents /\ cut' \subseteq Incidents
      /\ drafts' \subseteq RowIds /\ retrying' \subseteq RowIds /\ digestDue' \in BOOLEAN
  BY <1>1, Typed DEF TypeOK
<1>. QED
  BY <1>1, <1>2, <1>3, <1>4, RowsStayEffects

\* The incident's events.
LEMMA IncidentEffects ==
  ASSUME TypeOK, NEW i \in Incidents,
         \/ OpenIncident(i) \/ ResolveByCheck(i) \/ MaybeSendReminder(i)
         \/ ResolveManually(i) \/ Reopen(i) \/ Acknowledge(i)
  PROVE  Effects
<1>1. inc[i] \in IncidentColumns /\ {"DOWN", "RECOVERY", "REMINDER"} \subseteq Types \ {"ESCALATION"}
  BY DEF TypeOK, Types
<1>2. ASSUME NEW c \in IncidentColumns, inc' = [inc EXCEPT ![i] = c],
             c.notified = inc[i].notified, c.escalated = inc[i].escalated,
             UNCHANGED <<worker, history, settings>>,
             UNCHANGED <<rows, drafts>> \/ Writes(i, "DOWN") \/ Writes(i, "RECOVERY")
      PROVE  Effects
  BY <1>1, <1>2, WritesGrow, GrownEffects, ColumnsEffects
<1>3. CASE OpenIncident(i) \/ ResolveByCheck(i) \/ ResolveManually(i)
  <2>. DEFINE to(s) == [inc[i] EXCEPT !.state = s]
  <2>1. ASSUME NEW s \in {"OPEN", "RESOLVED"}
        PROVE  to(s) \in IncidentColumns /\ to(s).notified = inc[i].notified
               /\ to(s).escalated = inc[i].escalated
    BY <1>1 DEF IncidentColumns
  <2>2. /\ inc' = [inc EXCEPT ![i] = to("OPEN")] \/ inc' = [inc EXCEPT ![i] = to("RESOLVED")]
        /\ UNCHANGED <<worker, history, settings>>
        /\ UNCHANGED <<rows, drafts>> \/ Writes(i, "DOWN") \/ Writes(i, "RECOVERY")
    BY <1>3 DEF OpenIncident, ResolveByCheck, ResolveManually
  <2>. HIDE DEF to
  <2>. QED
    BY <1>2, <2>1, <2>2
<1>4. CASE Reopen(i)
  <2>. DEFINE c == [inc[i] EXCEPT !.state = "OPEN", !.recovered = FALSE]
  <2>1. c \in IncidentColumns /\ c.notified = inc[i].notified /\ c.escalated = inc[i].escalated
    BY <1>1 DEF IncidentColumns
  <2>2. inc' = [inc EXCEPT ![i] = c] /\ UNCHANGED <<rows, drafts, worker, history, settings>>
    BY <1>4 DEF Reopen
  <2>. HIDE DEF c
  <2>. QED
    BY <1>2, <2>1, <2>2
<1>5. CASE Acknowledge(i)
  <2>. DEFINE c == [inc[i] EXCEPT !.acked = TRUE]
  <2>1. c \in IncidentColumns /\ c.notified = inc[i].notified /\ c.escalated = inc[i].escalated
    BY <1>1 DEF IncidentColumns
  <2>2. inc' = [inc EXCEPT ![i] = c] /\ UNCHANGED <<rows, drafts, worker, history, settings>>
    BY <1>5 DEF Acknowledge
  <2>. HIDE DEF c
  <2>. QED
    BY <1>2, <2>1, <2>2
<1>6. CASE MaybeSendReminder(i)
  <2>1. Writes(i, "REMINDER") /\ UNCHANGED <<inc, worker, history, settings>>
    BY <1>6 DEF MaybeSendReminder
  <2>2. Grown(i, "REMINDER")
    BY <1>1, <2>1, WritesGrow
  <2>3. inc' = [inc EXCEPT ![i] = inc[i]]
    BY <2>1 DEF TypeOK
  <2>. QED
    BY <1>1, <2>1, <2>2, <2>3, GrownEffects
<1>. QED
  BY <1>3, <1>4, <1>5, <1>6

\* Time, the mail server and the administrator; and steps that change nothing.
Around ==
  \/ \E i \in Incidents : MuteServer(i) \/ AssignOwner(i)
  \/ QuietDayStarts \/ QuietDayEnds \/ DigestHour \/ SmtpChanges \/ SwitchAlerts
  \/ UNCHANGED vars

LEMMA AroundIs ==
  ASSUME TypeOK, Around
  PROVE  /\ UNCHANGED <<inc, rows, drafts, retrying, candidates, escalating, mails, loose, cut, faults>>
         /\ owned' \subseteq Incidents /\ muted' \subseteq ServerIncidents
         /\ alertsOn' \in BOOLEAN /\ quiet' \in BOOLEAN /\ digestDue' \in BOOLEAN /\ smtpUp' \in BOOLEAN
<1>1. ASSUME NEW i \in Incidents, MuteServer(i)
      PROVE  /\ UNCHANGED <<inc, rows, drafts, worker, history, owned, alertsOn, quiet, digestDue, smtpUp>>
             /\ muted' \subseteq ServerIncidents
  BY <1>1 DEF MuteServer, TypeOK
<1>2. ASSUME NEW i \in Incidents, AssignOwner(i)
      PROVE  /\ UNCHANGED <<inc, rows, drafts, worker, history, muted, alertsOn, quiet, digestDue, smtpUp>>
             /\ owned' \subseteq Incidents
  BY <1>2 DEF AssignOwner, TypeOK
<1>3. CASE UNCHANGED vars
  BY <1>3 DEF vars, worker, history, settings, TypeOK
<1>4. CASE QuietDayStarts \/ QuietDayEnds \/ DigestHour \/ SmtpChanges \/ SwitchAlerts
  BY <1>4 DEF QuietDayStarts, QuietDayEnds, DigestHour, SmtpChanges, SwitchAlerts, Set,
              worker, history, TypeOK
<1>. QED
  BY <1>1, <1>2, <1>3, <1>4 DEF Around, worker, history, TypeOK

LEMMA AroundEffects == ASSUME TypeOK, Around PROVE Effects
<1>1. /\ UNCHANGED <<inc, rows, drafts, retrying, candidates, escalating, mails, loose, cut, faults>>
      /\ owned' \subseteq Incidents /\ muted' \subseteq ServerIncidents
      /\ alertsOn' \in BOOLEAN /\ quiet' \in BOOLEAN /\ digestDue' \in BOOLEAN /\ smtpUp' \in BOOLEAN
  BY AroundIs
<1>2. TypeOK'
  BY <1>1 DEF TypeOK
<1>3. Kept
  BY <1>1 DEF Kept, TypeOK
<1>4. Flags /\ Escalates
  BY <1>1, <1>3, SameFlags DEF Escalates
<1>5. \A k \in 1 .. MaxRows : mails[k] <= mails'[k]
  BY <1>1 DEF TypeOK
<1>. QED
  BY <1>1, <1>2, <1>3, <1>4, <1>5 DEF Effects

LEMMA StepCases ==
  ASSUME [Next]_vars
  PROVE  \/ \E i \in Incidents :
              \/ OpenIncident(i) \/ ResolveByCheck(i) \/ MaybeSendReminder(i)
              \/ ResolveManually(i) \/ Reopen(i) \/ Acknowledge(i)
         \/ \E i \in Incidents : EscalateNext(i) \/ StampEscalation(i)
         \/ \E k \in RowIds : Attempt(k) \/ RetryRow(k) \/ ThreadStops(k)
         \/ RetryFailedNotifications \/ StartEscalations \/ SendDailyDigest \/ WorkerStops
         \/ Around
BY DEF Next, Around

LEMMA NextEffects == ASSUME TypeOK, [Next]_vars PROVE Effects
BY StepCases, IncidentEffects, EscalateNextEffects, StampEffects, AttemptEffects, RetryEffects,
   ThreadStopsEffects, RetryQueueEffects, StartEscalationsEffects, DigestEffects,
   WorkerStopsEffects, AroundEffects

\* Every variable keeps its type in every behaviour.
THEOREM TypeCorrect == Spec => []TypeOK
<1>1. Init => TypeOK
  <2>. SUFFICES ASSUME Init PROVE TypeOK
    OBVIOUS
  <2>1. rows = <<>> /\ rows \in Seq(Row) /\ Len(rows) = 0 /\ 0 <= MaxRows
    BY EmptySeq, BoundsAssumption DEF Init
  <2>2. inc \in [Incidents -> IncidentColumns]
    BY DEF Init, IncidentColumns
  <2>. QED
    BY <2>1, <2>2, KindsAssumption DEF Init, TypeOK
<1>2. TypeOK /\ [Next]_vars => TypeOK'
  BY NextEffects DEF Effects
<1>. QED
  BY <1>1, <1>2, PTL DEF Spec

-----------------------------------------------------------------------------
(* Escalation.                                                             *)

\* A DOWN row of incident i before row n was taken by the mail server.
Told(i, n) ==
  \E j \in 1 .. n - 1 : rows[j].inc = i /\ rows[j].type = "DOWN" /\ mails[j] > 0

\* What makes it so: a row that reads SENT was mailed, an incident counts as
\* notified when such a DOWN row of it exists, and only notified incidents are
\* on the list of escalations.
Announced ==
  /\ \A k \in RowIds : rows[k].status = "SENT" => mails[k] > 0
  /\ \A i \in Incidents : inc[i].notified => Told(i, Len(rows) + 1)
  /\ \A i \in candidates : inc[i].notified
  /\ \A k \in RowIds : rows[k].type = "ESCALATION" => Told(rows[k].inc, k)

\* No row is removed, nor becomes another's.
LEMMA RowsStay ==
  ASSUME TypeOK, Effects
  PROVE  /\ Len(rows) \in Nat /\ RowIds = 1 .. Len(rows) /\ RowIds \subseteq 1 .. MaxRows
         /\ \A k \in RowIds : rows[k] \in Row
         /\ Len(rows') \in Nat /\ RowIds' = 1 .. Len(rows')
         /\ Len(rows') = Len(rows) \/ Len(rows') = Len(rows) + 1
         /\ RowIds \subseteq RowIds'
         /\ \A k \in RowIds : rows'[k].inc = rows[k].inc /\ rows'[k].type = rows[k].type
<1>1. /\ Len(rows) \in Nat /\ RowIds = 1 .. Len(rows) /\ RowIds \subseteq 1 .. MaxRows
      /\ \A k \in RowIds : rows[k] \in Row
  BY Typed
<1>2. CASE Kept
  BY <1>1, <1>2 DEF Kept, RowIds
<1>3. ASSUME NEW i, NEW type, Grown(i, type)
      PROVE  /\ Len(rows') = Len(rows) + 1
             /\ \A k \in RowIds : rows'[k] = rows[k]
  BY <1>3 DEF Grown
<1>4. CASE /\ Len(rows') = Len(rows) + 1
           /\ \A k \in RowIds : rows'[k] = rows[k]
  BY <1>1, <1>4 DEF RowIds
<1>. QED
  BY <1>2, <1>3, <1>4 DEF Effects

LEMMA AnnouncedStays == ASSUME TypeOK, Announced, Effects PROVE Announced'
<1>1. /\ Len(rows) \in Nat /\ RowIds = 1 .. Len(rows) /\ RowIds \subseteq 1 .. MaxRows
      /\ \A k \in RowIds : rows[k] \in Row
      /\ Len(rows') \in Nat /\ RowIds' = 1 .. Len(rows')
      /\ Len(rows') = Len(rows) \/ Len(rows') = Len(rows) + 1
      /\ RowIds \subseteq RowIds'
      /\ \A k \in RowIds : rows'[k].inc = rows[k].inc /\ rows'[k].type = rows[k].type
  BY RowsStay
<1>2. mails \in [1 .. MaxRows -> Nat] /\ mails' \in [1 .. MaxRows -> Nat]
  BY DEF TypeOK, Effects
<1>3. ASSUME NEW k \in RowIds' \ RowIds
      PROVE  \E i \in Incidents, type \in Types :
               /\ Grown(i, type) /\ (type = "ESCALATION" => i \in candidates)
               /\ k = Len(rows) + 1 /\ rows'[k].status = "PENDING"
               /\ rows'[k].type = type /\ rows'[k].inc = i
  <2>1. ~Kept
    BY <1>1 DEF Kept
  <2>2. PICK i \in Incidents, type \in Types :
          Grown(i, type) /\ (type = "ESCALATION" => i \in candidates)
    BY <2>1 DEF Effects
  <2>3. k = Len(rows) + 1
    BY <1>1, <2>2 DEF Grown
  <2>. QED
    BY <2>2, <2>3 DEF Grown
<1>4. ASSUME NEW k \in RowIds', rows'[k].status = "SENT" PROVE mails'[k] > 0
  <2>1. k \in RowIds
    BY <1>3, <1>4
  <2>2. mails[k] \in Nat /\ mails'[k] \in Nat /\ mails[k] <= mails'[k]
    BY <1>1, <1>2, <2>1 DEF Effects
  <2>. QED
    BY <1>4, <2>1, <2>2 DEF Effects, Announced
<1>5. ASSUME NEW i \in Incidents, inc'[i].notified PROVE Told(i, Len(rows) + 1)'
  <2>1. Len(rows) + 1 \in 1 .. Len(rows) + 1
    BY <1>1
  <2>2. CASE inc[i].notified
    <3>1. \E j \in RowIds : rows'[j].inc = i /\ rows'[j].type = "DOWN" /\ mails'[j] > 0
      <4>1. PICK j \in 1 .. (Len(rows) + 1) - 1 :
              rows[j].inc = i /\ rows[j].type = "DOWN" /\ mails[j] > 0
        BY <2>2 DEF Announced, Told
      <4>2. j \in RowIds
        BY <1>1
      <4>3. mails'[j] > 0
        BY <1>1, <1>2, <4>1, <4>2 DEF Effects
      <4>. QED
        BY <1>1, <4>1, <4>2, <4>3
    <3>. QED
      BY <1>1, <3>1 DEF Told
  <2>3. CASE ~inc[i].notified
    <3>1. PICK j \in RowIds : rows[j].inc = i /\ rows[j].type = "DOWN" /\ rows'[j].status = "SENT"
      BY <1>5, <2>3 DEF Effects, Flags
    <3>2. rows'[j].inc = i /\ rows'[j].type = "DOWN" /\ j \in RowIds'
      BY <1>1, <3>1
    <3>3. mails'[j] > 0
      BY <1>4, <3>1, <3>2
    <3>. QED
      BY <1>1, <3>2, <3>3 DEF Told
  <2>. QED
    BY <2>2, <2>3
<1>6. ASSUME NEW i \in candidates' PROVE inc'[i].notified
  BY <1>6 DEF Effects, Announced, Flags, TypeOK
<1>7. ASSUME NEW k \in RowIds', rows'[k].type = "ESCALATION" PROVE Told(rows[k].inc, k)'
  <2>1. CASE k \in RowIds
    <3>1. rows'[k].inc = rows[k].inc /\ rows[k].type = "ESCALATION"
      BY <1>1, <1>7, <2>1
    <3>2. Told(rows[k].inc, k)
      BY <2>1, <3>1 DEF Announced
    <3>3. PICK j \in 1 .. k - 1 : rows[j].inc = rows[k].inc /\ rows[j].type = "DOWN" /\ mails[j] > 0
      BY <3>2 DEF Told
    <3>4. j \in RowIds
      BY <1>1, <2>1
    <3>5. rows'[j].inc = rows'[k].inc /\ rows'[j].type = "DOWN"
      BY <1>1, <3>1, <3>3, <3>4
    <3>6. mails'[j] > 0
      BY <1>1, <1>2, <3>3, <3>4 DEF Effects
    <3>. QED
      BY <3>5, <3>6 DEF Told
  <2>2. CASE k \notin RowIds
    <3>1. PICK i \in Incidents, type \in Types :
            /\ Grown(i, type) /\ (type = "ESCALATION" => i \in candidates)
            /\ k = Len(rows) + 1 /\ rows'[k].type = type /\ rows'[k].inc = i
      BY <1>3, <2>2
    <3>2. inc[i].notified
      BY <1>7, <3>1 DEF Announced
    <3>3. PICK j \in 1 .. (Len(rows) + 1) - 1 :
            rows[j].inc = i /\ rows[j].type = "DOWN" /\ mails[j] > 0
      BY <3>2 DEF Announced, Told
    <3>4. j \in RowIds /\ j \in 1 .. k - 1
      BY <1>1, <3>1
    <3>5. rows'[j].inc = i /\ rows'[j].type = "DOWN"
      BY <3>1, <3>3, <3>4 DEF Grown
    <3>6. mails'[j] > 0
      BY <1>1, <1>2, <3>3, <3>4 DEF Effects
    <3>. QED
      BY <3>1, <3>4, <3>5, <3>6 DEF Told
  <2>. QED
    BY <2>1, <2>2
<1>. QED
  BY <1>4, <1>5, <1>6, <1>7 DEF Announced

\* An incident that was never cut short has at most one ESCALATION row, none
\* while it is on the list, and one that is over once its row is stamped.
EscalatesOnce ==
  /\ \A i \in candidates : ~inc[i].escalated /\ i \notin escalating
  /\ \A i \in Incidents \ cut :
       /\ \A j, k \in RowIds :
            rows[j].type = "ESCALATION" /\ rows[j].inc = i
              /\ rows[k].type = "ESCALATION" /\ rows[k].inc = i => j = k
       /\ (\E k \in RowIds : rows[k].type = "ESCALATION" /\ rows[k].inc = i) =>
            i \in escalating \/ (inc[i].escalated /\ i \notin candidates)

LEMMA EscalatesOnceStays ==
  ASSUME TypeOK, EscalatesOnce, Effects
  PROVE  EscalatesOnce'
<1>1. /\ Len(rows) \in Nat /\ RowIds = 1 .. Len(rows)
      /\ RowIds \subseteq RowIds' /\ RowIds' = 1 .. Len(rows')
      /\ \A k \in RowIds : rows'[k].inc = rows[k].inc /\ rows'[k].type = rows[k].type
  BY RowsStay
<1>2. ASSUME Kept, cut \subseteq cut',
             \A i \in candidates' : ~inc'[i].escalated /\ i \notin escalating',
             \A i \in Incidents \ cut' :
               /\ i \in escalating => i \in escalating' \/ (inc'[i].escalated /\ i \notin candidates')
               /\ inc[i].escalated => inc'[i].escalated
      PROVE  EscalatesOnce'
  <2>1. RowIds' = RowIds
    BY <1>1, <1>2 DEF Kept
  <2>2. ASSUME NEW i \in Incidents \ cut', NEW j \in RowIds, NEW k \in RowIds,
               rows'[j].type = "ESCALATION", rows'[j].inc = i,
               rows'[k].type = "ESCALATION", rows'[k].inc = i
        PROVE  j = k
    BY <1>1, <1>2, <2>2 DEF EscalatesOnce
  <2>3. ASSUME NEW i \in Incidents \ cut', NEW k \in RowIds,
               rows'[k].type = "ESCALATION", rows'[k].inc = i
        PROVE  i \in escalating' \/ (inc'[i].escalated /\ i \notin candidates')
    <3>1. i \in escalating \/ (inc[i].escalated /\ i \notin candidates)
      BY <1>1, <1>2, <2>3 DEF EscalatesOnce
    <3>. QED
      BY <1>2, <3>1
  <2>. QED
    BY <1>2, <2>1, <2>2, <2>3 DEF EscalatesOnce
<1>3. ASSUME UNCHANGED <<candidates, escalating, cut>>,
             \A i \in Incidents : inc'[i].escalated = inc[i].escalated
      PROVE  \A i \in candidates' : ~inc'[i].escalated /\ i \notin escalating'
  BY <1>3 DEF EscalatesOnce, TypeOK
<1>4. CASE /\ UNCHANGED <<candidates, escalating, cut>>
           /\ \A i \in Incidents : inc'[i].escalated = inc[i].escalated
           /\ Kept
  <2>1. \A i \in candidates' : ~inc'[i].escalated /\ i \notin escalating'
    BY <1>3, <1>4
  <2>2. \A i \in Incidents \ cut' :
          /\ i \in escalating => i \in escalating' \/ (inc'[i].escalated /\ i \notin candidates')
          /\ inc[i].escalated => inc'[i].escalated
    BY <1>4
  <2>. QED
    BY <1>2, <1>4, <2>1, <2>2
<1>5. ASSUME UNCHANGED <<candidates, escalating, cut>>,
             \A i \in Incidents : inc'[i].escalated = inc[i].escalated,
             NEW h \in Incidents, NEW type \in Types \ {"ESCALATION"}, Grown(h, type)
      PROVE  EscalatesOnce'
  <2>1. \A k \in RowIds' : rows'[k].type = "ESCALATION" => k \in RowIds
    BY <1>1, <1>5 DEF Grown
  <2>2. \A i \in candidates' : ~inc'[i].escalated /\ i \notin escalating'
    BY <1>3, <1>5
  <2>3. ASSUME NEW i \in Incidents \ cut', NEW j \in RowIds', NEW k \in RowIds',
               rows'[j].type = "ESCALATION", rows'[j].inc = i,
               rows'[k].type = "ESCALATION", rows'[k].inc = i
        PROVE  j = k
    BY <1>1, <1>5, <2>1, <2>3 DEF EscalatesOnce
  <2>4. ASSUME NEW i \in Incidents \ cut', NEW k \in RowIds',
               rows'[k].type = "ESCALATION", rows'[k].inc = i
        PROVE  i \in escalating' \/ (inc'[i].escalated /\ i \notin candidates')
    BY <1>1, <1>5, <2>1, <2>4 DEF EscalatesOnce
  <2>. QED
    BY <2>2, <2>3, <2>4 DEF EscalatesOnce
<1>6. CASE StartEscalations
  <2>1. /\ UNCHANGED <<inc, rows, escalating, cut>> /\ escalating = {}
        /\ candidates' \subseteq {i \in Incidents : ~inc[i].escalated}
    BY <1>6 DEF StartEscalations, WorkerFree, history
  <2>2. Kept
    BY <2>1 DEF Kept, TypeOK
  <2>3. \A i \in candidates' : ~inc'[i].escalated /\ i \notin escalating'
    BY <2>1
  <2>4. \A i \in Incidents \ cut' :
          /\ i \in escalating => i \in escalating' \/ (inc'[i].escalated /\ i \notin candidates')
          /\ inc[i].escalated => inc'[i].escalated
    BY <2>1
  <2>. QED
    BY <1>2, <2>1, <2>2, <2>3, <2>4
<1>7. CASE WorkerStops
  <2>1. UNCHANGED <<inc, rows>> /\ candidates' = {} /\ cut' = cut \cup escalating
    BY <1>7 DEF WorkerStops
  <2>2. Kept
    BY <2>1 DEF Kept, TypeOK
  <2>3. \A i \in Incidents \ cut' :
          /\ i \in escalating => i \in escalating' \/ (inc'[i].escalated /\ i \notin candidates')
          /\ inc[i].escalated => inc'[i].escalated
    BY <2>1
  <2>. QED
    BY <1>2, <2>1, <2>2, <2>3
<1>8. ASSUME NEW h \in Incidents, StampEscalation(h) PROVE EscalatesOnce'
  <2>1. /\ UNCHANGED <<rows, candidates, cut>> /\ h \in escalating
        /\ inc' = Stamped(h) /\ escalating' = escalating \ {h}
    BY <1>8 DEF StampEscalation, history
  <2>2. inc'[h].escalated /\ \A j \in Incidents \ {h} : inc'[j] = inc[j]
    BY <2>1, StampIs
  <2>3. Kept
    BY <2>1 DEF Kept, TypeOK
  <2>4. h \notin candidates
    BY <2>1 DEF EscalatesOnce
  <2>5. \A i \in candidates' : ~inc'[i].escalated /\ i \notin escalating'
    BY <2>1, <2>2, <2>4 DEF EscalatesOnce, TypeOK
  <2>6. \A i \in Incidents \ cut' :
          /\ i \in escalating => i \in escalating' \/ (inc'[i].escalated /\ i \notin candidates')
          /\ inc[i].escalated => inc'[i].escalated
    BY <2>1, <2>2, <2>4
  <2>. QED
    BY <1>2, <2>1, <2>3, <2>5, <2>6
<1>9. ASSUME NEW h \in Incidents, EscalateNext(h) PROVE EscalatesOnce'
  <2>1. h \in candidates /\ escalating = {} /\ UNCHANGED cut
    BY <1>9 DEF EscalateNext, history
  <2>2. CASE /\ Writes(h, "ESCALATION")
             /\ candidates' = candidates \ {h} /\ escalating' = {h}
             /\ UNCHANGED inc
    <3>1. "ESCALATION" \in Types
      BY DEF Types
    <3>2. Grown(h, "ESCALATION")
      BY <2>2, <3>1, WritesGrow
    <3>3. RowIds' = RowIds \cup {Len(rows) + 1} /\ rows'[Len(rows) + 1].inc = h
      BY <1>1, <3>2 DEF Grown
    <3>4. \A i \in candidates' : ~inc'[i].escalated /\ i \notin escalating'
      BY <2>2 DEF EscalatesOnce
    <3>5. ASSUME h \notin cut, NEW k \in RowIds, rows[k].type = "ESCALATION", rows[k].inc = h
          PROVE  FALSE
      BY <2>1, <3>5 DEF EscalatesOnce
    <3>6. ASSUME NEW i \in Incidents \ cut', NEW j \in RowIds', NEW k \in RowIds',
                 rows'[j].type = "ESCALATION", rows'[j].inc = i,
                 rows'[k].type = "ESCALATION", rows'[k].inc = i
          PROVE  j = k
      <4>1. CASE i = h
        BY <1>1, <2>1, <3>3, <3>5, <3>6, <4>1
      <4>2. CASE i # h
        <5>1. j \in RowIds /\ k \in RowIds
          BY <3>3, <3>6, <4>2
        <5>. QED
          BY <1>1, <2>1, <3>6, <5>1 DEF EscalatesOnce
      <4>. QED
        BY <4>1, <4>2
    <3>7. ASSUME NEW i \in Incidents \ cut', NEW k \in RowIds',
                 rows'[k].type = "ESCALATION", rows'[k].inc = i
          PROVE  i \in escalating' \/ (inc'[i].escalated /\ i \notin candidates')
      <4>1. CASE i = h
        BY <2>2, <4>1
      <4>2. CASE i # h
        <5>1. k \in RowIds
          BY <3>3, <3>7, <4>2
        <5>2. inc[i].escalated /\ i \notin candidates
          BY <1>1, <2>1, <3>7, <5>1 DEF EscalatesOnce
        <5>. QED
          BY <2>2, <5>2
      <4>. QED
        BY <4>1, <4>2
    <3>. QED
      BY <3>4, <3>6, <3>7 DEF EscalatesOnce
  <2>3. CASE inc' = Stamped(h) /\ candidates' = candidates \ {h}
             /\ UNCHANGED <<rows, drafts, escalating>>
    <3>1. inc'[h].escalated /\ \A j \in Incidents \ {h} : inc'[j] = inc[j]
      BY <2>3, StampIs
    <3>2. Kept
      BY <2>3 DEF Kept, TypeOK
    <3>3. \A i \in candidates' : ~inc'[i].escalated /\ i \notin escalating'
      BY <2>3, <3>1 DEF EscalatesOnce, TypeOK
    <3>4. \A i \in Incidents \ cut' :
            /\ i \in escalating => i \in escalating' \/ (inc'[i].escalated /\ i \notin candidates')
            /\ inc[i].escalated => inc'[i].escalated
      BY <2>1, <3>1
    <3>. QED
      BY <1>2, <2>1, <3>2, <3>3, <3>4
  <2>4. CASE candidates' = {} /\ UNCHANGED <<inc, rows, drafts, escalating>>
    <3>1. Kept
      BY <2>4 DEF Kept, TypeOK
    <3>. QED
      BY <1>2, <2>1, <2>4, <3>1
  <2>. QED
    BY <2>2, <2>3, <2>4, <1>9 DEF EscalateNext
<1>. QED
  BY <1>4, <1>5, <1>6, <1>7, <1>8, <1>9 DEF Effects, Escalates

\* An incident escalates once unless the worker was stopped at it, and only
\* after the mail server took its DOWN row: true whatever retries, quiet days,
\* digests, reopenings and threads that stop come in between.
\* (notification_service 372-393, 208-231, 396-432, 435-472)
THEOREM EscalationsFollowAlerts == Spec => []EscalationFollowsAlert
<1>. DEFINE Sound == Announced /\ EscalatesOnce
<1>1. Init => Sound
  <2>. SUFFICES ASSUME Init PROVE Sound
    OBVIOUS
  <2>1. rows = <<>> /\ Len(rows) = 0 /\ RowIds = {}
    BY EmptySeq DEF Init, RowIds
  <2>. QED
    BY <2>1 DEF Init, Announced, EscalatesOnce
<1>2. TypeOK /\ Sound /\ [Next]_vars => Sound'
  BY NextEffects, AnnouncedStays, EscalatesOnceStays
<1>3. TypeOK /\ Sound => EscalationFollowsAlert
  <2>. SUFFICES ASSUME TypeOK, Sound, NEW k \in Escalations
       PROVE  /\ \E j \in 1 .. k - 1 :
                   rows[j].inc = rows[k].inc /\ rows[j].type = "DOWN" /\ mails[j] > 0
              /\ rows[k].inc \notin cut =>
                   \A j \in Escalations : rows[j].inc = rows[k].inc => j = k
    BY DEF EscalationFollowsAlert
  <2>1. k \in RowIds /\ rows[k].type = "ESCALATION" /\ rows[k].inc \in Incidents
    BY Typed DEF Escalations, Row
  <2>2. Told(rows[k].inc, k)
    BY <2>1 DEF Announced
  <2>3. rows[k].inc \notin cut =>
          \A j \in Escalations : rows[j].inc = rows[k].inc => j = k
    BY <2>1 DEF EscalatesOnce, Escalations
  <2>. QED
    BY <2>2, <2>3 DEF Told
<1>. QED
  BY <1>1, <1>2, <1>3, TypeCorrect, PTL DEF Spec

-----------------------------------------------------------------------------
(* Mail.                                                                   *)

\* What a quiet day, the switch and a mute hold back, of all paths to the mail
\* server: the first attempt, the retry, the digest, the escalation, and what
\* goes out of a thread that stops. (notification_service 55-62, 146-182,
\* 354-357, 378-380, 435-472, 495-547)
THEOREM WhatIsHeldBack == Spec => MailHeldBack
<1>. DEFINE A == \A k \in 1 .. MaxRows : mails'[k] # mails[k] =>
                   /\ quiet => k \in retrying
                   /\ ~alertsOn \/ rows[k].inc \in muted =>
                        k \in retrying \/ rows[k].status = "DIGEST"
<1>1. TypeOK /\ [Next]_vars => [A]_vars
  <2>. SUFFICES ASSUME TypeOK, [Next]_vars, NEW k \in 1 .. MaxRows, mails'[k] # mails[k]
       PROVE  \/ k \in retrying
              \/ ~quiet /\ rows[k].status = "DIGEST"
              \/ ~quiet /\ alertsOn /\ rows[k].inc \notin muted
    OBVIOUS
  <2>1. ASSUME NEW j \in RowIds, Attempt(j)
        PROVE  ~quiet /\ alertsOn /\ rows[k].inc \notin muted
    <3>1. Counted({j}) /\ (mails'[j] # mails[j] => alertsOn /\ ~quiet /\ rows[j].inc \notin muted)
      BY <2>1, DecidesIs DEF Attempt
    <3>. QED
      BY <3>1 DEF Counted
  <2>2. ASSUME NEW j \in RowIds, RetryRow(j) PROVE k \in retrying
    <3>1. Counted({j}) /\ j \in retrying
      BY <2>2, RetryIs DEF RetryRow
    <3>. QED
      BY <3>1 DEF Counted
  <2>3. ASSUME NEW j \in RowIds, ThreadStops(j)
        PROVE  ~quiet /\ alertsOn /\ rows[k].inc \notin muted
    BY <2>3, ThreadStopsIs
  <2>4. CASE SendDailyDigest
    <3>1. ~quiet /\ Counted({j \in RowIds : rows[j].status = "DIGEST"})
      BY <2>4, DigestIs DEF SendDailyDigest
    <3>. QED
      BY <3>1 DEF Counted
  <2>5. CASE WorkerStops
    BY <2>5, WorkerStopsIs
  <2>6. CASE RetryFailedNotifications \/ StartEscalations
    BY <2>6 DEF RetryFailedNotifications, DiscardQueued, StartRetry, StartEscalations, history
  <2>7. ASSUME NEW i \in Incidents,
               \/ OpenIncident(i) \/ ResolveByCheck(i) \/ MaybeSendReminder(i)
               \/ ResolveManually(i) \/ Reopen(i) \/ Acknowledge(i)
               \/ EscalateNext(i) \/ StampEscalation(i)
        PROVE  FALSE
    BY <2>7 DEF OpenIncident, ResolveByCheck, MaybeSendReminder, ResolveManually, Reopen,
                Acknowledge, EscalateNext, StampEscalation, history
  <2>8. CASE Around
    BY <2>8, AroundIs
  <2>. QED
    BY <2>1, <2>2, <2>3, <2>4, <2>5, <2>6, <2>7, <2>8, StepCases
<1>. QED
  BY <1>1, TypeCorrect, PTL DEF Spec, MailHeldBack

\* Of a row that is not loose: while its first attempt is to come it is
\* PENDING and on no list, and while it is on the worker's list it is queued.
InOneHand ==
  \A k \in RowIds \ loose :
    /\ k \in drafts => k \notin retrying /\ rows[k].status = "PENDING"
    /\ k \in retrying => rows[k].status \in Queued

LEMMA InOneHandStays ==
  ASSUME TypeOK, InOneHand, [Next]_vars
  PROVE  InOneHand'
<1>1. /\ Len(rows) \in Nat /\ RowIds = 1 .. Len(rows) /\ RowIds' = 1 .. Len(rows')
      /\ RowIds \subseteq RowIds' /\ drafts \subseteq RowIds /\ retrying \subseteq RowIds
  BY NextEffects, RowsStay, Typed
<1>2. ASSUME Kept, loose \subseteq loose', drafts' \subseteq drafts, retrying' \subseteq retrying,
             \A k \in RowIds \ loose' : k \in drafts' \/ k \in retrying' => rows'[k] = rows[k]
      PROVE  InOneHand'
  <2>1. RowIds' = RowIds
    BY <1>1, <1>2 DEF Kept
  <2>. QED
    BY <1>2, <2>1 DEF InOneHand
<1>3. ASSUME NEW i, NEW type, Grown(i, type), UNCHANGED <<retrying, loose>>
      PROVE  InOneHand'
  <2>1. RowIds' = RowIds \cup {Len(rows) + 1} /\ Len(rows) + 1 \notin retrying'
    BY <1>1, <1>3 DEF Grown
  <2>2. ASSUME NEW k \in RowIds \ loose
        PROVE  /\ k \in drafts' => k \notin retrying' /\ rows'[k].status = "PENDING"
               /\ k \in retrying' => rows'[k].status \in Queued
    <3>1. rows'[k] = rows[k] /\ (k \in drafts' => k \in drafts)
      BY <1>1, <1>3 DEF Grown
    <3>. QED
      BY <1>3, <3>1 DEF InOneHand
  <2>3. rows'[Len(rows) + 1].status = "PENDING"
    BY <1>3 DEF Grown
  <2>. QED
    BY <1>3, <2>1, <2>2, <2>3 DEF InOneHand
<1>4. ASSUME NEW k \in RowIds, Attempt(k) PROVE InOneHand'
  <2>1. Kept /\ Counted({k}) /\ \A j \in RowIds \ {k} : rows'[j] = rows[j]
    BY <1>4, DecidesIs DEF Attempt
  <2>2. k \in drafts /\ drafts' = drafts \ {k} /\ retrying' = retrying
    BY <1>4 DEF Attempt, worker
  <2>3. k \notin loose' => k \notin retrying'
    BY <2>1, <2>2 DEF Counted, InOneHand
  <2>. QED
    BY <1>2, <2>1, <2>2, <2>3 DEF Counted
<1>5. ASSUME NEW k \in RowIds, RetryRow(k) PROVE InOneHand'
  <2>1. Kept /\ Counted({k}) /\ \A j \in RowIds \ {k} : rows'[j] = rows[j]
    BY <1>5, RetryIs
  <2>2. k \in retrying /\ drafts' = drafts /\ retrying' = retrying \ {k}
    BY <1>5 DEF RetryRow
  <2>3. k \notin loose' => k \notin drafts'
    BY <2>1, <2>2 DEF Counted, InOneHand
  <2>. QED
    BY <1>2, <2>1, <2>2, <2>3 DEF Counted
<1>6. CASE DiscardQueued
  <2>. DEFINE queued == {k \in RowIds : rows[k].status \in Queued}
  <2>1. /\ rows' = [k \in RowIds |->
             IF k \in queued THEN [rows[k] EXCEPT !.status = "SUPPRESSED"] ELSE rows[k]]
        /\ loose' = loose \cup (queued \cap drafts)
        /\ retrying = {} /\ UNCHANGED <<drafts, retrying>>
    BY <1>6 DEF DiscardQueued, WorkerFree, worker
  <2>2. "SUPPRESSED" \in Statuses
    BY DEF Statuses
  <2>3. \A k \in RowIds \ loose' : k \notin drafts
    BY <2>1 DEF InOneHand, Queued
  <2>. HIDE DEF queued
  <2>4. Kept
    BY <2>1, <2>2, MarkKeeps
  <2>. QED
    BY <1>2, <2>1, <2>3, <2>4
<1>7. CASE StartRetry
  <2>1. /\ UNCHANGED <<rows, drafts>> /\ retrying' = Retryable
        /\ loose' = loose \cup (Retryable \cap drafts)
    BY <1>7 DEF StartRetry
  <2>2. RowIds' = RowIds
    BY <2>1 DEF RowIds
  <2>. QED
    BY <2>1, <2>2 DEF InOneHand, Retryable
<1>8. CASE SendDailyDigest
  <2>. DEFINE waiting == {k \in RowIds : rows[k].status = "DIGEST"}
  <2>1. Kept /\ Counted(waiting) /\ \A k \in RowIds : k \notin waiting => rows'[k] = rows[k]
    BY <1>8, DigestIs
  <2>2. retrying = {} /\ UNCHANGED <<drafts, retrying>>
    BY <1>8 DEF SendDailyDigest, WorkerFree, worker
  <2>3. \A k \in RowIds \ loose' : k \in drafts' => k \notin waiting
    BY <2>1, <2>2 DEF Counted, InOneHand
  <2>. HIDE DEF waiting
  <2>. QED
    BY <1>2, <2>1, <2>2, <2>3 DEF Counted
<1>9. ASSUME NEW i \in Incidents, EscalateNext(i) PROVE InOneHand'
  <2>1. UNCHANGED <<retrying, loose>>
    BY <1>9 DEF EscalateNext, history
  <2>2. CASE Writes(i, "ESCALATION")
    <3>1. "ESCALATION" \in Types
      BY DEF Types
    <3>. QED
      BY <1>3, <2>1, <2>2, <3>1, WritesGrow
  <2>3. CASE UNCHANGED <<rows, drafts>>
    <3>1. Kept
      BY <2>3 DEF Kept, TypeOK
    <3>. QED
      BY <1>2, <2>1, <2>3, <3>1
  <2>. QED
    BY <1>9, <2>2, <2>3 DEF EscalateNext
<1>10. ASSUME NEW i \in Incidents,
              \/ OpenIncident(i) \/ ResolveByCheck(i) \/ MaybeSendReminder(i)
              \/ ResolveManually(i) \/ Reopen(i) \/ Acknowledge(i)
       PROVE  InOneHand'
  <2>1. {"DOWN", "RECOVERY", "REMINDER"} \subseteq Types
    BY DEF Types
  <2>2. /\ UNCHANGED <<retrying, loose>>
        /\ \/ UNCHANGED <<rows, drafts>>
           \/ Writes(i, "DOWN") \/ Writes(i, "RECOVERY") \/ Writes(i, "REMINDER")
    BY <1>10 DEF OpenIncident, ResolveByCheck, MaybeSendReminder, ResolveManually, Reopen,
                 Acknowledge, worker, history
  <2>3. CASE UNCHANGED <<rows, drafts>>
    <3>1. Kept
      BY <2>3 DEF Kept, TypeOK
    <3>. QED
      BY <1>2, <2>2, <2>3, <3>1
  <2>. QED
    BY <1>3, <2>1, <2>2, <2>3, WritesGrow
<1>11. ASSUME UNCHANGED rows, drafts' \subseteq drafts, retrying' \subseteq retrying,
              loose \subseteq loose'
       PROVE  InOneHand'
  <2>1. Kept
    BY <1>11 DEF Kept, TypeOK
  <2>. QED
    BY <1>2, <1>11, <2>1
<1>12. ASSUME NEW i \in Incidents, StampEscalation(i) PROVE InOneHand'
  BY <1>11, <1>12 DEF StampEscalation, history
<1>13. ASSUME NEW k \in RowIds, ThreadStops(k) PROVE InOneHand'
  BY <1>11, <1>13, ThreadStopsIs DEF ThreadStops, worker, Counted
<1>14. CASE StartEscalations
  BY <1>11, <1>14 DEF StartEscalations, history
<1>15. CASE WorkerStops
  BY <1>11, <1>15, WorkerStopsIs DEF WorkerStops, Counted
<1>16. CASE Around
  BY <1>11, <1>16, AroundIs
<1>. QED
  BY <1>4, <1>5, <1>6, <1>7, <1>8, <1>9, <1>10, <1>12, <1>13, <1>14, <1>15, <1>16, StepCases
     DEF RetryFailedNotifications

\* A row that was mailed or discarded stays so and is not mailed again, unless
\* two threads had it in hand or its mail went out unrecorded. It rests on
\* InOneHand: without either, a row on the worker's list is still queued when
\* its turn comes. (notification_service 146-205, 435-472, 495-547)
THEOREM RepeatsAreOnlyRaces == Spec => RepeatsAreRaces
<1>. DEFINE A == \A k \in RowIds : k \notin loose' /\ rows[k].status \in {"SENT", "SUPPRESSED"} =>
                   rows'[k] = rows[k] /\ mails'[k] = mails[k]
<1>1. TypeOK /\ InOneHand /\ [Next]_vars => [A]_vars
  <2>. SUFFICES ASSUME TypeOK, InOneHand, [Next]_vars, NEW k \in RowIds, k \notin loose',
                       rows[k].status \in {"SENT", "SUPPRESSED"}
       PROVE  rows'[k] = rows[k] /\ mails'[k] = mails[k]
    OBVIOUS
  <2>1. k \in 1 .. MaxRows /\ RowIds \subseteq 1 .. MaxRows
    BY Typed
  <2>2. k \notin loose => k \notin drafts /\ k \notin retrying
    BY DEF InOneHand, Queued
  <2>3. ASSUME NEW j \in RowIds, Attempt(j) PROVE rows'[k] = rows[k] /\ mails'[k] = mails[k]
    <3>1. Counted({j}) /\ j \in drafts /\ \A h \in RowIds \ {j} : rows'[h] = rows[h]
      BY <2>3, DecidesIs DEF Attempt
    <3>. QED
      BY <2>1, <2>2, <3>1 DEF Counted
  <2>4. ASSUME NEW j \in RowIds, RetryRow(j) PROVE rows'[k] = rows[k] /\ mails'[k] = mails[k]
    <3>1. Counted({j}) /\ j \in retrying /\ \A h \in RowIds \ {j} : rows'[h] = rows[h]
      BY <2>4, RetryIs DEF RetryRow
    <3>. QED
      BY <2>1, <2>2, <3>1 DEF Counted
  <2>5. ASSUME NEW j \in RowIds, ThreadStops(j) PROVE rows'[k] = rows[k] /\ mails'[k] = mails[k]
    <3>1. UNCHANGED rows
      BY <2>5 DEF ThreadStops
    <3>. QED
      BY <2>1, <2>5, <3>1, ThreadStopsIs
  <2>6. CASE SendDailyDigest
    <3>. DEFINE waiting == {j \in RowIds : rows[j].status = "DIGEST"}
    <3>1. Counted(waiting) /\ (k \notin waiting => rows'[k] = rows[k])
      BY <2>6, DigestIs
    <3>. QED
      BY <2>1, <3>1 DEF Counted
  <2>7. CASE WorkerStops
    <3>1. UNCHANGED rows
      BY <2>7 DEF WorkerStops
    <3>. QED
      BY <2>1, <2>7, <3>1, WorkerStopsIs
  <2>8. CASE DiscardQueued
    <3>. DEFINE queued == {j \in RowIds : rows[j].status \in Queued}
    <3>1. /\ rows' = [j \in RowIds |->
               IF j \in queued THEN [rows[j] EXCEPT !.status = "SUPPRESSED"] ELSE rows[j]]
          /\ UNCHANGED mails
      BY <2>8 DEF DiscardQueued
    <3>2. k \notin queued
      BY DEF Queued
    <3>. QED
      BY <3>1, <3>2
  <2>9. ASSUME UNCHANGED mails, \A j \in RowIds : rows'[j] = rows[j]
        PROVE  rows'[k] = rows[k] /\ mails'[k] = mails[k]
    BY <2>9
  <2>10. CASE StartRetry \/ StartEscalations
    BY <2>9, <2>10 DEF StartRetry, StartEscalations, history
  <2>11. ASSUME NEW i \in Incidents,
                \/ OpenIncident(i) \/ ResolveByCheck(i) \/ MaybeSendReminder(i)
                \/ ResolveManually(i) \/ Reopen(i) \/ Acknowledge(i)
                \/ EscalateNext(i) \/ StampEscalation(i)
         PROVE  rows'[k] = rows[k] /\ mails'[k] = mails[k]
    <3>1. Types = {"DOWN", "RECOVERY", "REMINDER", "ESCALATION"}
      BY DEF Types
    <3>2. UNCHANGED mails
      BY <2>11 DEF OpenIncident, ResolveByCheck, MaybeSendReminder, ResolveManually, Reopen,
                   Acknowledge, EscalateNext, StampEscalation, history
    <3>3. UNCHANGED rows \/ \E type \in Types : Writes(i, type)
      BY <2>11, <3>1 DEF OpenIncident, ResolveByCheck, MaybeSendReminder, ResolveManually, Reopen,
                   Acknowledge, EscalateNext, StampEscalation
    <3>. QED
      BY <2>9, <3>2, <3>3, WritesGrow DEF Grown
  <2>12. CASE Around
    BY <2>9, <2>12, AroundIs
  <2>. QED
    BY <2>3, <2>4, <2>5, <2>6, <2>7, <2>8, <2>10, <2>11, <2>12, StepCases
       DEF RetryFailedNotifications
<1>2. Init => InOneHand
  BY DEF Init, InOneHand
<1>3. TypeOK /\ InOneHand /\ [Next]_vars => InOneHand'
  BY InOneHandStays
<1>. QED
  BY <1>1, <1>2, <1>3, TypeCorrect, PTL DEF Spec, RepeatsAreRaces

-----------------------------------------------------------------------------
(* AlertPolicy: who is mailed, and when.                                   *)

\* Every severity has a rank, and its rank tells it from the others.
LEMMA Ranks ==
  /\ \A s \in Severities : Rank[s] \in 1 .. 4
  /\ Rank["LOW"] = 1 /\ Rank["MEDIUM"] = 2 /\ Rank["HIGH"] = 3 /\ Rank["CRITICAL"] = 4
BY DEF Severities, Rank

\* A rank is a number, and that of a severity worth waking for is high.
LEMMA RankIsNumber ==
  ASSUME NEW s \in Severities
  PROVE  /\ Rank[s] \in Int
         /\ Rank[s] >= 3 => s # "MEDIUM"
BY Ranks

\* What reaches the bound is not below what stays under it.
LEMMA NotBelow ==
  \A x, y \in Int : x >= 3 /\ y <= 3 => ~(x < y)
OBVIOUS

\* How loud each answer is.
LEMMA Loud ==
  /\ Loudness["NONE"] = 0 /\ Loudness["DIGEST"] = 1 /\ Loudness["EMAIL"] = 2
BY DEF Loudness

\* Whatever the setting says, it is read as one of the known answers.
LEMMA Known ==
  ASSUME NEW setting
  PROVE  /\ Action(setting) \in {"EMAIL", "DIGEST", "NONE"}
         /\ Minimum(setting) \in Severities
BY DEF Action, Minimum, Severities

\* Worse is never quieter. (alert_policy 110-120)
THEOREM WorseIsNeverQuieter ==
  ASSUME NEW policy
  PROVE  NeverQuieter(policy)
<1> DEFINE Bare(s) == Action(policy.route[s])
           Limit == Rank[Minimum(policy.minimum)]
<1> SUFFICES ASSUME NEW s \in Severities, NEW t \in Severities, NEW inHours \in BOOLEAN,
                    Rank[s] <= Rank[t],
                    \A a, b \in Severities :
                      Rank[a] <= Rank[b] => Loudness[Bare(a)] <= Loudness[Bare(b)]
             PROVE  Loudness[Route(policy, s, inHours)] <= Loudness[Route(policy, t, inHours)]
  BY DEF NeverQuieter
<1>1. Loudness[Bare(s)] <= Loudness[Bare(t)]
  OBVIOUS
<1>2. /\ Bare(s) \in {"EMAIL", "DIGEST", "NONE"}
      /\ Bare(t) \in {"EMAIL", "DIGEST", "NONE"}
      /\ Minimum(policy.minimum) \in Severities
  BY Known
<1>3. /\ Limit \in Int /\ Rank[s] \in Int /\ Rank[t] \in Int
  BY <1>2, Ranks
<1> DEFINE Held(x) == Bare(x) = "EMAIL" /\ ~inHours /\ Rank[x] < Limit
<1>4. /\ Route(policy, s, inHours) = IF Held(s) THEN "DIGEST" ELSE Bare(s)
      /\ Route(policy, t, inHours) = IF Held(t) THEN "DIGEST" ELSE Bare(t)
  BY DEF Route
<1>5. CASE Held(t)
  <2>1. Bare(s) = "EMAIL" => Held(s)
    BY <1>5, <1>3
  <2> QED
    BY <2>1, <1>2, <1>4, <1>5, Loud
<1>6. CASE ~Held(t)
  BY <1>1, <1>2, <1>4, <1>6, Loud
<1> QED
  BY <1>5, <1>6

\* A window and the one turned round share their ends and leave out no
\* minute. (alert_policy 93-107)
THEOREM HoursLeaveNoMinuteOut ==
  ASSUME NEW from \in Int, NEW to \in Int, NEW minute \in Int
  PROVE  HoursAndNights(<<from, to>>, minute)
BY DEF HoursAndNights, InSupportHours, Always

\* Whom the on-call list hears of in place of the usual one is mailed about
\* at once, if the policy mails it at all.
LEMMA WorthWaking ==
  ASSUME NEW policy, NEW severity \in Severities,
         Recipients(policy, severity, FALSE) = "on call",
         Action(policy.route[severity]) = "EMAIL",
         Rank[Minimum(policy.minimum)] <= 3
  PROVE  /\ Route(policy, severity, FALSE) = "EMAIL"
         /\ severity # "MEDIUM"
<1> DEFINE minimum == Minimum(policy.minimum)
<1>1. minimum \in Severities
  BY Known
<1> HIDE DEF minimum
<1>2. Rank[severity] >= 3
  BY Ranks DEF Recipients
<1>3. Rank[severity] \in Int /\ Rank[minimum] \in Int
  BY <1>1, RankIsNumber
<1>4. Rank[minimum] <= 3
  BY DEF minimum
<1>5. ~(Rank[severity] < Rank[minimum])
  BY <1>2, <1>3, <1>4, NotBelow, Zenon
<1>6. Route(policy, severity, FALSE) = "EMAIL"
  BY <1>5 DEF Route, minimum
<1>7. severity # "MEDIUM"
  BY <1>2, RankIsNumber
<1> QED
  BY <1>6, <1>7

\* Every incident has a severity, and a component's is never above medium.
LEMMA Severity ==
  ASSUME NEW kind \in {"REACHABILITY", "COMPONENT", "RESOURCE"}, NEW critical \in BOOLEAN,
         NEW entity \in [critical : BOOLEAN, production : BOOLEAN]
  PROVE  LET severity == SeverityOf([kind |-> kind, critical |-> critical], entity)
         IN  /\ severity \in Severities
             /\ kind = "COMPONENT" => severity = "MEDIUM"
BY DEF SeverityOf, Severities

\* Those on call hear at once of what is worth waking them for.
\* (alert_policy 49-75, 110-135)
THEOREM OnCallHearsAtOnce ==
  ASSUME NEW policy
  PROVE  OnCallHears(policy)
BY Ranks, Severity, WorthWaking DEF OnCallHears
=============================================================================
