----------------------- MODULE ServerConditions_proofs -----------------------
(***************************************************************************)
(* That ServerConditions implements Debounce, for all thresholds, reports, *)
(* discoveries and watchlists: each kind of incident opens and closes on   *)
(* an unbroken run of its own judgements, whatever heartbeats, rechecks,   *)
(* failed requests and users do in between.                                *)
(*                                                                         *)
(* The mapping reads a kind's two counters as one run of equal judgements, *)
(* which they are as long as one of them is zero: OneRunAtATime.           *)
(***************************************************************************)
EXTENDS ServerConditions, TLAPS

\* A judgement lengthens one counter of its kind and resets the other.
OneRunAtATime == \A kind \in Kinds : breaches[kind] = 0 \/ clears[kind] = 0

\* The part of the type invariant that the judgements are about; what was
\* measured has no bearing on it.
CountersTyped ==
  /\ breaches \in [Kinds -> 0 .. MaxStreak]
  /\ clears \in [Kinds -> 0 .. MaxStreak]
  /\ incident \in [Kinds -> Row \cup {NoRow}]

Counting == CountersTyped /\ OneRunAtATime

-----------------------------------------------------------------------------
(* The steps, by what they do to the counters and incidents of one kind.   *)

\* Nothing of this kind changes.
Untouched(kind) ==
  /\ breaches'[kind] = breaches[kind] /\ clears'[kind] = clears[kind]
  /\ incident'[kind] = incident[kind]

\* A judgement is counted; the decision is made, or is lost with the request.
Counted(kind, bad) ==
  /\ breaches'[kind] = IF bad THEN Longer(breaches[kind]) ELSE 0
  /\ clears'[kind] = IF bad THEN 0 ELSE Longer(clears[kind])

Opened(kind) ==
  /\ ~incident[kind].open /\ breaches'[kind] >= ToOpen[kind]
  /\ incident'[kind] \in Row /\ incident'[kind].open /\ ~incident'[kind].byUser
Closed(kind) ==
  /\ incident[kind].open /\ clears'[kind] >= ToClose[kind]
  /\ incident'[kind] \in Row /\ ~incident'[kind].open /\ ~incident'[kind].byUser

JudgedAs(kind, bad) ==
  /\ Counted(kind, bad)
  /\ incident'[kind] = incident[kind] \/ Opened(kind) \/ Closed(kind)

\* The counters start afresh.
Reset(kind) ==
  breaches'[kind] = 0 /\ clears'[kind] = 0 /\ incident'[kind] = incident[kind]

\* A user turns the incident.
Turned(kind) ==
  /\ breaches'[kind] = breaches[kind] /\ clears'[kind] = clears[kind]
  /\ incident'[kind] \in Row /\ incident'[kind].byUser
  /\ incident'[kind].open = ~incident[kind].open

Stepped(kind) ==
  \/ Untouched(kind) \/ Reset(kind) \/ Turned(kind)
  \/ \E bad \in BOOLEAN : JudgedAs(kind, bad)

\* A new incident is open and nobody's.
LEMMA NewIncidentIsRow ==
  ASSUME NEW kind \in Kinds
  PROVE  /\ NewIncident(kind) \in Row
         /\ NewIncident(kind).open /\ ~NewIncident(kind).byUser
BY DEF NewIncident, Row

\* There is a row or none, and an open one is a row.
LEMMA RowOrNone ==
  ASSUME CountersTyped, NEW kind \in Kinds
  PROVE  /\ incident[kind] \in Row \/ incident[kind] = NoRow
         /\ incident[kind].open \in BOOLEAN
         /\ incident[kind].open => incident[kind] \in Row
         /\ incident[kind] # NoRow => incident[kind] \in Row
<1>1. incident[kind] \in Row \/ incident[kind] = NoRow
  BY DEF CountersTyped
<1>2. NoRow.open = FALSE
  BY DEF NoRow
<1>3. ASSUME NEW row \in Row PROVE row.open \in BOOLEAN
  BY DEF Row
<1>. QED
  BY <1>1, <1>2, <1>3

\* A streak cut short at its commit, or followed by the decision.
LEMMA CountStep ==
  ASSUME CountersTyped, NEW kind \in Kinds, CountStreaks(kind)
  PROVE  /\ \E bad \in BOOLEAN : Counted(kind, bad)
         /\ \A other \in Kinds \ {kind} :
              breaches'[other] = breaches[other] /\ clears'[other] = clears[other]
<1>1. CASE Problem(kind)
  BY <1>1 DEF CountStreaks, Counted, CountersTyped
<1>2. CASE ~Problem(kind)
  BY <1>2 DEF CountStreaks, Counted, CountersTyped
<1>. QED
  BY <1>1, <1>2

\* A judgement of one kind leaves the other kind as it was.
LEMMA JudgeStep ==
  ASSUME CountersTyped, NEW kind \in Kinds, Judge(kind)
  PROVE  \A k \in Kinds : Stepped(k)
<1>1. PICK bad \in BOOLEAN : Counted(kind, bad)
  BY CountStep DEF Judge
<1>2. \A other \in Kinds \ {kind} :
        breaches'[other] = breaches[other] /\ clears'[other] = clears[other]
  BY CountStep DEF Judge
<1>. DEFINE opens == ~incident[kind].open /\ breaches'[kind] >= ToOpen[kind]
            closes == incident[kind].open /\ clears'[kind] >= ToClose[kind]
            closed == [incident[kind] EXCEPT !.open = FALSE, !.byUser = FALSE]
<1>3. incident' = [incident EXCEPT ![kind] =
        IF opens THEN NewIncident(kind) ELSE IF closes THEN closed ELSE incident[kind]]
  BY DEF Judge, Decide
<1>4. closes => closed \in Row /\ ~closed.open /\ ~closed.byUser
  BY RowOrNone DEF Row
<1>. HIDE DEF closed
<1>5. \A other \in Kinds \ {kind} : incident'[other] = incident[other]
  BY <1>3 DEF CountersTyped
<1>6. incident'[kind] =
        IF opens THEN NewIncident(kind) ELSE IF closes THEN closed ELSE incident[kind]
  BY <1>3 DEF CountersTyped
<1>7. opens => Opened(kind)
  BY <1>6, NewIncidentIsRow DEF Opened
<1>8. ~opens /\ closes => Closed(kind)
  BY <1>4, <1>6 DEF Closed
<1>9. incident'[kind] = incident[kind] \/ Opened(kind) \/ Closed(kind)
  BY <1>6, <1>7, <1>8
<1>10. JudgedAs(kind, bad)
  BY <1>1, <1>9 DEF JudgedAs
<1>. QED
  BY <1>2, <1>5, <1>10 DEF Stepped, Untouched

\* What any step does to any kind.
LEMMA NextStep == ASSUME CountersTyped, [Next]_vars PROVE \A k \in Kinds : Stepped(k)
<1>1. ASSUME UNCHANGED <<breaches, clears, incident>> PROVE \A k \in Kinds : Stepped(k)
  BY <1>1 DEF Stepped, Untouched
<1>2. ASSUME NEW m \in Measurements, NEW d \in Discoveries, NEW restarted \in BOOLEAN,
             RecordHeartbeat(m, d, restarted)
      PROVE  \A k \in Kinds : Stepped(k)
  BY <1>1, <1>2 DEF RecordHeartbeat
<1>3. CASE JudgeResources
  BY <1>3, JudgeStep DEF JudgeResources, Kinds
<1>4. CASE JudgeComponents \/ RecheckComponents
  BY <1>4, JudgeStep DEF JudgeComponents, RecheckComponents, Kinds
<1>5. ASSUME NEW kind \in Kinds, CutShort(kind) PROVE \A k \in Kinds : Stepped(k)
  BY <1>5, CountStep DEF CutShort, Stepped, Untouched, JudgedAs
<1>6. ASSUME NEW watchlist \in Watchlists, SetExpectedComponents(watchlist)
      PROVE  \A k \in Kinds : Stepped(k)
  BY <1>6 DEF SetExpectedComponents, CountersTyped, Kinds, Stepped, Untouched, Reset
<1>7. ASSUME NEW kind \in Kinds, ResolveManually(kind) \/ Reopen(kind)
      PROVE  \A k \in Kinds : Stepped(k)
  <2>. DEFINE closed == [incident[kind] EXCEPT !.open = FALSE, !.byUser = TRUE]
              again == [incident[kind] EXCEPT !.open = TRUE, !.byUser = TRUE]
  <2>1. /\ closed \in Row /\ ~closed.open /\ closed.byUser
        /\ again \in Row /\ again.open /\ again.byUser
        /\ closed.open = FALSE /\ again.open = TRUE
        /\ incident[kind].open \in BOOLEAN
    BY <1>7, RowOrNone DEF ResolveManually, Reopen, Row
  <2>2. \/ incident' = [incident EXCEPT ![kind] = closed] /\ incident[kind].open
        \/ incident' = [incident EXCEPT ![kind] = again] /\ ~incident[kind].open
    BY <1>7 DEF ResolveManually, Reopen
  <2>3. UNCHANGED <<breaches, clears>>
    BY <1>7 DEF ResolveManually, Reopen
  <2>. HIDE DEF closed, again
  <2>4. \/ incident'[kind] = closed /\ incident[kind].open
        \/ incident'[kind] = again /\ ~incident[kind].open
    BY <2>2 DEF CountersTyped
  <2>5. incident'[kind].open = ~incident[kind].open
    <3>1. CASE incident'[kind] = closed /\ incident[kind].open
      <4>1. incident[kind].open = TRUE
        BY <2>1, <3>1
      <4>. QED
        BY <2>1, <3>1, <4>1, Zenon
    <3>2. CASE incident'[kind] = again /\ ~incident[kind].open
      <4>1. incident[kind].open = FALSE
        BY <2>1, <3>2
      <4>. QED
        BY <2>1, <3>2, <4>1, Zenon
    <3>. QED
      BY <2>4, <3>1, <3>2
  <2>6. Turned(kind)
    BY <2>1, <2>3, <2>4, <2>5, Zenon DEF Turned
  <2>7. \A other \in Kinds \ {kind} : Untouched(other)
    BY <2>2, <2>3 DEF Untouched, CountersTyped
  <2>. QED
    BY <2>6, <2>7 DEF Stepped
<1>8. CASE UNCHANGED vars
  BY <1>1, <1>8 DEF vars
<1>. QED
  BY <1>2, <1>3, <1>4, <1>5, <1>6, <1>7, <1>8 DEF Next, UserCloses, UserReopens, UserExpects

-----------------------------------------------------------------------------
(* Type correctness and the one run at a time.                             *)

\* A run grows by one up to its bound.
LEMMA LongerTyped ==
  ASSUME NEW n \in 0 .. MaxStreak
  PROVE  /\ Longer(n) \in 1 .. MaxStreak
         /\ Longer(0) = 1
         /\ Longer(n) = IF n < MaxStreak THEN n + 1 ELSE n
BY DEF Longer, MaxStreak

\* Whatever was found, one of the two streaks is zero after it.
LEMMA StepCounts ==
  ASSUME Counting, NEW k \in Kinds, Stepped(k)
  PROVE  /\ breaches'[k] \in 0 .. MaxStreak /\ clears'[k] \in 0 .. MaxStreak
         /\ breaches'[k] = 0 \/ clears'[k] = 0
         /\ incident'[k] \in Row \cup {NoRow}
<1>1. /\ breaches[k] \in 0 .. MaxStreak /\ clears[k] \in 0 .. MaxStreak
      /\ breaches[k] = 0 \/ clears[k] = 0
      /\ incident[k] \in Row \cup {NoRow}
  BY DEF Counting, CountersTyped, OneRunAtATime
<1>2. 0 \in 0 .. MaxStreak /\ \A n \in 1 .. MaxStreak : n \in 0 .. MaxStreak
  BY DEF MaxStreak
<1>3. CASE Untouched(k) \/ Reset(k) \/ Turned(k)
  BY <1>1, <1>2, <1>3 DEF Untouched, Reset, Turned
<1>4. ASSUME NEW bad \in BOOLEAN, JudgedAs(k, bad)
      PROVE  /\ breaches'[k] \in 0 .. MaxStreak /\ clears'[k] \in 0 .. MaxStreak
             /\ breaches'[k] = 0 \/ clears'[k] = 0
             /\ incident'[k] \in Row \cup {NoRow}
  BY <1>1, <1>2, <1>4, LongerTyped DEF JudgedAs, Counted, Opened, Closed
<1>. QED
  BY <1>3, <1>4 DEF Stepped

\* The counters and rows stay functions on the kinds.
ByKind ==
  /\ breaches = [k \in Kinds |-> breaches[k]]
  /\ clears = [k \in Kinds |-> clears[k]]
  /\ incident = [k \in Kinds |-> incident[k]]

\* The state stays a function of the kind.
LEMMA NextByKind == ASSUME CountersTyped, [Next]_vars PROVE ByKind'
<1>1. ASSUME UNCHANGED <<breaches, clears>>
      PROVE  breaches' = [k \in Kinds |-> breaches'[k]] /\ clears' = [k \in Kinds |-> clears'[k]]
  BY <1>1 DEF CountersTyped
<1>2. ASSUME NEW kind \in Kinds, CountStreaks(kind)
      PROVE  breaches' = [k \in Kinds |-> breaches'[k]] /\ clears' = [k \in Kinds |-> clears'[k]]
  BY <1>2 DEF CountStreaks, CountersTyped
<1>3. ASSUME UNCHANGED incident PROVE incident' = [k \in Kinds |-> incident'[k]]
  BY <1>3 DEF CountersTyped
<1>4. ASSUME NEW kind \in Kinds, NEW row, incident' = [incident EXCEPT ![kind] = row]
      PROVE  incident' = [k \in Kinds |-> incident'[k]]
  BY <1>4 DEF CountersTyped
<1>5. ASSUME NEW kind \in Kinds, Judge(kind) PROVE ByKind'
  BY <1>2, <1>4, <1>5 DEF Judge, Decide, ByKind
<1>6. ASSUME NEW m \in Measurements, NEW d \in Discoveries, NEW restarted \in BOOLEAN,
             RecordHeartbeat(m, d, restarted)
      PROVE  ByKind'
  BY <1>1, <1>3, <1>6 DEF RecordHeartbeat, ByKind
<1>7. CASE JudgeResources \/ JudgeComponents \/ RecheckComponents
  BY <1>5, <1>7 DEF JudgeResources, JudgeComponents, RecheckComponents, Kinds
<1>8. ASSUME NEW kind \in Kinds, CutShort(kind) PROVE ByKind'
  BY <1>2, <1>3, <1>8 DEF CutShort, ByKind
<1>9. ASSUME NEW watchlist \in Watchlists, SetExpectedComponents(watchlist) PROVE ByKind'
  BY <1>3, <1>9 DEF SetExpectedComponents, CountersTyped, ByKind
<1>10. ASSUME NEW kind \in Kinds, ResolveManually(kind) \/ Reopen(kind) PROVE ByKind'
  BY <1>1, <1>4, <1>10 DEF ResolveManually, Reopen, ByKind
<1>11. CASE UNCHANGED vars
  BY <1>1, <1>3, <1>11 DEF vars, ByKind
<1>. QED
  BY <1>6, <1>7, <1>8, <1>9, <1>10, <1>11 DEF Next, UserCloses, UserReopens, UserExpects

\* At the beginning no run is under way.
LEMMA InitCounting == Init => Counting
BY DEF Init, Counting, CountersTyped, OneRunAtATime, MaxStreak

\* In every step.
LEMMA NextCounting == Counting /\ [Next]_vars => Counting'
<1>. SUFFICES ASSUME Counting, [Next]_vars PROVE Counting'
  OBVIOUS
<1>1. \A k \in Kinds :
        /\ breaches'[k] \in 0 .. MaxStreak /\ clears'[k] \in 0 .. MaxStreak
        /\ breaches'[k] = 0 \/ clears'[k] = 0
        /\ incident'[k] \in Row \cup {NoRow}
  BY NextStep, StepCounts DEF Counting
<1>2. ByKind'
  BY NextByKind DEF Counting
<1>3. breaches' \in [Kinds -> 0 .. MaxStreak]
  BY <1>1, <1>2 DEF ByKind
<1>4. clears' \in [Kinds -> 0 .. MaxStreak]
  BY <1>1, <1>2 DEF ByKind
<1>5. incident' \in [Kinds -> Row \cup {NoRow}]
  BY <1>1, <1>2 DEF ByKind
<1>. QED
  BY <1>1, <1>3, <1>4, <1>5 DEF Counting, CountersTyped, OneRunAtATime

\* The invariant under which the mapping is sound.
LEMMA AlwaysCounting == Spec => []Counting
BY InitCounting, NextCounting, PTL DEF Spec

-----------------------------------------------------------------------------
(* The mapping.                                                            *)

Observed(run, next, bad) ==
  next = IF bad = run.bad THEN [bad |-> run.bad, length |-> Longer(run.length)]
         ELSE [bad |-> bad, length |-> 1]

\* A finding that is counted is an observation of the abstract debouncer.
LEMMA MappedJudgement ==
  ASSUME Counting, Counting', NEW k \in Kinds, NEW bad \in BOOLEAN, Counted(k, bad)
  PROVE  Observed(RunOf(k), RunOf(k)', bad)
<1>1. /\ breaches[k] \in 0 .. MaxStreak /\ clears[k] \in 0 .. MaxStreak
      /\ breaches[k] = 0 \/ clears[k] = 0
  BY DEF Counting, CountersTyped, OneRunAtATime
<1>. DEFINE Run(b, n) == [bad |-> b, length |-> n]
<1>2. /\ breaches[k] > 0 => RunOf(k) = Run(TRUE, breaches[k])
      /\ breaches[k] = 0 => RunOf(k) = Run(FALSE, clears[k])
  BY <1>1 DEF RunOf
<1>3. /\ breaches[k] > 0 => RunOf(k).bad = TRUE /\ RunOf(k).length = breaches[k]
      /\ breaches[k] = 0 => RunOf(k).bad = FALSE /\ RunOf(k).length = clears[k]
  BY <1>2
<1>4. CASE bad = TRUE
  <2>1. breaches'[k] = Longer(breaches[k]) /\ breaches'[k] > 0
    BY <1>1, <1>4, LongerTyped DEF Counted, MaxStreak
  <2>2. RunOf(k)' = Run(TRUE, Longer(breaches[k]))
    BY <2>1 DEF RunOf
  <2>. HIDE DEF Run
  <2>3. CASE breaches[k] > 0
    <3>1. RunOf(k).bad = TRUE /\ RunOf(k).length = breaches[k]
      BY <1>3, <2>3
    <3>2. bad = RunOf(k).bad /\ RunOf(k)' = Run(RunOf(k).bad, Longer(RunOf(k).length))
      BY <3>1, <1>4, <2>2
    <3>. QED
      BY <3>2, Zenon DEF Observed, Run
  <2>4. CASE breaches[k] = 0
    <3>1. Longer(breaches[k]) = 1
      BY <2>4, LongerTyped DEF MaxStreak
    <3>. QED
      BY <1>2, <1>3, <1>4, <2>2, <2>4, <3>1, Zenon DEF Observed, Run
  <2>. QED
    BY <1>1, <2>3, <2>4
<1>5. CASE bad = FALSE
  <2>1. RunOf(k)' = Run(FALSE, Longer(clears[k]))
    BY <1>1, <1>5 DEF Counted, RunOf
  <2>. HIDE DEF Run
  <2>2. CASE breaches[k] > 0
    <3>1. Longer(clears[k]) = 1
      BY <1>1, <2>2, LongerTyped DEF MaxStreak
    <3>. QED
      BY <1>2, <1>3, <1>5, <2>1, <2>2, <3>1, Zenon DEF Observed, Run
  <2>3. CASE breaches[k] = 0
    <3>1. RunOf(k).bad = FALSE /\ RunOf(k).length = clears[k]
      BY <1>3, <2>3
    <3>2. bad = RunOf(k).bad /\ RunOf(k)' = Run(RunOf(k).bad, Longer(RunOf(k).length))
      BY <3>1, <1>5, <2>1
    <3>. QED
      BY <3>2, Zenon DEF Observed, Run
  <2>. QED
    BY <1>1, <2>2, <2>3
<1>. QED
  BY <1>4, <1>5

\* Debounce's next step, or a stutter, as the mapping reads it for kind k.
Promised(k) ==
  \/ UNCHANGED <<RunOf(k), incident[k].open, ByUser(k)>>
  \/ \E bad \in BOOLEAN :
       /\ Observed(RunOf(k), RunOf(k)', bad)
       /\ \/ UNCHANGED <<incident[k].open, ByUser(k)>>
          \/ /\ \/ /\ RunOf(k)'.bad /\ RunOf(k)'.length >= ToOpen[k]
                   /\ ~incident[k].open /\ incident'[k].open
                \/ /\ ~RunOf(k)'.bad /\ RunOf(k)'.length >= ToClose[k]
                   /\ incident[k].open /\ ~incident'[k].open
             /\ ~ByUser(k)'
  \/ /\ RunOf(k)' = [bad |-> FALSE, length |-> 0]
     /\ UNCHANGED <<incident[k].open, ByUser(k)>>
  \/ UNCHANGED RunOf(k) /\ incident'[k].open = ~incident[k].open /\ ByUser(k)'

\* A row is no missing row.
LEMMA RowIsSome == \A row \in Row : row # NoRow
BY DEF Row, NoRow

\* A step of a kind is a step of its abstract debouncer, or none.
LEMMA MappedStep ==
  ASSUME Counting, Counting', NEW k \in Kinds, Stepped(k)
  PROVE  Promised(k)
<1>1. CASE Untouched(k)
  BY <1>1 DEF Untouched, RunOf, ByUser, Promised
<1>2. CASE Reset(k)
  <2>1. RunOf(k)' = [bad |-> FALSE, length |-> 0]
    BY <1>2 DEF Reset, RunOf
  <2>2. UNCHANGED <<incident[k].open, ByUser(k)>>
    BY <1>2 DEF Reset, ByUser
  <2>. QED
    BY <2>1, <2>2 DEF Promised
<1>3. CASE Turned(k)
  <2>1. UNCHANGED RunOf(k)
    BY <1>3 DEF Turned, RunOf
  <2>2. ByUser(k)'
    BY <1>3, RowIsSome DEF Turned, ByUser
  <2>. QED
    BY <1>3, <2>1, <2>2 DEF Turned, Promised
<1>4. ASSUME NEW bad \in BOOLEAN, JudgedAs(k, bad) PROVE Promised(k)
  <2>1. Observed(RunOf(k), RunOf(k)', bad)
    BY <1>4, MappedJudgement DEF JudgedAs
  <2>2. /\ breaches'[k] \in 0 .. MaxStreak /\ clears'[k] \in 0 .. MaxStreak
        /\ breaches'[k] = 0 \/ clears'[k] = 0
        /\ ToOpen[k] \in 1 .. 3 /\ ToClose[k] \in 1 .. 3
    BY DEF Counting, CountersTyped, OneRunAtATime, ToOpen, ToClose, Kinds
  <2>3. CASE incident'[k] = incident[k]
    <3>1. UNCHANGED <<incident[k].open, ByUser(k)>>
      BY <2>3 DEF ByUser
    <3>. QED
      BY <2>1, <3>1 DEF Promised
  <2>4. CASE Opened(k)
    <3>. breaches'[k] > 0 /\ breaches'[k] >= ToOpen[k]
      BY <2>2, <2>4 DEF Opened
    <3>. RunOf(k)' = [bad |-> TRUE, length |-> breaches'[k]]
      BY DEF RunOf
    <3>1. RunOf(k)'.bad /\ RunOf(k)'.length >= ToOpen[k]
      OBVIOUS
    <3>2. ~ByUser(k)'
      BY <2>4 DEF Opened, ByUser
    <3>. QED
      BY <2>1, <2>4, <3>1, <3>2 DEF Opened, Promised
  <2>5. CASE Closed(k)
    <3>. breaches'[k] = 0 /\ clears'[k] >= ToClose[k]
      BY <2>2, <2>5 DEF Closed
    <3>. RunOf(k)' = [bad |-> FALSE, length |-> clears'[k]]
      BY DEF RunOf
    <3>1. ~RunOf(k)'.bad /\ RunOf(k)'.length >= ToClose[k]
      OBVIOUS
    <3>2. ~ByUser(k)'
      BY <2>5 DEF Closed, ByUser
    <3>. QED
      BY <2>1, <2>5, <3>1, <3>2 DEF Closed, Promised
  <2>. QED
    BY <1>4, <2>3, <2>4, <2>5 DEF JudgedAs
<1>. QED
  BY <1>1, <1>2, <1>3, <1>4 DEF Stepped

\* A run made longer, as Debounce writes it.
LEMMA LongerRun ==
  ASSUME NEW k \in Kinds
  PROVE  [RunOf(k) EXCEPT !.length = IF @ < MaxStreak THEN @ + 1 ELSE @]
           = [bad |-> RunOf(k).bad, length |-> Longer(RunOf(k).length)]
<1>. PICK b, n : RunOf(k) = [bad |-> b, length |-> n]
  BY DEF RunOf
<1>. QED
  BY DEF Longer

\* The initial states map to the initial state.
LEMMA MappedInit ==
  ASSUME Init, NEW k \in Kinds
  PROVE  /\ RunOf(k) = [bad |-> FALSE, length |-> 0]
         /\ ~incident[k].open /\ ~ByUser(k)
BY DEF Init, RunOf, ByUser, NoRow

\* Each kind opens its incident only on a full run of bad judgements and
\* closes it only on a full run of good ones; runs are broken by a judgement
\* of the other sort and by a new watchlist alone. (server_service 302-331,
\* 437-500)
THEOREM Debounced == Spec => ImplementsDebounce
<1>1. Init => Resources!Init /\ Components!Init
  BY MappedInit DEF Resources!Init, Components!Init, Kinds
<1>2. Counting /\ Counting' /\ [Next]_vars =>
        [Resources!Next]_(Resources!vars) /\ [Components!Next]_(Components!vars)
  <2>. SUFFICES ASSUME Counting, Counting', [Next]_vars
                PROVE  [Resources!Next]_(Resources!vars) /\ [Components!Next]_(Components!vars)
    OBVIOUS
  <2>1. Promised("RESOURCE") /\ Promised("COMPONENT")
    BY NextStep, MappedStep DEF Counting, Kinds
  <2>2. [Resources!Next]_(Resources!vars)
    <3>. DEFINE run == RunOf("RESOURCE")
                open == incident["RESOURCE"].open
                byUser == ByUser("RESOURCE")
    <3>1. CASE UNCHANGED <<run, open, byUser>>
      BY <3>1 DEF Resources!vars
    <3>2. ASSUME NEW bad \in BOOLEAN, Observed(run, run', bad),
                 \/ UNCHANGED <<open, byUser>>
                 \/ (Resources!Opens \/ Resources!Closes) /\ ~byUser'
          PROVE  Resources!Observe(bad)
      <4>1. Resources!LongerRun = [bad |-> run.bad, length |-> Longer(run.length)]
        BY LongerRun DEF Resources!LongerRun, Kinds
      <4>. QED
        BY <3>2, <4>1, Zenon DEF Observed, Resources!Observe, Resources!NewRun
    <3>3. CASE run' = [bad |-> FALSE, length |-> 0] /\ UNCHANGED <<open, byUser>>
      BY <3>3 DEF Resources!Next, Resources!StartAfresh
    <3>4. CASE UNCHANGED run /\ open' = ~open /\ byUser'
      BY <3>4 DEF Resources!Next, Resources!UserDecides
    <3>. QED
      BY <2>1, <3>1, <3>2, <3>3, <3>4, Zenon
        DEF Promised, Resources!Next, Resources!Opens, Resources!Closes
  <2>3. [Components!Next]_(Components!vars)
    <3>. DEFINE run == RunOf("COMPONENT")
                open == incident["COMPONENT"].open
                byUser == ByUser("COMPONENT")
    <3>1. CASE UNCHANGED <<run, open, byUser>>
      BY <3>1 DEF Components!vars
    <3>2. ASSUME NEW bad \in BOOLEAN, Observed(run, run', bad),
                 \/ UNCHANGED <<open, byUser>>
                 \/ (Components!Opens \/ Components!Closes) /\ ~byUser'
          PROVE  Components!Observe(bad)
      <4>1. Components!LongerRun = [bad |-> run.bad, length |-> Longer(run.length)]
        BY LongerRun DEF Components!LongerRun, Kinds
      <4>. QED
        BY <3>2, <4>1, Zenon DEF Observed, Components!Observe, Components!NewRun
    <3>3. CASE run' = [bad |-> FALSE, length |-> 0] /\ UNCHANGED <<open, byUser>>
      BY <3>3 DEF Components!Next, Components!StartAfresh
    <3>4. CASE UNCHANGED run /\ open' = ~open /\ byUser'
      BY <3>4 DEF Components!Next, Components!UserDecides
    <3>. QED
      BY <2>1, <3>1, <3>2, <3>3, <3>4, Zenon
        DEF Promised, Components!Next, Components!Opens, Components!Closes
  <2>. QED
    BY <2>2, <2>3
<1>. QED
  BY <1>1, <1>2, AlwaysCounting, PTL DEF Spec, ImplementsDebounce, Resources!Spec, Components!Spec
=============================================================================
