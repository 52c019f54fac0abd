------------------------------ MODULE Reports ------------------------------
(***************************************************************************)
(* The figures of the reports: what report_service makes of the rows that  *)
(* checks and incidents leave behind, and what the figures promise to      *)
(* each other. A row is never written here; times are days.                *)
(***************************************************************************)
EXTENDS Integers, FiniteSets, FiniteSetsExt

None == -1

InWindow(from, to, time) == from <= time /\ time <= to

\* n / d to the nearest integer, of two equally near ones the even one.
Rounded(n, d) ==
  LET twice == 2 * (n % d)
  IN  n \div d + IF twice > d \/ (twice = d /\ (n \div d) % 2 = 1) THEN 1 ELSE 0

\* A share in hundredths of a percent, as the reports round it.
Share(some, all) == IF all = 0 THEN 0 ELSE Rounded(10000 * some, all)

ChecksIn(checks, from, to) == {c \in checks : InWindow(from, to, c.at)}
Successes(checks) == {c \in checks : c.success}

\* One line of the report, or none: the join drops an application without
\* checks in the window, and one that was deleted. The downtime of an
\* incident still open counts for nothing, the incident itself does.
AvailabilityReport(app, checks, incidents, from, to) ==
  LET seen == ChecksIn(checks, from, to)
      share == Share(Cardinality(Successes(seen)), Cardinality(seen))
      counted == {i \in incidents : InWindow(from, to, i.started)}
      downtime == MapThenSumSet(LAMBDA i : i.duration, {i \in counted : i.status = "RESOLVED"})
      line == [total |-> Cardinality(seen), successful |-> Cardinality(Successes(seen)),
               availability |-> share,
               slaMet |-> IF app.sla = None THEN "no target"
                          ELSE IF share >= app.sla THEN "met" ELSE "missed",
               incidents |-> Cardinality(counted),
               downtime |-> downtime,
               average |-> IF counted = {} THEN 0
                           ELSE Rounded(100 * downtime, Cardinality(counted))]
  IN  IF app.deleted \/ seen = {} THEN {} ELSE {line}

\* A point for each day that has checks.
DailyAvailability(checks, from, to) ==
  LET seen == ChecksIn(checks, from, to)
      OnDay(day) == {c \in seen : c.at = day}
  IN  {[day |-> day, total |-> Cardinality(OnDay(day)),
        availability |-> Share(Cardinality(Successes(OnDay(day))), Cardinality(OnDay(day)))] :
         day \in {c.at : c \in seen}}

FailureFrequency(checks, from, to) == Cardinality({c \in ChecksIn(checks, from, to) : ~c.success})

\* A stage that was not reached, or reached before the one it follows, has
\* no length.
MinutesBetween(earlier, later) ==
  IF earlier = None \/ later = None \/ later < earlier THEN None ELSE later - earlier

\* The mean of the lengths there are, in tenths, and how many there are.
Stage(length) ==
  LET present == {i \in DOMAIN length : length[i] # None}
      total == MapThenSumSet(LAMBDA i : length[i], present)
  IN  [mean |-> IF present = {} THEN None ELSE Rounded(10 * total, Cardinality(present)),
       sample |-> Cardinality(present)]

ResponseMetrics(incidents, from, to) ==
  LET counted == {i \in incidents : InWindow(from, to, i.detected)}
  IN  [incidents |-> Cardinality(counted),
       mttd |-> Stage([i \in counted |-> MinutesBetween(i.started, i.detected)]),
       mtta |-> Stage([i \in counted |-> MinutesBetween(i.detected, i.acknowledged)]),
       mttr |-> Stage([i \in counted |-> MinutesBetween(i.detected, i.resolved)]),
       unacknowledged |-> Cardinality({i \in counted : i.acknowledged = None}),
       unresolved |-> Cardinality({i \in counted : i.resolved = None})]

-----------------------------------------------------------------------------
(* Properties, of the rows of one application.                             *)

\* The chart's days add up to the report's line, which lies between the
\* worst day and the best one; what the line does not count as a success the
\* failure count counts, so the three reports never contradict each other.
ReportsAgree(app, checks, incidents, from, to) ==
  LET days == DailyAvailability(checks, from, to)
  IN  \A line \in AvailabilityReport(app, checks, incidents, from, to) :
        /\ line.total = MapThenSumSet(LAMBDA d : d.total, days)
        /\ line.total - line.successful = FailureFrequency(checks, from, to)
        /\ \E worst, best \in days : worst.availability <= line.availability
                                  /\ line.availability <= best.availability

\* A target is called met or missed wrongly only by the rounding: by less
\* than half a hundredth of a percent.
TargetsJudgedFairly(app, checks, from, to) ==
  LET seen == ChecksIn(checks, from, to)
      good == 10000 * Cardinality(Successes(seen))
      all == Cardinality(seen)
  IN  \A line \in AvailabilityReport(app, checks, {}, from, to) :
        /\ line.slaMet = "met" => 2 * good >= 2 * app.sla * all - all
        /\ line.slaMet = "missed" => 2 * good <= 2 * app.sla * all + all

\* A mean is drawn from the incidents that reached its stage and no others:
\* those resolved after they were detected, whatever became of the rest. An
\* incident resolved before its detection (the clock was set back) is in
\* neither figure, and no mean is below nought.
SamplesCount(incidents, from, to) ==
  LET m == ResponseMetrics(incidents, from, to)
      backwards == {i \in incidents :
                      /\ InWindow(from, to, i.detected)
                      /\ i.resolved # None /\ i.resolved < i.detected}
  IN  /\ m.mttr.sample + m.unresolved + Cardinality(backwards) = m.incidents
      /\ m.mtta.sample + m.unacknowledged <= m.incidents
      /\ \A stage \in {m.mttd, m.mtta, m.mttr} :
           (stage.mean = None) = (stage.sample = 0) /\ stage.mean >= None
=============================================================================
