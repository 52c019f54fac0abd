------------------------------ MODULE Capacity ------------------------------
(***************************************************************************)
(* The disk forecast (capacity_service): readings of the disk's percentage *)
(* stored at most once an hour, the growth between the ends of a window of *)
(* days, and the days until the disk is full at that rate.                 *)
(*                                                                         *)
(* Times are hours, percentages integers. A reading is [at, percent].      *)
(***************************************************************************)
EXTENDS Integers, Sequences, SequencesExt

CONSTANT WindowDays  \* WINDOW_DAYS

DayHours == 24
MaxForecastDays == 365
NoForecast == -1  \* None, or a disk that does not fill

\* record_disk_reading: whatever the server row says now, however old that is.
WithReading(readings, now, percent) ==
  IF percent = NoForecast \/ (readings # << >> /\ now - Last(readings).at < 1)
  THEN readings ELSE Append(readings, [at |-> now, percent |-> percent])

InWindow(readings, now) ==
  SelectSeq(readings, LAMBDA r : r.at >= now - WindowDays * DayHours)

\* disk_forecast: days_until_full. Growth is a fraction of the percentage grown
\* over the hours between; less than a twentieth a day is none.
DaysUntilFull(readings, now) ==
  LET rows == InWindow(readings, now)
      hours == Last(rows).at - Head(rows).at
      grown == Last(rows).percent - Head(rows).percent
      left == ((100 - Last(rows).percent) * hours) \div (grown * DayHours)
  IN IF Len(rows) < 2 THEN NoForecast
     ELSE IF hours < DayHours \/ grown * DayHours * 20 < hours THEN NoForecast
     ELSE IF left > MaxForecastDays THEN NoForecast ELSE left

-----------------------------------------------------------------------------
\* A disk that fills by rates that never rise is not full before the day the
\* forecast says: fills[d] is the percentage at the end of day d.
ForecastNotLate(fills, now) ==
  LET readings == [d \in 1 .. now |-> [at |-> d * DayHours, percent |-> fills[d]]]
      days == DaysUntilFull(readings, now * DayHours)
  IN /\ \A d \in 2 .. Len(fills) - 1 : fills[d + 1] - fills[d] <= fills[d] - fills[d - 1]
     /\ days # NoForecast /\ now + days - 1 \in 1 .. Len(fills)
     => fills[now + days - 1] < 100 \/ days = 0
=============================================================================
