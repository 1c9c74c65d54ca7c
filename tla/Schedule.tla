------------------------------ MODULE Schedule ------------------------------
(***************************************************************************)
(* The schedule of an order (internal/logic/time.go): from the local time, *)
(* whether the workload should sleep now and when the next event is.       *)
(*                                                                         *)
(* A local time is a weekday, 0 for Sunday, and a tick of that day; the    *)
(* offset of the time zone from UTC does not change (no summer time).      *)
(* A working-days string is the set of its comma-separated parts, whose    *)
(* order isDayWorking does not tell apart; a part is the sequence of the   *)
(* days between its dashes, a day its number or -1 when parseDay does not  *)
(* know it; the empty string is the empty set.                             *)
(***************************************************************************)
EXTENDS Integers, Sequences

CONSTANTS
  DayLength,  \* ticks in a day
  Schedules   \* the schedules an order may have

Weekday == 0..6
Tick == 0..(DayLength - 1)

ASSUME ScheduleAssumption ==
  /\ DayLength \in Nat \ {0}
  /\ \A s \in Schedules : s.wakeAt \in Tick /\ s.sleepAt \in Tick

-----------------------------------------------------------------------------
(* isDayWorking                                                            *)

\* Mutant: a range never wraps around the end of the week.
PartNoWrap(part, day) ==
  \/ Len(part) = 1 /\ part[1] = day
  \/ Len(part) = 2 /\ part[1] # -1 /\ part[1] <= day /\ day <= part[2]

\* A part of one day, or of two as a range that may wrap around the week's
\* end; any other part covers nothing.
PartCovers(part, day) ==
  \/ Len(part) = 1 /\ part[1] = day
  \/ /\ Len(part) = 2 /\ part[1] # -1 /\ part[2] # -1
     /\ \/ part[1] <= day /\ day <= part[2]
        \/ part[1] > part[2] /\ (part[1] <= day \/ day <= part[2])

IsDayWorking(day, workingDays) ==
  workingDays = {} \/ \E part \in workingDays : PartCovers(part, day)

Yesterday(day) == (day + 6) % 7

-----------------------------------------------------------------------------
(* GetTimeState                                                            *)

\* Mutant: the morning of an overnight shift belongs to its own day.
ShiftDayToday(s, day, tick) == day

\* The day whose working day decides: in the morning hours of an overnight
\* shift, the day before.
ShiftDay(s, day, tick) ==
  IF s.wakeAt > s.sleepAt /\ tick < s.sleepAt THEN Yesterday(day) ELSE day

\* Mutant: the shift still runs at the very tick it ends.
InHoursClosed(s, tick) ==
  IF s.wakeAt < s.sleepAt THEN s.wakeAt <= tick /\ tick <= s.sleepAt
  ELSE s.wakeAt <= tick \/ tick <= s.sleepAt

InHours(s, tick) ==
  IF s.wakeAt < s.sleepAt THEN s.wakeAt <= tick /\ tick < s.sleepAt
  ELSE s.wakeAt <= tick \/ tick < s.sleepAt

ShouldBeAsleep(s, day, tick) ==
  ~(IsDayWorking(ShiftDay(s, day, tick), s.workingDays) /\ InHours(s, tick))

\* Mutant: a time already past today is moved two days ahead.
NextAtTwoDays(at, tick) ==
  IF at < tick THEN at + 2 * DayLength - tick ELSE at - tick

\* Ticks from now to the next time of day at; now counts.
NextAt(at, tick) == IF at < tick THEN at + DayLength - tick ELSE at - tick

NextEventIn(s, tick) ==
  IF NextAt(s.wakeAt, tick) < NextAt(s.sleepAt, tick)
  THEN NextAt(s.wakeAt, tick) ELSE NextAt(s.sleepAt, tick)

NextEvent(s, tick) ==
  IF NextAt(s.wakeAt, tick) < NextAt(s.sleepAt, tick) THEN "Wake" ELSE "Sleep"
=============================================================================
