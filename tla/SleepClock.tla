----------------------------- MODULE SleepClock -----------------------------
(***************************************************************************)
(* The clock running through a week under one schedule: what GetTimeState  *)
(* (internal/logic/time.go) answers at every tick of it.                   *)
(***************************************************************************)
EXTENDS Schedule

VARIABLES schedule, day, tick
vars == <<schedule, day, tick>>

Init == schedule \in Schedules /\ day \in Weekday /\ tick = 0

\* Time passes.
ClockTick ==
  /\ UNCHANGED schedule
  /\ IF tick + 1 < DayLength THEN tick' = tick + 1 /\ day' = day
     ELSE tick' = 0 /\ day' = (day + 1) % 7

Next == ClockTick
Spec == Init /\ [][Next]_vars

-----------------------------------------------------------------------------
\* The clock keeps to the ticks of a day and the days of a week.
TypeOK == schedule \in Schedules /\ day \in Weekday /\ tick \in Tick

Asleep == ShouldBeAsleep(schedule, day, tick)

(***************************************************************************)
(* A schedule means shifts: one begins at wakeAt on every working day and  *)
(* lasts until the next sleepAt, past midnight and into a day off if need  *)
(* be.  The workload is awake exactly during the shifts.                   *)
(***************************************************************************)
ShiftLength(s) == (s.sleepAt - s.wakeAt) % DayLength

\* The shift that begins on day d is still going on.
OnShiftOf(d) ==
  ((day - d) * DayLength + tick - schedule.wakeAt) % (7 * DayLength)
    < ShiftLength(schedule)

MatchesShifts ==
  ~Asleep <=>
    \E d \in Weekday : IsDayWorking(d, schedule.workingDays) /\ OnShiftOf(d)

(***************************************************************************)
(* GetTimeState's two answers agree: the clock takes the workload from one *)
(* state to the other only at an event, and not before the one announced   *)
(* at the tick before.                                                     *)
(***************************************************************************)
NoMissedFlip ==
  [][Asleep' # Asleep => /\ NextEventIn(schedule, tick) <= 1
                         /\ NextEventIn(schedule, tick') = 0]_vars

(***************************************************************************)
(* The event announced is the nearest one, less than a day ahead, and its  *)
(* label is that of the time of day it falls on.                           *)
(***************************************************************************)
NextEventIsNearest ==
  LET n == NextEventIn(schedule, tick)
      at(t) == (tick + t) % DayLength
      times == {schedule.wakeAt, schedule.sleepAt}
  IN /\ n < DayLength /\ at(n) \in times
     /\ \A t \in 0..(n - 1) : at(t) \notin times
     /\ at(n) = IF NextEvent(schedule, tick) = "Wake" THEN schedule.wakeAt
                ELSE schedule.sleepAt

(***************************************************************************)
(* A working-days range covers the days met walking forward from its first *)
(* day to its last, across the end of the week when it has to.             *)
(***************************************************************************)
RangesWalkForward ==
  \A last \in Weekday :
    {d \in Weekday : IsDayWorking(d, {<<day, last>>})}
      = {(day + k) % 7 : k \in 0..((last - day) % 7)}
=============================================================================
