-------------------------- MODULE SleepClockProofs --------------------------
(***************************************************************************)
(* GetTimeState follows the shifts and announces every change, for every   *)
(* length of the day and every set of schedules whose two times differ;    *)
(* and what follows for the schedules that policies and configurations     *)
(* give rise to.                                                           *)
(***************************************************************************)
EXTENDS PolicyClock, TLAPS

\* The clock keeps to the ticks of a day and the days of a week.
LEMMA ClockTypes ==
  /\ Init => TypeOK
  /\ TypeOK /\ [Next]_vars => TypeOK'
<1>1. Init => TypeOK
  BY ScheduleAssumption DEF Init, TypeOK, Tick
<1>2. ASSUME TypeOK, [Next]_vars PROVE TypeOK'
  <2>1. CASE UNCHANGED vars
    BY <1>2, <2>1 DEF TypeOK, vars
  <2>2. CASE ClockTick
    <3>1. (day + 1) % 7 \in Weekday
      BY <1>2 DEF TypeOK, Weekday
    <3>2. tick + 1 < DayLength => tick + 1 \in Tick
      BY <1>2, ScheduleAssumption DEF TypeOK, Tick
    <3>3. 0 \in Tick
      BY ScheduleAssumption DEF Tick
    <3> QED BY <1>2, <2>2, <3>1, <3>2, <3>3 DEF ClockTick, TypeOK
  <2> QED BY <1>2, <2>1, <2>2 DEF Next
<1> QED BY <1>1, <1>2

\* At one of its two times an event is due, and a tick before it is announced.
LEMMA EventDue ==
  ASSUME NEW s \in Schedules, NEW t \in Tick, NEW u \in Tick,
         u = t + 1 \/ (t + 1 = DayLength /\ u = 0),
         u \in {s.wakeAt, s.sleepAt}
  PROVE  NextEventIn(s, t) <= 1 /\ NextEventIn(s, u) = 0
<1>1. s.wakeAt \in Tick /\ s.sleepAt \in Tick /\ DayLength \in Nat \ {0}
  BY ScheduleAssumption
<1>2. \A a \in Tick, b \in Tick : NextAt(a, b) \in Nat
  BY <1>1 DEF NextAt, Tick
<1>3. NextAt(u, t) <= 1 /\ NextAt(u, u) = 0
  BY <1>1 DEF NextAt, Tick
<1>4. \A b \in Tick : /\ NextEventIn(s, b) \in Nat
                      /\ NextEventIn(s, b) <= NextAt(s.wakeAt, b)
                      /\ NextEventIn(s, b) <= NextAt(s.sleepAt, b)
  <2> SUFFICES ASSUME NEW b \in Tick
               PROVE  /\ NextEventIn(s, b) \in Nat
                      /\ NextEventIn(s, b) <= NextAt(s.wakeAt, b)
                      /\ NextEventIn(s, b) <= NextAt(s.sleepAt, b)
    OBVIOUS
  <2> DEFINE m == NextAt(s.wakeAt, b)
             n == NextAt(s.sleepAt, b)
  <2>1. m \in Nat /\ n \in Nat
    BY <1>1, <1>2
  <2>2. NextEventIn(s, b) = IF m < n THEN m ELSE n
    BY DEF NextEventIn
  <2> HIDE DEF m, n
  <2>3. NextEventIn(s, b) \in Nat /\ NextEventIn(s, b) <= m
        /\ NextEventIn(s, b) <= n
    BY <2>1, <2>2
  <2> QED BY <2>3 DEF m, n
<1> QED BY <1>3, <1>4, <1>2, <1>1

\* Away from its two times a schedule does not change its mind: not within a
\* day, and not at midnight, where an overnight shift goes on as the shift of
\* the day before.
LEMMA SteadyBetweenEvents ==
  ASSUME TypeOK, ClockTick, schedule.wakeAt # schedule.sleepAt,
         tick' \notin {schedule.wakeAt, schedule.sleepAt}
  PROVE  Asleep' <=> Asleep
<1>1. /\ schedule' = schedule /\ schedule.wakeAt \in Tick
      /\ schedule.sleepAt \in Tick /\ DayLength \in Nat \ {0}
      /\ tick \in Tick /\ day \in Weekday
  BY ScheduleAssumption DEF TypeOK, ClockTick
<1> DEFINE w == schedule.wakeAt
           z == schedule.sleepAt
<1>2. CASE tick' = tick + 1 /\ day' = day
  <2>1. InHours(schedule, tick') <=> InHours(schedule, tick)
    BY <1>1, <1>2 DEF InHours, Tick
  <2>2. ShiftDay(schedule, day', tick') = ShiftDay(schedule, day, tick)
    BY <1>1, <1>2 DEF ShiftDay, Tick
  <2> QED BY <1>1, <2>1, <2>2 DEF Asleep, ShouldBeAsleep
<1>3. CASE tick + 1 >= DayLength /\ tick' = 0 /\ day' = (day + 1) % 7
  <2>1. tick = DayLength - 1
    BY <1>1, <1>3 DEF Tick
  <2>2. w \in Nat /\ z \in Nat /\ w > 0 /\ z > 0
        /\ w <= DayLength - 1 /\ z <= DayLength - 1
    BY <1>1, <1>3 DEF Tick
  <2>3. CASE w < z
    <3>1. ~InHours(schedule, tick') /\ ~InHours(schedule, tick)
      BY <1>1, <1>3, <2>1, <2>2, <2>3 DEF InHours
    <3> QED BY <1>1, <3>1 DEF Asleep, ShouldBeAsleep
  <2>4. CASE w > z
    <3>1. InHours(schedule, tick') /\ InHours(schedule, tick)
      BY <1>1, <1>3, <2>1, <2>2, <2>4 DEF InHours
    <3>2. Yesterday(day') = day
      BY <1>1, <1>3 DEF Yesterday, Weekday
    <3>3. /\ ShiftDay(schedule, day', tick') = day
          /\ ShiftDay(schedule, day, tick) = day
      BY <1>1, <1>3, <2>1, <2>2, <2>4, <3>2 DEF ShiftDay
    <3> QED BY <1>1, <3>1, <3>3 DEF Asleep, ShouldBeAsleep
  <2> QED BY <2>2, <2>3, <2>4
<1> QED BY <1>1, <1>2, <1>3 DEF ClockTick, Tick

(***************************************************************************)
(* When the two times of every schedule differ, GetTimeState changes its   *)
(* mind only at an event it announced, however long the day is and         *)
(* whatever the working days are.                                          *)
(***************************************************************************)
THEOREM ChangesAnnounced ==
  ASSUME \A s \in Schedules : s.wakeAt # s.sleepAt
  PROVE  Spec => NoMissedFlip
<1>1. TypeOK /\ [Next]_vars =>
        [Asleep' # Asleep => /\ NextEventIn(schedule, tick) <= 1
                             /\ NextEventIn(schedule, tick') = 0]_vars
  <2> SUFFICES ASSUME TypeOK, ClockTick, Asleep' # Asleep
               PROVE  /\ NextEventIn(schedule, tick) <= 1
                      /\ NextEventIn(schedule, tick') = 0
    BY DEF Next
  <2>1. schedule \in Schedules /\ tick \in Tick /\ tick' \in Tick
    BY ClockTypes DEF Next, TypeOK
  <2>2. tick' = tick + 1 \/ (tick + 1 = DayLength /\ tick' = 0)
    BY <2>1, ScheduleAssumption DEF ClockTick, Tick
  <2>3. schedule.wakeAt # schedule.sleepAt
    BY <2>1
  <2>4. ~(Asleep' <=> Asleep)
    BY SMT DEF Asleep, ShouldBeAsleep
  <2>5. tick' \in {schedule.wakeAt, schedule.sleepAt}
    BY <2>3, <2>4, SteadyBetweenEvents
  <2> QED BY <2>1, <2>2, <2>5, EventDue
<1> QED BY <1>1, ClockTypes, PTL DEF Spec, NoMissedFlip

\* The next time of day at is the first tick from now on it, within a day.
LEMMA NextAtIsFirst ==
  ASSUME NEW at \in Tick, NEW t \in Tick
  PROVE  /\ NextAt(at, t) \in 0..(DayLength - 1)
         /\ (t + NextAt(at, t)) % DayLength = at
         /\ \A k \in 0..(NextAt(at, t) - 1) : (t + k) % DayLength # at
<1>1. at \in Nat /\ t \in Nat /\ at < DayLength /\ t < DayLength
      /\ DayLength \in Nat
  BY ScheduleAssumption DEF Tick
<1>2. ASSUME NEW x \in Nat, x < DayLength
      PROVE  x % DayLength = x /\ (x + DayLength) % DayLength = x
  BY <1>1, <1>2
<1>3. NextAt(at, t) \in 0..(DayLength - 1)
  BY <1>1 DEF NextAt
<1>4. (t + NextAt(at, t)) % DayLength = at
  BY <1>1, <1>2 DEF NextAt
<1>5. ASSUME NEW k \in 0..(NextAt(at, t) - 1)
      PROVE  (t + k) % DayLength # at
  <2>1. k \in Nat /\ k < NextAt(at, t)
    BY <1>3
  <2>2. CASE t + k < DayLength
    <3>1. (t + k) % DayLength = t + k
      BY <1>1, <1>2, <2>1, <2>2
    <3> QED BY <1>1, <2>1, <2>2, <3>1 DEF NextAt
  <2>3. CASE t + k >= DayLength
    <3> DEFINE x == t + k - DayLength
    <3>1. x \in Nat /\ x < DayLength /\ x + DayLength = t + k
      BY <1>1, <1>3, <2>1, <2>3
    <3>2. (t + k) % DayLength = x
      BY <1>2, <3>1
    <3> QED BY <1>1, <2>1, <2>3, <3>2 DEF NextAt
  <2> QED BY <1>1, <2>1, <2>2, <2>3
<1> QED BY <1>3, <1>4, <1>5

(***************************************************************************)
(* For every length of the day and every set of schedules: the event       *)
(* announced is the nearest one, and its label that of its time of day.    *)
(***************************************************************************)
THEOREM NearestAnnounced == Spec => []NextEventIsNearest
<1>1. TypeOK => NextEventIsNearest
  <2> SUFFICES ASSUME TypeOK PROVE NextEventIsNearest
    OBVIOUS
  <2> DEFINE w == schedule.wakeAt
             z == schedule.sleepAt
             wakes == NextAt(w, tick)
             sleeps == NextAt(z, tick)
             n == NextEventIn(schedule, tick)
  <2>1. w \in Tick /\ z \in Tick /\ tick \in Tick /\ DayLength \in Nat
    BY ScheduleAssumption DEF TypeOK
  <2>2. /\ wakes \in 0..(DayLength - 1) /\ (tick + wakes) % DayLength = w
        /\ \A k \in 0..(wakes - 1) : (tick + k) % DayLength # w
        /\ sleeps \in 0..(DayLength - 1) /\ (tick + sleeps) % DayLength = z
        /\ \A k \in 0..(sleeps - 1) : (tick + k) % DayLength # z
    BY <2>1, NextAtIsFirst
  <2>3. /\ n = IF wakes < sleeps THEN wakes ELSE sleeps
        /\ NextEvent(schedule, tick)
             = IF wakes < sleeps THEN "Wake" ELSE "Sleep"
    BY DEF NextEventIn, NextEvent
  <2> HIDE DEF w, z, wakes, sleeps, n
  <2>4. n < DayLength /\ (tick + n) % DayLength \in {w, z}
    BY <2>1, <2>2, <2>3
  <2>5. \A k \in 0..(n - 1) : (tick + k) % DayLength \notin {w, z}
    <3> TAKE k \in 0..(n - 1)
    <3>1. k \in 0..(wakes - 1) /\ k \in 0..(sleeps - 1)
      BY <2>2, <2>3
    <3> QED BY <2>2, <3>1
  <2>6. (tick + n) % DayLength
          = IF NextEvent(schedule, tick) = "Wake" THEN w ELSE z
    BY <2>2, <2>3
  <2> QED BY <2>4, <2>5, <2>6 DEF NextEventIsNearest, w, z, n
<1> QED BY <1>1, ClockTypes, PTL DEF Spec

(***************************************************************************)
(* A working-days range covers the days met walking forward, whatever the  *)
(* day it begins on.                                                       *)
(***************************************************************************)
THEOREM RangesWalk == Spec => []RangesWalkForward
<1>1. TypeOK => RangesWalkForward
  <2> SUFFICES ASSUME TypeOK, NEW last \in Weekday
               PROVE  {d \in Weekday : IsDayWorking(d, {<<day, last>>})}
                        = {(day + k) % 7 : k \in 0..((last - day) % 7)}
    BY DEF RangesWalkForward
  <2>1. day \in 0..6 /\ last \in 0..6
    BY DEF TypeOK, Weekday
  <2>2. ASSUME NEW d \in Weekday
        PROVE  IsDayWorking(d, {<<day, last>>})
               <=> \/ day <= d /\ d <= last
                   \/ day > last /\ (day <= d \/ d <= last)
    <3>1. IsDayWorking(d, {<<day, last>>}) <=> PartCovers(<<day, last>>, d)
      BY DEF IsDayWorking
    <3>2. PartCovers(<<day, last>>, d)
          <=> \/ day <= d /\ d <= last
              \/ day > last /\ (day <= d \/ d <= last)
      BY <2>1 DEF PartCovers
    <3> QED BY <3>1, <3>2
  <2>3. ASSUME NEW d \in Weekday
        PROVE  (\/ day <= d /\ d <= last
                \/ day > last /\ (day <= d \/ d <= last))
               <=> (d - day) % 7 <= (last - day) % 7
    BY <2>1 DEF Weekday
  <2>4. ASSUME NEW d \in Weekday
        PROVE  (d - day) % 7 \in 0..6 /\ (day + ((d - day) % 7)) % 7 = d
    BY <2>1 DEF Weekday
  <2>5. ASSUME NEW k \in 0..((last - day) % 7)
        PROVE  /\ (day + k) % 7 \in Weekday
               /\ (((day + k) % 7) - day) % 7 = k
    BY <2>1 DEF Weekday
  <2> DEFINE length == (last - day) % 7
             Covers(d) == IsDayWorking(d, {<<day, last>>})
  <2>6. length \in 0..6
    BY <2>1
  <2>7. ASSUME NEW d \in Weekday
        PROVE  Covers(d) <=> (d - day) % 7 <= length
    BY <2>2, <2>3
  <2> HIDE DEF length, Covers
  <2>8. ASSUME NEW d \in Weekday, Covers(d)
        PROVE  \E k \in 0..length : d = (day + k) % 7
    <3> DEFINE k == (d - day) % 7
    <3>1. k \in 0..length
      BY <2>4, <2>6, <2>7, <2>8
    <3>2. d = (day + k) % 7
      BY <2>1 DEF Weekday
    <3> HIDE DEF k
    <3> QED BY <3>1, <3>2
  <2>9. ASSUME NEW k \in 0..length
        PROVE  (day + k) % 7 \in Weekday /\ Covers((day + k) % 7)
    <3>1. (day + k) % 7 \in Weekday /\ (((day + k) % 7) - day) % 7 = k
      BY <2>5, <2>9 DEF length
    <3> QED BY <2>6, <2>7, <3>1
  <2>10. {d \in Weekday : Covers(d)} = {(day + k) % 7 : k \in 0..length}
    BY <2>8, <2>9
  <2> QED BY <2>10 DEF Covers, length
<1> QED BY <1>1, ClockTypes, PTL DEF Spec

-----------------------------------------------------------------------------
(* The shifts.                                                             *)

\* A remainder within one period of zero.
LEMMA NearRemainder ==
  ASSUME NEW n \in Nat, n > 0, NEW x \in Int
  PROVE  /\ 0 <= x /\ x < n => x % n = x
         /\ -n <= x /\ x < 0 => x % n = x + n
OBVIOUS

\* How long the shift of a schedule is.
LEMMA LengthOfShift ==
  ASSUME NEW s \in Schedules, s.wakeAt # s.sleepAt
  PROVE  /\ ShiftLength(s) \in 1..(DayLength - 1)
         /\ ShiftLength(s) = IF s.wakeAt < s.sleepAt THEN s.sleepAt - s.wakeAt
                             ELSE s.sleepAt - s.wakeAt + DayLength
<1> DEFINE x == s.sleepAt - s.wakeAt
<1>1. /\ s.wakeAt \in Nat /\ s.wakeAt < DayLength /\ s.sleepAt \in Nat
      /\ s.sleepAt < DayLength /\ DayLength \in Nat /\ DayLength > 0
  BY ScheduleAssumption DEF Tick
<1>2. x \in Int /\ -DayLength <= x /\ x < DayLength /\ x # 0
  BY <1>1
<1> HIDE DEF x
<1>3. x % DayLength = IF x > 0 THEN x ELSE x + DayLength
  BY <1>1, <1>2, NearRemainder
<1> QED BY <1>1, <1>2, <1>3 DEF ShiftLength, x

\* The shift of day d goes on in that day's own hours after wakeAt, or in the
\* next day's before wakeAt.
LEMMA ShiftOfDay ==
  ASSUME TypeOK, schedule.wakeAt # schedule.sleepAt, NEW d \in Weekday
  PROVE  OnShiftOf(d) <=>
           \/ /\ d = day /\ schedule.wakeAt <= tick
              /\ tick - schedule.wakeAt < ShiftLength(schedule)
           \/ /\ d = Yesterday(day) /\ tick < schedule.wakeAt
              /\ tick - schedule.wakeAt + DayLength < ShiftLength(schedule)
<1> DEFINE e == tick - schedule.wakeAt
           m == DayLength
           length == ShiftLength(schedule)
           c == day - d
<1>1. /\ m \in Nat /\ m > 0 /\ e \in Int /\ -m < e /\ e < m
      /\ length \in Int /\ 0 < length /\ length < m
      /\ tick \in Int /\ schedule.wakeAt \in Int
      /\ day \in 0..6 /\ d \in 0..6 /\ c \in -6..6
  BY ScheduleAssumption, LengthOfShift DEF TypeOK, Tick, Weekday
<1>2. (d = day <=> c = 0) /\ (d = Yesterday(day) <=> c \in {1, -6})
  BY <1>1 DEF Yesterday
<1>3. OnShiftOf(d) <=> (c * m + e) % (7 * m) < length
  <2>1. c * m + e = (day - d) * DayLength + tick - schedule.wakeAt
    BY <1>1
  <2> QED BY <2>1 DEF OnShiftOf
<1>4. schedule.wakeAt <= tick <=> e >= 0
  BY <1>1
<1> HIDE DEF e, m, length, c
<1>5. 7 * m \in Nat /\ 7 * m > 0 /\ 7 * m > 6 * m
  BY <1>1
<1>6. ASSUME NEW k \in 1..6, c = k
      PROVE  (c * m + e) % (7 * m) = k * m + e
  <2>1. c * m + e \in Int /\ 0 <= c * m + e /\ c * m + e < 7 * m
    BY <1>1, <1>6
  <2> QED BY <1>5, <1>6, <2>1, NearRemainder
<1>7. ASSUME NEW k \in 1..6, c = -k
      PROVE  (c * m + e) % (7 * m) = (7 - k) * m + e
  <2>1. c * m + e \in Int /\ -(7 * m) <= c * m + e /\ c * m + e < 0
        /\ c * m + e + 7 * m = (7 - k) * m + e
    BY <1>1, <1>7
  <2> QED BY <1>5, <2>1, NearRemainder
<1>8. ASSUME c = 0
      PROVE  (c * m + e) % (7 * m) = IF e >= 0 THEN e ELSE 7 * m + e
  <2>1. c * m + e = e
    BY <1>1, <1>8
  <2> QED BY <1>1, <1>5, <2>1, NearRemainder
<1>9. (c * m + e) % (7 * m) < length
      <=> (c = 0 /\ e >= 0 /\ e < length)
          \/ (c \in {1, -6} /\ e < 0 /\ e + m < length)
  <2>1. CASE c = 0
    BY <1>1, <1>5, <1>8, <2>1
  <2>2. ASSUME NEW k \in 1..6, c = k \/ c = k - 7
        PROVE  (c * m + e) % (7 * m) = k * m + e
    <3>1. 7 - k \in 1..6 /\ (c = k - 7 => c = -(7 - k)) /\ 7 - (7 - k) = k
      OBVIOUS
    <3> QED BY <1>6, <1>7, <2>2, <3>1
  <2>3. CASE c \in {1, -6}
    BY <1>1, <2>2, <2>3
  <2>4. ASSUME NEW k \in 2..6, c = k \/ c = k - 7
        PROVE  (c * m + e) % (7 * m) > length
    <3>1. k * m + e > length
      BY <1>1
    <3> QED BY <2>2, <2>4, <3>1
  <2>5. CASE \E k \in 2..6 : c = k \/ c = k - 7
    <3>1. (c * m + e) % (7 * m) > length /\ c # 0 /\ c \notin {1, -6}
      BY <2>4, <2>5
    <3>2. (c * m + e) % (7 * m) \in Int
      BY <1>1, <1>5
    <3> QED BY <1>1, <3>1, <3>2
  <2>6. \/ c = 0 \/ c \in {1, -6}
        \/ \E k \in 2..6 : c = k \/ c = k - 7
    <3>1. c \in 2..6 \/ c + 7 \in 2..6 \/ c \in {0, 1, -6}
      BY <1>1
    <3> QED BY <1>1, <3>1
  <2> QED BY <2>1, <2>3, <2>5, <2>6
<1> QED BY <1>1, <1>2, <1>3, <1>4, <1>9 DEF e, m, length

(***************************************************************************)
(* For every length of the day, every working days and all schedules whose *)
(* two times differ: the workload is awake exactly during the shifts that  *)
(* begin on its working days.                                              *)
(***************************************************************************)
THEOREM ShiftsAreMatched ==
  ASSUME \A s \in Schedules : s.wakeAt # s.sleepAt
  PROVE  Spec => []MatchesShifts
<1>1. TypeOK => MatchesShifts
  <2> SUFFICES ASSUME TypeOK PROVE MatchesShifts
    OBVIOUS
  <2> DEFINE w == schedule.wakeAt
             z == schedule.sleepAt
             Works(d) == IsDayWorking(d, schedule.workingDays)
             length == ShiftLength(schedule)
  <2>1. /\ w \in Nat /\ w < DayLength /\ z \in Nat /\ z < DayLength
        /\ tick \in Nat /\ tick < DayLength /\ DayLength \in Nat
        /\ w # z /\ schedule \in Schedules
    BY ScheduleAssumption DEF TypeOK, Tick
  <2>2. day \in Weekday /\ Yesterday(day) \in Weekday
        /\ Yesterday(day) # day
    BY DEF TypeOK, Weekday, Yesterday
  <2>3. length = IF w < z THEN z - w ELSE z - w + DayLength
    BY <2>1, LengthOfShift
  <2>4. OnShiftOf(day) <=> w <= tick /\ tick - w < length
    BY <2>1, <2>2, ShiftOfDay
  <2>5. OnShiftOf(Yesterday(day))
          <=> tick < w /\ tick - w + DayLength < length
    BY <2>1, <2>2, ShiftOfDay
  <2>6. ASSUME NEW d \in Weekday, OnShiftOf(d)
        PROVE  d \in {day, Yesterday(day)}
    BY <2>1, <2>6, ShiftOfDay
  <2>7. ~Asleep <=> Works(ShiftDay(schedule, day, tick))
                    /\ InHours(schedule, tick)
    BY DEF Asleep, ShouldBeAsleep
  <2>8. (\E d \in Weekday : Works(d) /\ OnShiftOf(d))
        <=> \/ Works(day) /\ OnShiftOf(day)
            \/ Works(Yesterday(day)) /\ OnShiftOf(Yesterday(day))
    BY <2>2, <2>6
  <2> HIDE DEF Works, length, w, z
  <2>9. CASE w < z
    <3>1. OnShiftOf(day) <=> w <= tick /\ tick < z
      BY <2>1, <2>3, <2>4, <2>9
    <3>2. ~OnShiftOf(Yesterday(day))
      BY <2>1, <2>3, <2>5, <2>9
    <3>3. /\ ShiftDay(schedule, day, tick) = day
          /\ InHours(schedule, tick) <=> w <= tick /\ tick < z
      BY <2>1, <2>9 DEF ShiftDay, InHours, w, z
    <3> QED BY <2>7, <2>8, <3>1, <3>2, <3>3 DEF MatchesShifts, Works
  <2>10. CASE w > z
    <3>1. OnShiftOf(day) <=> w <= tick
      BY <2>1, <2>3, <2>4, <2>10
    <3>2. OnShiftOf(Yesterday(day)) <=> tick < z
      BY <2>1, <2>3, <2>5, <2>10
    <3>3. /\ ShiftDay(schedule, day, tick)
               = IF tick < z THEN Yesterday(day) ELSE day
          /\ InHours(schedule, tick) <=> w <= tick \/ tick < z
      BY <2>1, <2>10 DEF ShiftDay, InHours, w, z
    <3>4. ~(w <= tick /\ tick < z)
      BY <2>1, <2>10
    <3> QED BY <2>7, <2>8, <3>1, <3>2, <3>3, <3>4 DEF MatchesShifts, Works
  <2> QED BY <2>1, <2>9, <2>10
<1> QED BY <1>1, ClockTypes, PTL DEF Spec

-----------------------------------------------------------------------------
(* The schedules of policies.                                              *)

\* A list of single days means those days, unless it is empty.
LEMMA ListOfDays ==
  ASSUME NEW days \in SUBSET Weekday, days # {}, NEW d \in Weekday
  PROVE  IsDayWorking(d, {<<e>> : e \in days}) <=> d \in days
<1>1. \A e \in days : PartCovers(<<e>>, d) <=> d = e
  BY DEF PartCovers
<1>2. {<<e>> : e \in days} # {}
  OBVIOUS
<1>3. IsDayWorking(d, {<<e>> : e \in days})
      <=> \E e \in days : PartCovers(<<e>>, d)
  BY <1>2 DEF IsDayWorking
<1> QED BY <1>1, <1>3

\* The schedule stays the one that the policy's entry and the configuration
\* make.
PolicyInv ==
  config \in Configs /\ entry \in Entries
  /\ schedule = ResolveParams(config, entry)

\* A workload under a policy is a case of the clock: what holds of the clock
\* holds of it.
LEMMA PolicyIsClock == PolicySpec => Spec /\ []PolicyInv
<1>1. PolicyInit => Init /\ PolicyInv
  BY PolicyClockAssumption DEF PolicyInit, Init, PolicyInv
<1>2. [PolicyNext]_policyVars => [Next]_vars
  BY DEF PolicyNext, policyVars
<1>3. PolicyInv /\ [PolicyNext]_policyVars => PolicyInv'
  BY DEF PolicyInv, PolicyNext, policyVars, vars, Next, ClockTick
<1> QED BY <1>1, <1>2, <1>3, PTL DEF PolicySpec, Spec

\* What resolveParams makes of the weekend, for a workload that does not say
\* when it works.
LEMMA WeekendResolved ==
  ASSUME PolicyInv, config.excludeWeekend, entry.workingDays = Unset, Spelled,
         Weekday \ Off # {}, NEW d \in Weekday
  PROVE  IsDayWorking(d, schedule.workingDays) <=> d \in Weekday \ Off
<1>1. Named(config.weekend) = Off
  BY DEF Named, Off, Spelled
<1>2. schedule.workingDays = IF config.weekend # <<>>
                             THEN CalculateWorkingDays(config.weekend)
                             ELSE {<<e>> : e \in Weekday}
  BY DEF PolicyInv, ResolveParams, Or
<1>3. config.weekend = <<>> => Off = {}
  BY DEF Off
<1>4. schedule.workingDays = {<<e>> : e \in Weekday \ Off}
  BY <1>1, <1>2, <1>3 DEF CalculateWorkingDays
<1> DEFINE days == Weekday \ Off
<1>5. days \in SUBSET Weekday /\ days # {}
  OBVIOUS
<1> HIDE DEF days
<1>6. IsDayWorking(d, {<<e>> : e \in days}) <=> d \in days
  BY <1>5, ListOfDays
<1> QED BY <1>4, <1>6 DEF days

(***************************************************************************)
(* For every configuration, policy and length of the day: a weekend spelt  *)
(* in full, that leaves a day to work, is when no shift begins; and the    *)
(* shifts that do begin are kept.                                          *)
(***************************************************************************)
THEOREM WeekendsAreOff ==
  ASSUME \A s \in Schedules : s.wakeAt # s.sleepAt
  PROVE  PolicySpec => []WeekendOff
<1>1. PolicyInv /\ MatchesShifts => WeekendOff
  <2> SUFFICES ASSUME PolicyInv, MatchesShifts, config.excludeWeekend,
                      entry.workingDays = Unset, Spelled, Weekday \ Off # {}
               PROVE  ~Asleep <=> \E d \in Weekday \ Off : OnShiftOf(d)
    BY DEF WeekendOff
  <2>1. \A d \in Weekday :
          IsDayWorking(d, schedule.workingDays) <=> d \in Weekday \ Off
    BY WeekendResolved
  <2> QED BY <2>1 DEF MatchesShifts
<1> QED BY <1>1, PolicyIsClock, ShiftsAreMatched, PTL
=============================================================================
