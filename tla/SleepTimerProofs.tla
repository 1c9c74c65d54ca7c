--------------------------- MODULE SleepTimerProofs ---------------------------
(***************************************************************************)
(* An order is brought back in time, for every length of the day and every *)
(* set of schedules, while the first reconcile after a restart does not    *)
(* outlast its event (timer_slow is what happens when it does).            *)
(***************************************************************************)
EXTENDS SleepTimer, TLAPS

Week == 7 * DayLength
NextIn == NextEventIn(schedule, tick)
Differ == schedule.wakeAt # schedule.sleepAt

MomentAt(d, t, ticks) == (d * DayLength + t + ticks) % Week

\* A moment that may have passed, but less than a week ago.
Turn(ticks) == IF ticks > 0 THEN ticks ELSE ticks + Week

(***************************************************************************)
(* Why it is: a timer runs out no later than the event the status names,   *)
(* so that an event which passes during a reconcile either queues the      *)
(* order or is not the one the status names; in the second case the status *)
(* changes, and its own event queues the order.                            *)
(***************************************************************************)
TimerNamed ==
  timer # None => \E k \in timer..Week : status.due = MomentAt(day, tick, k)

HandlerNamed ==
  handler # None => handler.due = MomentAt(day, tick, Turn(handler.left))

HandlerCurrent ==
  handler # None /\ ~queued
  => IF handler.left > 0
     THEN handler.left = NextIn /\ (Differ => handler.verdict = Now)
     ELSE handler.due # status.due

Comes == MomentAt(day, tick, NextIn)

RestCurrent ==
  Resting => /\ timer # None /\ timer <= NextIn /\ status.due = Comes
             /\ Differ => /\ applied = Now
                          /\ status = [state |-> Now, due |-> Comes]

Typed == TypeOK /\ tick % 2 = 1

TimerInv ==
  Typed /\ TimerNamed /\ HandlerNamed /\ HandlerCurrent /\ RestCurrent

-----------------------------------------------------------------------------
(* The week as a circle.                                                   *)

\* From tick t of day d to tick u of day e is one step of the clock.
Moves(d, t, e, u) == \/ u = t + 2 /\ e = d
                     \/ t = DayLength - 1 /\ u = 1 /\ e = (d + 1) % 7

\* A remainder of less than two periods.
LEMMA WithinTwo ==
  ASSUME NEW n \in Nat, n > 0, NEW x \in Int, 0 <= x, x < 2 * n
  PROVE  x % n = IF x < n THEN x ELSE x - n
OBVIOUS

\* A week has room for its days, and the numbers are numbers.
LEMMA WeekIs ==
  /\ DayLength \in Nat /\ DayLength > 1
  /\ Week \in Nat /\ Week = 7 * DayLength /\ Week > 13
<1>1. DayLength \in Nat /\ DayLength > 0 /\ DayLength % 2 = 0
  BY ScheduleAssumption, SleepTimerAssumption
<1> QED BY <1>1 DEF Week

LEMMA Position ==
  ASSUME NEW d \in Weekday, NEW t \in Tick
  PROVE  d * DayLength + t \in 0..(Week - 1)
<1>1. /\ d \in 0..6 /\ t \in Int /\ 0 <= t /\ t < DayLength
      /\ DayLength \in Nat /\ Week = 7 * DayLength
  BY WeekIs DEF Weekday, Tick
<1>2. d = 0 \/ d = 1 \/ d = 2 \/ d = 3 \/ d = 4 \/ d = 5 \/ d = 6
  BY <1>1
<1> QED BY <1>1, <1>2

\* The moment so many ticks ahead, less than a week or exactly one.
LEMMA MomentIs ==
  ASSUME NEW d \in Weekday, NEW t \in Tick, NEW k \in 0..Week
  PROVE  /\ MomentAt(d, t, k) \in 0..(Week - 1)
         /\ MomentAt(d, t, k)
              = IF d * DayLength + t + k < Week THEN d * DayLength + t + k
                ELSE d * DayLength + t + k - Week
<1> DEFINE p == d * DayLength + t
<1>1. p \in 0..(Week - 1)
  BY Position
<1> HIDE DEF p
<1>2. /\ (p + k) % Week \in 0..(Week - 1)
      /\ (p + k) % Week = IF p + k < Week THEN p + k ELSE p + k - Week
  BY <1>1, WeekIs, WithinTwo
<1> QED BY <1>2 DEF p, MomentAt

\* Two ways to one moment, neither longer than a week, are the same.
LEMMA MomentOnce ==
  ASSUME NEW d \in Weekday, NEW t \in Tick, NEW k \in 1..Week,
         NEW l \in 1..Week, MomentAt(d, t, k) = MomentAt(d, t, l)
  PROVE  k = l
<1> DEFINE p == d * DayLength + t
<1>1. p \in 0..(Week - 1) /\ k \in 0..Week /\ l \in 0..Week
  BY Position, WeekIs
<1>2. (IF p + k < Week THEN p + k ELSE p + k - Week)
      = IF p + l < Week THEN p + l ELSE p + l - Week
  BY <1>1, MomentIs
<1> HIDE DEF p
<1> QED BY <1>1, <1>2, WeekIs

\* While the clock makes a step, a moment stays where it is.
LEMMA MomentStays ==
  ASSUME NEW d \in Weekday, NEW t \in Tick, NEW e \in Weekday, NEW u \in Tick,
         Moves(d, t, e, u), NEW k \in 1..Week
  PROVE  /\ Turn(k - 2) \in 1..Week
         /\ MomentAt(d, t, k) = MomentAt(e, u, Turn(k - 2))
<1> DEFINE p == d * DayLength + t
           q == e * DayLength + u
           l == Turn(k - 2)
<1>1. /\ p \in 0..(Week - 1) /\ q \in 0..(Week - 1)
      /\ k \in 0..Week /\ l \in 0..Week /\ l \in 1..Week
      /\ l = IF k > 2 THEN k - 2 ELSE k - 2 + Week
  BY Position, WeekIs DEF Turn
<1>2. q = p + 2 \/ q = p + 2 - Week
  <2>1. d \in 0..6 /\ t \in Int /\ DayLength \in Int /\ Week = 7 * DayLength
    BY WeekIs DEF Weekday, Tick
  <2>2. CASE u = t + 2 /\ e = d
    BY <2>1, <2>2
  <2>3. CASE t = DayLength - 1 /\ u = 1 /\ e = (d + 1) % 7
    <3>1. CASE d < 6
      <4>1. e = d + 1
        BY <2>1, <2>3, <3>1
      <4>2. e * DayLength = d * DayLength + DayLength
        BY <2>1, <4>1
      <4> QED BY <2>1, <2>3, <4>2
    <3>2. CASE d = 6
      BY <2>1, <2>3, <3>2
    <3> QED BY <2>1, <3>1, <3>2
  <2> QED BY <2>2, <2>3 DEF Moves
<1>3. /\ MomentAt(d, t, k) = IF p + k < Week THEN p + k ELSE p + k - Week
      /\ MomentAt(e, u, l) = IF q + l < Week THEN q + l ELSE q + l - Week
  BY <1>1, MomentIs
<1> HIDE DEF p, q, l
<1>4. MomentAt(d, t, k) = MomentAt(e, u, l)
  BY <1>1, <1>2, <1>3, WeekIs
<1> QED BY <1>1, <1>4 DEF l

-----------------------------------------------------------------------------
(* The schedule between two readings of the clock.                         *)

\* From an odd tick the next event is some way ahead, at most a day.
LEMMA NextAhead ==
  ASSUME NEW s \in Schedules, NEW t \in Tick, t % 2 = 1
  PROVE  NextEventIn(s, t) \in 1..DayLength
<1>1. /\ s.wakeAt \in Tick /\ s.sleepAt \in Tick
      /\ s.wakeAt % 2 = 0 /\ s.sleepAt % 2 = 0
  BY ScheduleAssumption, SleepTimerAssumption
<1>2. ASSUME NEW at \in Tick, at % 2 = 0 PROVE NextAt(at, t) \in 1..DayLength
  BY <1>2, WeekIs DEF NextAt, Tick
<1>3. /\ NextAt(s.wakeAt, t) \in 1..DayLength
      /\ NextAt(s.sleepAt, t) \in 1..DayLength
  BY <1>1, <1>2
<1> QED BY <1>3 DEF NextEventIn

\* An event that is not passed by the clock's step comes two ticks nearer.
LEMMA NextNearer ==
  ASSUME NEW s \in Schedules, NEW d \in Weekday, NEW t \in Tick,
         NEW e \in Weekday, NEW u \in Tick, Moves(d, t, e, u),
         NextEventIn(s, t) > 2
  PROVE  /\ NextAt(s.wakeAt, t) > 2 /\ NextAt(s.sleepAt, t) > 2
         /\ NextEventIn(s, u) = NextEventIn(s, t) - 2
<1> DEFINE m == NextAt(s.wakeAt, t)
           n == NextAt(s.sleepAt, t)
<1>1. s.wakeAt \in Tick /\ s.sleepAt \in Tick
  BY ScheduleAssumption
<1>2. m \in Int /\ n \in Int
  BY <1>1, WeekIs DEF NextAt, Tick
<1>3. NextEventIn(s, t) = IF m < n THEN m ELSE n
  BY DEF NextEventIn
<1>4. m > 2 /\ n > 2
  <2> HIDE DEF m, n
  <2> QED BY <1>2, <1>3
<1>5. ASSUME NEW at \in Tick, NextAt(at, t) > 2
      PROVE  NextAt(at, u) = NextAt(at, t) - 2
  BY <1>5, WeekIs DEF NextAt, Tick, Moves
<1>6. NextAt(s.wakeAt, u) = m - 2 /\ NextAt(s.sleepAt, u) = n - 2
  BY <1>1, <1>4, <1>5
<1>7. NextEventIn(s, u) = IF m - 2 < n - 2 THEN m - 2 ELSE n - 2
  BY <1>6 DEF NextEventIn
<1> HIDE DEF m, n
<1>8. NextEventIn(s, u) = NextEventIn(s, t) - 2
  BY <1>2, <1>3, <1>7
<1> QED BY <1>4, <1>8 DEF m, n

\* Until its next event a schedule does not change its mind.
LEMMA SteadyUntilNext ==
  ASSUME NEW s \in Schedules, s.wakeAt # s.sleepAt,
         NEW d \in Weekday, NEW t \in Tick,
         NEW e \in Weekday, NEW u \in Tick, Moves(d, t, e, u),
         NextEventIn(s, t) > 2
  PROVE  ShouldBeAsleep(s, e, u) <=> ShouldBeAsleep(s, d, t)
<1> DEFINE w == s.wakeAt
           z == s.sleepAt
<1>1. /\ w \in Int /\ 0 <= w /\ w < DayLength
      /\ z \in Int /\ 0 <= z /\ z < DayLength
      /\ t \in Int /\ 0 <= t /\ t < DayLength /\ u \in Int
      /\ DayLength \in Int /\ w # z
  BY ScheduleAssumption, WeekIs DEF Tick
<1>2. /\ w < t \/ w > t + 2
      /\ z < t \/ z > t + 2
      /\ w < t => w + DayLength > t + 2
      /\ z < t => z + DayLength > t + 2
  BY <1>1, NextNearer DEF NextAt
<1>3. CASE u = t + 2 /\ e = d
  <2>1. InHours(s, u) <=> InHours(s, t)
    BY <1>1, <1>2, <1>3 DEF InHours
  <2>2. ShiftDay(s, e, u) = ShiftDay(s, d, t)
    BY <1>1, <1>2, <1>3 DEF ShiftDay
  <2> QED BY <2>1, <2>2 DEF ShouldBeAsleep
<1>4. CASE t = DayLength - 1 /\ u = 1 /\ e = (d + 1) % 7
  <2>1. w > 1 /\ z > 1 /\ w < t /\ z < t
    BY <1>1, <1>2, <1>4
  <2>2. CASE w < z
    <3>1. ~InHours(s, u) /\ ~InHours(s, t)
      BY <1>1, <1>4, <2>1, <2>2 DEF InHours
    <3> QED BY <3>1 DEF ShouldBeAsleep
  <2>3. CASE w > z
    <3>1. InHours(s, u) /\ InHours(s, t)
      BY <1>1, <1>4, <2>1, <2>3 DEF InHours
    <3>2. Yesterday(e) = d
      BY <1>4 DEF Yesterday, Weekday
    <3>3. ShiftDay(s, e, u) = d /\ ShiftDay(s, d, t) = d
      BY <1>1, <1>4, <2>1, <2>3, <3>2 DEF ShiftDay
    <3> QED BY <3>1, <3>3 DEF ShouldBeAsleep
  <2> QED BY <1>1, <2>2, <2>3
<1> QED BY <1>3, <1>4 DEF Moves

-----------------------------------------------------------------------------
(* The clock, its readings, and the types.                                 *)

\* What the controller reads off the clock.
LEMMA Readings ==
  ASSUME TypeOK, tick % 2 = 1
  PROVE  /\ schedule \in Schedules /\ day \in Weekday /\ tick \in Tick
         /\ NextIn \in 1..DayLength /\ NextIn \in 1..Week
         /\ Moment(NextIn) \in Moments /\ Now \in States
         /\ \A k : Moment(k) = MomentAt(day, tick, k)
<1>1. schedule \in Schedules /\ day \in Weekday /\ tick \in Tick
  BY DEF TypeOK
<1>2. NextIn \in 1..DayLength
  BY <1>1, NextAhead DEF NextIn
<1>3. NextIn \in 0..Week /\ NextIn \in 1..Week
  BY <1>2, WeekIs
<1>4. \A k : Moment(k) = MomentAt(day, tick, k)
  BY DEF Moment, MomentAt, Week
<1>5. Moment(NextIn) \in Moments
  BY <1>1, <1>3, <1>4, MomentIs DEF Moments, Week
<1>6. Now \in States
  BY DEF Now, States
<1> QED BY <1>1, <1>2, <1>3, <1>4, <1>5, <1>6

\* A step that leaves the clock and the schedule leaves what is read.
LEMMA SameReadings ==
  ASSUME UNCHANGED <<schedule, day, tick>>
  PROVE  /\ NextIn' = NextIn /\ Now' = Now /\ (Differ' <=> Differ)
         /\ \A k : MomentAt(day', tick', k) = MomentAt(day, tick, k)
BY DEF NextIn, Now, Differ

\* The clock is read at odd ticks, and keeps to the days of a week.
LEMMA ClockMoves ==
  ASSUME TypeOK, tick % 2 = 1, ClockTick
  PROVE  /\ Moves(day, tick, day', tick')
         /\ day' \in Weekday /\ tick' \in Tick /\ tick' % 2 = 1
<1>1. /\ DayLength \in Nat /\ DayLength > 1 /\ DayLength % 2 = 0
      /\ tick \in Int /\ 0 <= tick /\ tick < DayLength /\ day \in 0..6
  BY WeekIs, SleepTimerAssumption DEF TypeOK, Tick, Weekday
<1>2. CASE tick + 2 < DayLength
  <2>1. tick' = tick + 2 /\ day' = day
    BY <1>2 DEF ClockTick
  <2> QED BY <1>1, <1>2, <2>1 DEF Moves, Tick, Weekday
<1>3. CASE ~(tick + 2 < DayLength)
  <2>1. tick' = 1 /\ day' = (day + 1) % 7
    BY <1>3 DEF ClockTick
  <2>2. tick = DayLength - 1
    BY <1>1, <1>3
  <2> QED BY <1>1, <2>1, <2>2 DEF Moves, Tick, Weekday
<1> QED BY <1>2, <1>3

LEMMA InitTypes == Init => Typed
<1> SUFFICES ASSUME Init PROVE Typed
  OBVIOUS
<1>1. tick = 1 /\ 1 \in Tick /\ 1 % 2 = 1
  BY WeekIs DEF Init, Tick
<1> QED BY <1>1 DEF Init, Typed, TypeOK, States

LEMMA StepTypes == Typed /\ [Next]_vars => Typed'
<1> SUFFICES ASSUME Typed, [Next]_vars PROVE Typed'
  OBVIOUS
<1>1. TypeOK /\ tick % 2 = 1
  BY DEF Typed
<1>2. \A h \in Handler : /\ h.verdict \in States /\ h.due \in Moments
                         /\ h.left \in (-MaxLate)..DayLength
                         /\ h.left \in Int
  BY SleepTimerAssumption, WeekIs DEF Handler
<1>3. timer \in 1..DayLength \cup {None} /\ DayLength \in Int /\ None \notin Int
  BY <1>1, WeekIs, SleepTimerAssumption DEF TypeOK
<1>4. CASE UNCHANGED vars
  BY <1>1, <1>4 DEF TypeOK, Typed, vars
<1>5. CASE Start
  <2>1. handler' \in Handler
    BY <1>1, <1>5, Readings, SleepTimerAssumption, WeekIs
    DEF Start, Handler, NextIn
  <2> QED BY <1>1, <1>5, <2>1 DEF Start, TypeOK, Typed
<1>6. CASE Finish
  <2>1. handler \in Handler /\ handler' = None
    BY <1>1, <1>6 DEF Finish, TypeOK
  <2>2. /\ applied' \in States
        /\ status' \in [state : States \cup {None}, due : Moments \cup {None}]
        /\ queued' \in BOOLEAN
    BY <1>1, <1>2, <1>6, <2>1 DEF Finish, TypeOK
  <2>3. timer' \in 1..DayLength \cup {None}
    BY <1>2, <1>3, <1>6, <2>1 DEF Finish, Sooner
  <2> QED BY <1>1, <1>6, <2>1, <2>2, <2>3 DEF Finish, TypeOK, Typed
<1>7. CASE FinishWithError
  BY <1>1, <1>2, <1>7 DEF FinishWithError, TypeOK, Typed
<1>8. CASE Restart
  BY <1>1, <1>8 DEF Restart, TypeOK, Typed
<1>9. CASE ClockTick
  <2>1. timer' \in 1..DayLength \cup {None} /\ queued' \in BOOLEAN
    BY <1>1, <1>3, <1>9 DEF ClockTick, TypeOK
  <2>2. handler' \in Handler \cup {None}
    <3>1. CASE handler = None
      BY <1>9, <3>1 DEF ClockTick
    <3>2. CASE handler # None
      <4>1. handler \in Handler /\ handler.left - 2 >= -MaxLate
        BY <1>1, <1>9, <3>2 DEF ClockTick, TypeOK
      <4>2. handler.left - 2 \in (-MaxLate)..DayLength
        BY <1>2, <1>3, <4>1, SleepTimerAssumption
      <4>3. handler' = [handler EXCEPT !.left = handler.left - 2]
        BY <1>9, <3>2 DEF ClockTick
      <4> QED BY <4>1, <4>2, <4>3 DEF Handler
    <3> QED BY <3>1, <3>2
  <2> QED BY <1>1, <1>9, <2>1, <2>2, ClockMoves DEF ClockTick, TypeOK, Typed
<1>10. ASSUME NEW s \in Schedules, Edit(s) PROVE Typed'
  BY <1>1, <1>10 DEF Edit, TypeOK, Typed
<1> QED BY <1>4, <1>5, <1>6, <1>7, <1>8, <1>9, <1>10 DEF Next

(***************************************************************************)
(* The timer, the status and the reconcile keep to their ranges, however   *)
(* long the day is and however late a reconcile ends.                      *)
(***************************************************************************)
THEOREM TypeCorrect == Spec => []TypeOK
<1>1. Typed => TypeOK
  BY DEF Typed
<1> QED BY InitTypes, StepTypes, <1>1, PTL DEF Spec

-----------------------------------------------------------------------------
(* No event is missed.                                                     *)

LEMMA Ranges ==
  ASSUME Typed
  PROVE  /\ TypeOK /\ tick % 2 = 1
         /\ timer \in Int \cup {None} /\ None \notin Int
         /\ timer # None => timer \in 1..DayLength
         /\ handler # None => handler \in Handler /\ handler.left \in Int
         /\ None \notin Handler
         /\ Week \in Int /\ DayLength \in Int
         /\ DayLength > 1 /\ Week = 7 * DayLength
<1>1. None \notin Handler
  BY SleepTimerAssumption, WeekIs DEF Handler, Moments
<1>2. /\ timer \in 1..DayLength \cup {None}
      /\ handler # None => handler \in Handler /\ handler.left \in Int
  BY WeekIs, SleepTimerAssumption DEF Typed, TypeOK, Handler
<1> QED BY <1>1, <1>2, WeekIs, SleepTimerAssumption DEF Typed

LEMMA InitNamed == Init => TimerInv
BY InitTypes DEF Init, TimerInv, TimerNamed, HandlerNamed, HandlerCurrent,
                 RestCurrent, Resting

\* A reconcile starts with the next event.
LEMMA StartNamed ==
  ASSUME TimerInv, Typed', Start PROVE TimerInv'
<1>1. Typed /\ TimerNamed
  BY DEF TimerInv
<1>2. UNCHANGED <<schedule, day, tick>> /\ timer' = timer /\ status' = status
  BY DEF Start
<1>3. /\ handler'.verdict = Now /\ handler'.left = NextIn
      /\ handler'.due = Moment(NextIn) /\ handler' # None
  <2>1. handler' = [verdict |-> Now, left |-> NextIn, due |-> Moment(NextIn)]
    BY DEF Start, NextIn
  <2>2. Now \in States /\ NextIn \in Int /\ Moment(NextIn) \in Int
    BY <1>1, Readings, Ranges, WeekIs DEF Moments
  <2> QED BY <2>1, <2>2, SleepTimerAssumption
<1>4. NextIn \in Int /\ NextIn > 0 /\ Moment(NextIn) = Comes
  BY <1>1, Readings, Ranges, WeekIs DEF Comes
<1>5. TimerNamed'
  BY <1>1, <1>2, SameReadings DEF TimerNamed
<1>6. HandlerNamed'
  BY <1>2, <1>3, <1>4, SameReadings DEF HandlerNamed, Turn, Comes
<1>7. HandlerCurrent'
  BY <1>2, <1>3, <1>4, SameReadings DEF HandlerCurrent
<1>8. RestCurrent'
  BY <1>3 DEF RestCurrent, Resting
<1> QED BY <1>5, <1>6, <1>7, <1>8 DEF TimerInv

\* A reconcile that ends leaves a timer, or a status that has changed.
LEMMA FinishNamed ==
  ASSUME MaxLate <= 6 * DayLength, TimerInv, Typed', Finish PROVE TimerInv'
<1> DEFINE new == [state |-> handler.verdict, due |-> handler.due]
           left == handler.left
<1>1. Typed /\ TimerNamed /\ HandlerNamed /\ HandlerCurrent
  BY DEF TimerInv
<1>2. /\ UNCHANGED <<schedule, day, tick>> /\ handler # None
      /\ applied' = handler.verdict /\ status' = new
      /\ queued' = (queued \/ status # new) /\ handler' = None
      /\ timer' = IF left > 0 THEN Sooner(timer, left) ELSE timer
  BY DEF Finish
<1>3. left \in Int /\ left >= -MaxLate /\ left <= DayLength
  BY <1>1, <1>2, Ranges, SleepTimerAssumption DEF Handler
<1>4. /\ Turn(left) \in Int /\ Turn(left) <= Week
      /\ left > 0 => Turn(left) = left
      /\ ~(left > 0) => Turn(left) >= DayLength
  BY <1>1, <1>3, Ranges, SleepTimerAssumption DEF Turn
<1>5. status'.due = handler.due /\ handler.due = MomentAt(day, tick, Turn(left))
  BY <1>1, <1>2 DEF HandlerNamed
<1> HIDE DEF left
<1>6. /\ left > 0 => timer' # None /\ timer' <= left
      /\ timer' # None => timer' \in Int /\ timer' <= Turn(left)
  BY <1>1, <1>2, <1>3, <1>4, Ranges DEF Sooner
<1>7. TimerNamed'
  <2> SUFFICES ASSUME timer' # None
               PROVE  \E k \in timer'..Week :
                        status'.due = MomentAt(day', tick', k)
    BY DEF TimerNamed
  <2>1. Turn(left) \in timer'..Week
    BY <1>1, <1>4, <1>6, Ranges
  <2> QED BY <1>2, <1>5, <2>1
<1>8. RestCurrent'
  <2> SUFFICES ASSUME ~queued'
               PROVE  /\ timer' # None /\ timer' <= NextIn
                      /\ status'.due = Comes
                      /\ Differ => /\ applied' = Now
                                   /\ status' = [state |-> Now, due |-> Comes]
    BY <1>2, SameReadings DEF RestCurrent, Resting, Comes
  <2>1. ~queued /\ status = new
    BY <1>2
  <2>2. status.due = handler.due
    BY <2>1
  <2>3. left > 0 /\ left = NextIn /\ (Differ => handler.verdict = Now)
    BY <1>1, <1>2, <2>1, <2>2 DEF HandlerCurrent, left
  <2>4. handler.due = Comes
    BY <1>4, <1>5, <2>3 DEF Comes
  <2> QED BY <1>2, <1>5, <1>6, <2>3, <2>4
<1> QED BY <1>2, <1>7, <1>8 DEF TimerInv, HandlerNamed, HandlerCurrent

\* The clock passes an event only with a timer set, and then the event is not
\* the one the status names, or the order is queued.
LEMMA ClockNamed ==
  ASSUME MaxLate <= 6 * DayLength, ~SlowStart, TimerInv, Typed', ClockTick
  PROVE  TimerInv'
<1> DEFINE fires == timer # None /\ timer <= 2
           left == handler.left
           At(k) == MomentAt(day, tick, k)
<1>1. Typed /\ TimerNamed /\ HandlerNamed /\ HandlerCurrent /\ RestCurrent
  BY DEF TimerInv
<1>2. /\ schedule' = schedule /\ status' = status /\ applied' = applied
      /\ timer' = IF timer = None \/ fires THEN None ELSE timer - 2
      /\ queued' = (queued \/ fires)
      /\ handler' = IF handler = None THEN None
                    ELSE [handler EXCEPT !.left = left - 2]
      /\ Passed => timer # None
  BY DEF ClockTick
<1>3. /\ schedule \in Schedules /\ day \in Weekday /\ tick \in Tick
      /\ day' \in Weekday /\ tick' \in Tick /\ Moves(day, tick, day', tick')
      /\ NextIn \in 1..Week
  BY <1>1, Readings, ClockMoves, Ranges
<1>4. ASSUME NEW k \in 1..Week
      PROVE  /\ Turn(k - 2) \in 1..Week
             /\ At(k) = MomentAt(day', tick', Turn(k - 2))
  BY <1>3, MomentStays
<1>5. ASSUME NEW k \in 1..Week, k > 2 PROVE Turn(k - 2) = k - 2
  BY <1>5, <1>1, Ranges DEF Turn
<1>6. ASSUME NextIn > 2
      PROVE  /\ NextIn' = NextIn - 2 /\ (Differ' <=> Differ)
             /\ Differ => Now' = Now
             /\ At(NextIn) = MomentAt(day', tick', NextIn')
  <2>1. NextIn' = NextIn - 2
    BY <1>2, <1>3, <1>6, NextNearer DEF NextIn
  <2>2. Differ => Now' = Now
    BY <1>2, <1>3, <1>6, SteadyUntilNext DEF Differ, Now, NextIn
  <2> QED BY <1>2, <1>3, <1>4, <1>5, <1>6, <2>1, <2>2 DEF Differ
<1>7. ASSUME handler # None
      PROVE  /\ handler' # None /\ handler'.left = left - 2
             /\ handler'.due = handler.due /\ handler'.verdict = handler.verdict
             /\ left \in Int /\ left - 2 >= -MaxLate /\ left <= DayLength
  <2>1. handler \in Handler /\ left - 2 >= -MaxLate
    BY <1>1, <1>7, Ranges DEF ClockTick
  <2>2. handler' = [handler EXCEPT !.left = left - 2]
    BY <1>2, <1>7
  <2>3. left \in Int /\ left <= DayLength
    BY <2>1, <1>1, Ranges, SleepTimerAssumption DEF Handler
  <2>4. handler'.left = left - 2 /\ handler'.due = handler.due
        /\ handler'.verdict = handler.verdict
    BY <2>1, <2>2 DEF Handler
  <2>5. handler' \in [verdict : States, left : Int, due : Int]
    BY <2>1, <2>2, <2>3, <1>1, Ranges DEF Handler, Moments
  <2> QED BY <2>1, <2>3, <2>4, <2>5, SleepTimerAssumption
<1>8. TimerNamed'
  <2> SUFFICES ASSUME timer' # None
               PROVE  \E k \in timer'..Week :
                        status'.due = MomentAt(day', tick', k)
    BY DEF TimerNamed
  <2>1. timer # None /\ timer' = timer - 2 /\ timer \in Int /\ timer > 2
    BY <1>1, <1>2, Ranges
  <2>2. PICK k \in timer..Week : status.due = At(k)
    BY <1>1, <2>1 DEF TimerNamed
  <2>3. k \in 1..Week /\ k > 2 /\ k - 2 \in timer'..Week
    BY <1>1, <2>1, Ranges
  <2> QED BY <1>2, <1>4, <1>5, <2>2, <2>3
<1>9. HandlerNamed'
  <2> SUFFICES ASSUME handler # None
               PROVE  handler'.due = MomentAt(day', tick', Turn(handler'.left))
    BY <1>2 DEF HandlerNamed
  <2> DEFINE k == Turn(left)
  <2>1. handler.due = At(k)
    BY <1>1 DEF HandlerNamed
  <2>2. k \in 1..Week /\ Turn(k - 2) = Turn(left - 2)
    BY <1>1, <1>7, Ranges, SleepTimerAssumption DEF Turn
  <2> HIDE DEF k
  <2>3. At(k) = MomentAt(day', tick', Turn(k - 2))
    BY <1>4, <2>2
  <2> QED BY <1>7, <2>1, <2>2, <2>3
<1>10. HandlerCurrent'
  <2> SUFFICES ASSUME handler # None, ~queued'
               PROVE  IF handler'.left > 0
                      THEN /\ handler'.left = NextIn'
                           /\ Differ' => handler'.verdict = Now'
                      ELSE handler'.due # status'.due
    BY <1>2 DEF HandlerCurrent
  <2>1. ~queued /\ ~fires
    BY <1>2
  <2>2. IF left > 0 THEN left = NextIn /\ (Differ => handler.verdict = Now)
        ELSE handler.due # status.due
    BY <1>1, <2>1 DEF HandlerCurrent
  <2>3. CASE left > 2
    BY <1>6, <1>7, <2>2, <2>3
  <2>4. CASE left > 0 /\ left <= 2
    <3>1. timer # None /\ timer \in Int /\ timer > 2
      BY <1>1, <1>2, <2>1, <2>4, Ranges DEF Passed
    <3>2. PICK k \in timer..Week : status.due = At(k)
      BY <1>1, <3>1 DEF TimerNamed
    <3>3. k \in 1..Week /\ left \in 1..Week /\ k # left
      BY <1>1, <1>7, <2>4, <3>1, Ranges
    <3>4. handler.due = At(left)
      BY <1>1, <2>4 DEF HandlerNamed, Turn
    <3>5. handler.due # status.due
      BY <1>3, <3>2, <3>3, <3>4, MomentOnce
    <3> QED BY <1>2, <1>7, <2>4, <3>5
  <2>5. CASE left <= 0
    BY <1>2, <1>7, <2>2, <2>5
  <2> QED BY <1>7, <2>3, <2>4, <2>5
<1>11. RestCurrent'
  <2> SUFFICES ASSUME handler' = None, ~queued'
               PROVE  /\ timer' # None /\ timer' <= NextIn'
                      /\ status'.due = MomentAt(day', tick', NextIn')
                      /\ Differ' =>
                           /\ applied' = Now'
                           /\ status' = [state |-> Now',
                                due |-> MomentAt(day', tick', NextIn')]
    BY DEF RestCurrent, Resting, Comes
  <2>1. handler = None /\ ~queued /\ ~fires
    BY <1>2, <1>7
  <2>2. /\ timer # None /\ timer <= NextIn /\ status.due = At(NextIn)
        /\ Differ => /\ applied = Now
                     /\ status = [state |-> Now, due |-> At(NextIn)]
    BY <1>1, <2>1 DEF RestCurrent, Resting, Comes
  <2>3. timer \in Int /\ timer > 2 /\ NextIn \in Int /\ NextIn > 2
    BY <1>1, <1>3, <2>1, <2>2, Ranges
  <2>4. timer' = timer - 2 /\ timer' # None
    BY <1>1, <1>2, <2>1, <2>2, <2>3, Ranges
  <2> QED BY <1>2, <1>6, <2>2, <2>3, <2>4
<1> QED BY <1>8, <1>9, <1>10, <1>11 DEF TimerInv

LEMMA StepNamed ==
  ASSUME MaxLate <= 6 * DayLength, ~SlowStart, TimerInv, [Next]_vars
  PROVE  TimerInv'
<1>1. TimerInv /\ Typed /\ Typed'
  BY StepTypes DEF TimerInv
<1> USE DEF TimerInv, TimerNamed, HandlerNamed, HandlerCurrent, RestCurrent,
            Resting, Comes
<1>2. CASE UNCHANGED vars
  BY <1>1, <1>2, SameReadings DEF vars
<1>3. CASE Start
  BY <1>1, <1>3, StartNamed
<1>4. CASE Finish
  BY <1>1, <1>4, FinishNamed
<1>5. CASE FinishWithError
  BY <1>1, <1>5 DEF FinishWithError
<1>6. CASE Restart
  BY <1>1, <1>6 DEF Restart
<1>7. CASE ClockTick
  BY <1>1, <1>7, ClockNamed
<1>8. ASSUME NEW s \in Schedules, Edit(s) PROVE TimerInv'
  BY <1>1, <1>8 DEF Edit
<1> QED BY <1>2, <1>3, <1>4, <1>5, <1>6, <1>7, <1>8 DEF Next

(***************************************************************************)
(* For every length of the day and every set of schedules: when the        *)
(* controller has nothing to do for an order, a timer is set and runs out  *)
(* no later than the next event.                                           *)
(***************************************************************************)
THEOREM AlwaysArmed ==
  ASSUME MaxLate <= 6 * DayLength, ~SlowStart
  PROVE  Spec => []Armed
<1>1. TimerInv => Armed
  BY DEF TimerInv, RestCurrent, Armed, NextIn
<1> QED BY InitNamed, StepNamed, <1>1, PTL DEF Spec

(***************************************************************************)
(* And the workload is where its schedule wants it, and the status names   *)
(* the next event, when the two times of every schedule differ.            *)
(***************************************************************************)
THEOREM AlwaysPunctual ==
  ASSUME MaxLate <= 6 * DayLength, ~SlowStart,
         \A s \in Schedules : s.wakeAt # s.sleepAt
  PROVE  Spec => []Punctual
<1>1. TimerInv => Punctual
  <2> SUFFICES ASSUME TimerInv, Resting
               PROVE  /\ applied = Now
                      /\ status = [state |-> Now, due |-> Moment(NextIn)]
    BY DEF Punctual, NextIn
  <2>1. Differ /\ Moment(NextIn) = Comes
    BY Readings, Ranges DEF TimerInv, Differ, Comes
  <2> QED BY <2>1 DEF TimerInv, RestCurrent
<1> QED BY InitNamed, StepNamed, <1>1, PTL DEF Spec
=============================================================================
