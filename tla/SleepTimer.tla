----------------------------- MODULE SleepTimer -----------------------------
(***************************************************************************)
(* How an order is brought back to the controller at the right time.  The  *)
(* SleepOrder controller watches only the orders, so nothing but a change  *)
(* of the order, an error, or the timer of RequeueAfter starts a reconcile *)
(* (internal/controller/sleeporder_controller.go, updateStatus).           *)
(*                                                                         *)
(* The times of a schedule are even ticks and the clock is read at odd     *)
(* ones: a reading in nanoseconds never falls exactly on a minute.         *)
(***************************************************************************)
EXTENDS Schedule

CONSTANTS
  MaxLate,    \* bound: ticks a reconcile may go on after its next event
  SlowStart,  \* a reconcile with no timer behind it may outlast its event
  None

States == {"Sleeping", "Awake"}

ASSUME SleepTimerAssumption ==
  /\ DayLength % 2 = 0
  /\ \A s \in Schedules : s.wakeAt % 2 = 0 /\ s.sleepAt % 2 = 0
  /\ MaxLate \in Nat /\ SlowStart \in BOOLEAN
  /\ None \notin Int /\ None \notin [verdict : States, left : Int, due : Int]

VARIABLES
  schedule, day, tick,  \* the order's spec and the clock
  applied,   \* "Sleeping" or "Awake": what was last done to the workload
  status,    \* the order's CurrentState and NextOperationTime
  queued,    \* the order is in the work queue
  timer,     \* ticks until the delaying queue adds it, or None
  handler    \* the reconcile in progress, or None

vars == <<schedule, day, tick, applied, status, queued, timer, handler>>

Now == IF ShouldBeAsleep(schedule, day, tick) THEN "Sleeping" ELSE "Awake"

\* A moment of the week.
Moment(ticks) == (day * DayLength + tick + ticks) % (7 * DayLength)

Sooner(t, u) == IF t = None THEN u ELSE IF u = None THEN t
                ELSE IF t < u THEN t ELSE u

Init ==
  /\ schedule \in Schedules /\ day \in Weekday /\ tick = 1
  /\ applied = "Awake"
  /\ status = [state |-> None, due |-> None]
  /\ queued = TRUE /\ timer = None /\ handler = None

-----------------------------------------------------------------------------
\* Reconcile reads the clock once, at its start.
Start ==
  /\ handler = None /\ queued
  /\ queued' = FALSE
  /\ handler' = [verdict |-> Now, left |-> NextEventIn(schedule, tick),
                 due |-> Moment(NextEventIn(schedule, tick))]
  /\ UNCHANGED <<schedule, day, tick, applied, status, timer>>

\* Mutant: the order is not requeued for its next event.
FinishNoRequeue ==
  LET new == [state |-> handler.verdict, due |-> handler.due]
  IN /\ handler # None
     /\ applied' = handler.verdict
     /\ status' = new
     /\ queued' = (queued \/ status # new)
     /\ handler' = None
     /\ UNCHANGED <<schedule, day, tick, timer>>

\* handleSleep or handleWake, then updateStatus.  A status that changed is
\* written, and the watch queues the order for it.  time.Until(nextEvent) is
\* taken now: if the event has passed meanwhile it is not positive and sets
\* no timer.  The delaying queue keeps the sooner of two times.
Finish ==
  LET new == [state |-> handler.verdict, due |-> handler.due]
  IN /\ handler # None
     /\ applied' = handler.verdict
     /\ status' = new
     /\ queued' = (queued \/ status # new)
     /\ timer' = IF handler.left > 0 THEN Sooner(timer, handler.left)
                 ELSE timer
     /\ handler' = None
     /\ UNCHANGED <<schedule, day, tick>>

\* Mutant: an error ends the reconcile as if it had succeeded.
ErrorSwallowed ==
  /\ handler # None
  /\ applied' \in {applied, handler.verdict}
  /\ timer' = IF handler.left > 0 THEN Sooner(timer, handler.left) ELSE timer
  /\ handler' = None
  /\ UNCHANGED <<schedule, day, tick, status, queued>>

\* A reconcile that returns an error, before or after it scaled the
\* workload, is queued again.
FinishWithError ==
  /\ handler # None
  /\ applied' \in {applied, handler.verdict}
  /\ queued' = TRUE /\ handler' = None
  /\ UNCHANGED <<schedule, day, tick, status, timer>>

\* The manager stops; its successor lists every order and queues it.
Restart ==
  /\ queued' = TRUE /\ timer' = None /\ handler' = None
  /\ UNCHANGED <<schedule, day, tick, applied, status>>

\* The order's spec is edited, and the watch queues it.
Edit(s) ==
  /\ s # schedule /\ schedule' = s /\ queued' = TRUE
  /\ UNCHANGED <<day, tick, applied, status, timer, handler>>

\* The clock moves on, and the timer fires when it has run out.
Passed == handler # None /\ handler.left <= 2
ClockTick ==
  /\ handler # None => handler.left - 2 >= -MaxLate
  /\ Passed /\ timer = None => SlowStart
  /\ IF tick + 2 < DayLength THEN tick' = tick + 2 /\ day' = day
     ELSE tick' = 1 /\ day' = (day + 1) % 7
  /\ LET fires == timer # None /\ timer <= 2
     IN /\ timer' = IF timer = None \/ fires THEN None ELSE timer - 2
        /\ queued' = (queued \/ fires)
  /\ handler' = IF handler = None THEN None
                ELSE [handler EXCEPT !.left = @ - 2]
  /\ UNCHANGED <<schedule, applied, status>>

Next == \/ Start \/ Finish \/ FinishWithError \/ Restart \/ ClockTick
        \/ \E s \in Schedules : Edit(s)

Spec == Init /\ [][Next]_vars

-----------------------------------------------------------------------------
Moments == 0..(7 * DayLength - 1)
Handler == [verdict : States, left : (-MaxLate)..DayLength, due : Moments]

TypeOK ==
  /\ schedule \in Schedules /\ day \in Weekday /\ tick \in Tick
  /\ applied \in States
  /\ status \in [state : States \cup {None}, due : Moments \cup {None}]
  /\ queued \in BOOLEAN
  /\ timer \in 1..DayLength \cup {None}
  /\ handler \in Handler \cup {None}

(***************************************************************************)
(* When the controller has nothing to do for an order, a timer is set and  *)
(* runs out no later than the order's next event.                          *)
(***************************************************************************)
Resting == handler = None /\ ~queued

Armed == Resting => timer # None /\ timer <= NextEventIn(schedule, tick)

(***************************************************************************)
(* When the controller has nothing to do for an order, the workload is in  *)
(* the state its schedule asks for now, and the status says so and names   *)
(* the event that is next from now.                                        *)
(***************************************************************************)
Punctual ==
  Resting => /\ applied = Now
             /\ status = [state |-> Now,
                          due |-> Moment(NextEventIn(schedule, tick))]
=============================================================================
