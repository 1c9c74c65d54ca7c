---------------------------- MODULE MCSleepTimer ----------------------------
(* A day shift on weekdays and an overnight one on every day.              *)
EXTENDS SleepTimer

TwoSchedules ==
  { [wakeAt |-> 2, sleepAt |-> 6, workingDays |-> {<<1, 5>>}],
    [wakeAt |-> 6, sleepAt |-> 2, workingDays |-> {}] }
=============================================================================
