------------------------------- MODULE Defaults -------------------------------
(***************************************************************************)
(* From a policy's entry and the configuration to the schedule of an order *)
(* (internal/controller/sleeppolicy_logic.go, resolveParams).              *)
(*                                                                         *)
(* The weekend of the configuration is the sequence of its comma-separated *)
(* parts; a part is the day it names and whether it spells it in full, or  *)
(* day -1.                                                                 *)
(***************************************************************************)
EXTENDS Schedule, Configuration

\* The days a weekend's parts spell in full.  EqualFold knows no other form,
\* although parseDay reads "fri" as well as "friday".
Named(weekend) ==
  {weekend[i].day : i \in {j \in DOMAIN weekend : weekend[j].full}}

\* Mutant: only the first part of the weekend is looked at.
CalculateWorkingDaysFirst(weekend) ==
  {<<d>> : d \in Weekday \ Named(<<weekend[1]>>)}

\* calculateWorkingDays: the days that are not of the weekend, joined by
\* commas; none left is the empty string.
CalculateWorkingDays(weekend) == {<<d>> : d \in Weekday \ Named(weekend)}

Or(value, default) == IF value = Unset THEN default ELSE value

\* resolveParams of an enabled entry.  The policy's own spec.timezone is not
\* among the arguments.
ResolveParams(config, entry) ==
  [wakeAt      |-> Or(entry.wakeAt, config.defaultWakeAt),
   sleepAt     |-> Or(entry.sleepAt, config.defaultSleepAt),
   timezone    |-> Or(entry.timezone, config.defaultTimezone),
   workingDays |-> Or(entry.workingDays,
                      IF config.excludeWeekend /\ config.weekend # <<>>
                      THEN CalculateWorkingDays(config.weekend)
                      ELSE {<<d>> : d \in Weekday})]
=============================================================================
