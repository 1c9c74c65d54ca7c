----------------------------- MODULE PolicyClock -----------------------------
(***************************************************************************)
(* The clock running through a week for a workload that a policy manages:  *)
(* its schedule is what resolveParams makes of the policy's entry and the  *)
(* configuration.  The day and the tick are local to the schedule's zone.  *)
(***************************************************************************)
EXTENDS SleepClock, Defaults

CONSTANTS
  Configs,  \* what Load may return
  Entries   \* the enabled entries a policy may have for the workload

ASSUME PolicyClockAssumption ==
  Schedules = {ResolveParams(c, e) : c \in Configs, e \in Entries}

VARIABLES config, entry
policyVars == <<vars, config, entry>>

PolicyInit ==
  /\ config \in Configs /\ entry \in Entries
  /\ schedule = ResolveParams(config, entry)
  /\ day \in Weekday /\ tick = 0

PolicyNext == Next /\ UNCHANGED <<config, entry>>

PolicySpec == PolicyInit /\ [][PolicyNext]_policyVars

-----------------------------------------------------------------------------
(***************************************************************************)
(* With excludeWeekend the shifts of a workload without working days of    *)
(* its own begin on the days the weekend does not name.  A weekend with a  *)
(* part that is no day in full is left aside: a day it abbreviates stays a *)
(* working day; so is one that covers the whole week: then every day is.   *)
(***************************************************************************)
Off == {config.weekend[i].day : i \in DOMAIN config.weekend}
Spelled == \A i \in DOMAIN config.weekend : config.weekend[i].full

WeekendOff ==
  config.excludeWeekend /\ entry.workingDays = Unset /\ Spelled
  /\ Weekday \ Off # {}
  => (~Asleep <=> \E d \in Weekday \ Off : OnShiftOf(d))
=============================================================================
