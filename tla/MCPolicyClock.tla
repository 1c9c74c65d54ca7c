---------------------------- MODULE MCPolicyClock ----------------------------
(* Small policies and configurations for TLC: every pair of times of a     *)
(* short day, and the working days and weekends the tests and the README   *)
(* use or get wrong.                                                       *)
EXTENDS PolicyClock

CONSTANTS UTC, East, Junk

WorkingDays ==
  { {<<1, 5>>},                         \* "Mon-Fri"
    {<<5, 1>>},                         \* "Fri-Mon"
    {<<1>>, <<3>>, <<5>>},              \* "Monday,Wednesday,Friday"
    {<<0, 2>>, <<4>>},                  \* "Sun-Tue,Thu"
    {<<6, 6>>},                         \* "Sat-Sat"
    {<<-1>>, <<2, -1>>, <<1, 3, 5>>} }  \* "weekdays,Tue-,Mon-Wed-Fri"

Full(d) == [day |-> d, full |-> TRUE]
Short(d) == [day |-> d, full |-> FALSE]
Weekends ==
  { <<Full(5), Full(6)>>,                 \* "friday,saturday"
    <<Short(5), Full(6)>>,                \* "fri,Saturday"
    <<Short(-1)>>, <<Short(-1), Full(6)>>,\* "weekends", "none,saturday"
    [i \in 1..7 |-> Full(i - 1)] }        \* every day of the week

Texts(field) == CASE field \in {"defaultWakeAt", "defaultSleepAt"} -> Tick
                  [] field = "defaultTimezone" -> {UTC, East}
                  [] field = "weekend" -> Weekends
                  [] field \in {"excludeWeekend", "defaultPolicyEnabled",
                                "ttlEnabled"} -> BOOLEAN
                  [] field \in {"delaySeconds", "expirationTTLInDays"} -> {0, 1}
                  [] OTHER -> {{}}
MCReadable == [field \in Fields |-> Texts(field)]
MCBuiltIn ==
  [defaultWakeAt |-> 2, defaultSleepAt |-> 5, defaultTimezone |-> UTC,
   weekend |-> <<>>, excludeWeekend |-> FALSE, defaultPolicyEnabled |-> FALSE,
   delaySeconds |-> 1, excludedNamespaces |-> {}, ttlEnabled |-> FALSE,
   expirationTTLInDays |-> 1]

Bare == [field \in Fields |-> Unset]
Environments ==
  {[Bare EXCEPT !.defaultTimezone = East, !.excludeWeekend = Junk,
                !.weekend = <<Full(5), Full(6)>>]}
  \cup {[Bare EXCEPT !.weekend = w, !.excludeWeekend = TRUE] : w \in Weekends}
MCConfigs == {Load(env, Unset) : env \in Environments}

Entry(wakeAt, sleepAt, days) ==
  [wakeAt |-> wakeAt, sleepAt |-> sleepAt, timezone |-> Unset,
   workingDays |-> days]
Pairs == {p \in Tick \X Tick : p[1] # p[2]}
MCEntries ==
  {Entry(p[1], p[2], days) : p \in Pairs, days \in WorkingDays \cup {Unset}}
  \cup {Entry(Unset, 1, Unset), Entry(Unset, Unset, {<<1, 5>>}),
        [Entry(3, Unset, Unset) EXCEPT !.timezone = East]}

MCSchedules == {ResolveParams(c, e) : c \in MCConfigs, e \in MCEntries}
=============================================================================
