------------------------------ MODULE Workload ------------------------------
(***************************************************************************)
(* What the SleepOrder controller promises the owner of a workload: its    *)
(* replica count is remembered before it is scaled to zero, comes back as  *)
(* it was, and no order lets go of a workload that is still asleep.        *)
(***************************************************************************)
EXTENDS Naturals

CONSTANTS Orders, Desired, None

VARIABLES
  live,      \* the workload exists
  replicas,  \* its replica count
  saved,     \* the count remembered for it, or None
  holders    \* the orders that must restore it before they go

vars == <<live, replicas, saved, holders>>

Fresh == live' = TRUE /\ replicas' = Desired /\ saved' = None

Init == live = TRUE /\ replicas = Desired /\ saved = None /\ holders = {}

AsleepNow == live /\ replicas = 0

Hold(o) ==
  /\ holders' = holders \cup {o} /\ UNCHANGED <<live, replicas, saved>>

\* An order lets go only of a workload that runs, or is not there.
Release(o) ==
  /\ o \in holders /\ ~AsleepNow
  /\ holders' = holders \ {o} /\ UNCHANGED <<live, replicas, saved>>

Remember ==
  /\ live /\ holders # {} /\ saved = None /\ replicas # 0
  /\ saved' = replicas /\ UNCHANGED <<live, replicas, holders>>

Sleep ==
  /\ live /\ holders # {} /\ saved = replicas
  /\ replicas' = 0 /\ UNCHANGED <<live, saved, holders>>

Wake ==
  /\ AsleepNow /\ saved # None
  /\ replicas' = saved /\ saved' = None /\ UNCHANGED <<live, holders>>

\* The owner's part: the workload is deleted and created again.
Remove ==
  /\ live /\ live' = FALSE /\ replicas' = 0 /\ saved' = None
  /\ UNCHANGED holders

Recreate == ~live /\ Fresh /\ UNCHANGED holders

Next ==
  \/ Remember \/ Sleep \/ Wake \/ Remove \/ Recreate
  \/ \E o \in Orders : Hold(o) \/ Release(o)

Spec == Init /\ [][Next]_vars
=============================================================================
