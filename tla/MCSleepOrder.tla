---------------------------- MODULE MCSleepOrder ----------------------------
(* The small instances of SleepOrder that TLC checks.                      *)
EXTENDS SleepOrder

CONSTANTS o1, o2

OneOrder == {o1}
TwoOrders == {o1, o2}

NoCounts == {}
ZeroCount == {0}

\* What each run lets the rest of the cluster do.
FullCluster == EnvKinds
CalmCluster == {"touch", "delete", "crash"}
TouchingCluster == {"delete", "touch"}
=============================================================================
