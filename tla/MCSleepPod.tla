----------------------------- MODULE MCSleepPod -----------------------------
(* One workload and the policies over it, for TLC.                         *)
EXTENDS SleepPod

CONSTANTS dflt, mine, web, dep

TwoPolicies == {dflt, mine}
OneWorkload == {web}
OneKind == {dep}
WebKind == [w \in {web} |-> dep]

\* Everything has one schedule, or web has another.
OnLate == {[key \in {web, dep} |-> None],
           [key \in {web, dep} |-> IF key = web THEN "late" ELSE None]}

\* Where a conflict does not end the reconcile.
Finalizing == {"finalizer", "addFin", "restoreGet", "restorePut", "rewrite",
               "dropFin"}

AllDisturb == {"policy", "workload", "order", "error", "restart"}
=============================================================================
