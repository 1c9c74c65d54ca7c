---------------------------- MODULE MCSleepPolicy ----------------------------
(* Small namespaces for TLC.                                               *)
EXTENDS SleepPolicy

CONSTANTS dflt, mine, yours, web, dep

TwoPolicies == {dflt, mine}
ThreePolicies == {dflt, mine, yours}
OneWorkload == {web}
OneKind == {dep}
WebKind == [w \in {web} |-> dep]

\* Manage everything one way, everything but web another, nothing.
Entry(own, all) == [key \in {web, dep} |-> IF key = web THEN own ELSE all]
TwoSpecs == {Entry(None, None), Entry("late", None)}
ThreeSpecs == {Entry(None, None), Entry("late", None), Entry("off", "early")}

Quietly == {"policy"}
AllDisturb == DisturbKinds
=============================================================================
