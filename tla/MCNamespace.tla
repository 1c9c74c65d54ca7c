----------------------------- MODULE MCNamespace -----------------------------
(* Small namespaces for TLC: a day of three ticks, and environments that    *)
(* differ in the delay, the TTL, the zone and the exclusions.              *)
EXTENDS Namespace

CONSTANTS dflt, mine, UTC, East, West, Nowhere, Junk

MCDefault == "default"
MCPolicies == {dflt, mine}
MCOffset == [z \in {UTC, East, West} |->
               CASE z = UTC -> 0 [] z = East -> 1 [] z = West -> -1]
MCDates == {1, None, Bad}
OneDate == {1}

MCReadable ==
  [field \in Fields |->
     CASE field = "defaultTimezone" -> {UTC, East, West, Nowhere}
       [] field = "excludedNamespaces" -> {{"dev"}}
       [] field = "delaySeconds" -> {0, 1, 2}
       [] field = "expirationTTLInDays" -> {-1, 1, 2}
       [] field = "ttlEnabled" -> BOOLEAN
       [] OTHER -> {}]
MCBuiltIn ==
  [field \in Fields |->
     CASE field = "defaultTimezone" -> UTC
       [] field = "excludedNamespaces" -> {}
       [] field \in {"delaySeconds", "expirationTTLInDays"} -> 1
       [] OTHER -> FALSE]

Bare == [field \in Fields |-> Unset]
Dated == [Bare EXCEPT !.ttlEnabled = TRUE, !.delaySeconds = Junk]

Instance(named, born, env, own) ==
  [name |-> named, born |-> born, config |-> Load(env, own)]
Western == [Dated EXCEPT !.defaultTimezone = West]

AllInstances ==
  {Instance("dev", 0, Bare, Unset),
   Instance("dev", 0, [Bare EXCEPT !.delaySeconds = 0, !.ttlEnabled = Junk],
            "dev"),
   Instance("dev", 1, Dated, Unset),
   Instance("dev", 2, [Western EXCEPT !.expirationTTLInDays = 2], Unset),
   Instance("dev", 2, [Dated EXCEPT !.defaultTimezone = East,
                                    !.expirationTTLInDays = -1], Unset),
   Instance("dev", 5, [Dated EXCEPT !.defaultTimezone = Nowhere], Unset),
   Instance("default", 2, Dated, Unset)}
DatedInstance == {Instance("dev", 0, Dated, Unset)}
=============================================================================
