---------------------------- MODULE Configuration ----------------------------
(***************************************************************************)
(* The configuration (internal/config/config.go): read from the            *)
(* environment once, when the manager starts.                              *)
(*                                                                         *)
(* An environment gives every field of Config the value of its variable,   *)
(* Unset when the variable is absent or empty.  A value is what the text   *)
(* says.  The strings and the list take any text, right or wrong, and hand *)
(* it on; a number or a truth value may be one its parser does not accept. *)
(***************************************************************************)
EXTENDS Integers, Sequences

CONSTANTS
  BuiltIn,   \* per field, the Default... constant
  Readable,  \* per field, the values it takes over
  Unset      \* what os.Getenv returns as ""

Fields == {"defaultWakeAt", "defaultSleepAt", "defaultTimezone", "weekend",
           "excludeWeekend", "defaultPolicyEnabled", "delaySeconds",
           "excludedNamespaces", "ttlEnabled", "expirationTTLInDays"}

ASSUME ConfigurationAssumption ==
  /\ DOMAIN BuiltIn = Fields /\ DOMAIN Readable = Fields
  /\ \A field \in Fields : Unset \notin Readable[field]

\* The getEnv...OrDefault functions: a number or a truth value that cannot be
\* read is as good as unset.
GetEnvOrDefault(env, field) ==
  IF env[field] \in Readable[field] THEN env[field] ELSE BuiltIn[field]

\* Load: own is the value of SLEEPOD_NAMESPACE.  A list of exclusions replaces
\* the built-in one; the controller's own namespace is added to either.
Load(env, own) ==
  [field \in Fields |->
     IF field = "excludedNamespaces"
     THEN GetEnvOrDefault(env, field) \cup ({own} \ {Unset})
     ELSE GetEnvOrDefault(env, field)]

IsNamespaceExcludedFromConfig(config, name) ==
  name \in config.excludedNamespaces
=============================================================================
