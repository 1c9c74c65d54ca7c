------------------------------ MODULE Namespace ------------------------------
(***************************************************************************)
(* The namespace controller (internal/controller/namespace_controller.go)  *)
(* on one namespace: it gives a namespace that is old enough a default     *)
(* policy, takes the policies of an excluded one away, and, with the TTL   *)
(* enabled, dates a namespace and deletes it when its date comes.          *)
(*                                                                         *)
(* Only changes of the namespace start a reconcile, beside errors, timers  *)
(* and the resync.  Its one worker takes one step per client call and      *)
(* reads through caches.  The clock runs in ticks of universal time.       *)
(***************************************************************************)
EXTENDS Configuration

CONSTANTS
  Instances,      \* a name, a time of birth and what Load may return for it
  Default,        \* "default", which no API server deletes
  Policies,       \* names of policies
  DefaultPolicy,  \* the name of the default policy, one of Policies
  DayLength,      \* ticks in a day
  Offset,         \* per known time zone, local less universal time, in ticks
  Dates,          \* what a user may write as the date: days, None, Bad
  None,           \* no date, no timer
  Bad,            \* a date ParseDateFromStr refuses
  MaxTime,        \* bound: the clock
  MaxEdits        \* bound: disturbances in a behaviour

ASSUME NamespaceAssumption ==
  /\ DayLength \in Nat \ {0} /\ MaxTime \in Nat /\ MaxEdits \in Nat
  /\ DefaultPolicy \in Policies
  /\ Dates \subseteq Int \cup {None, Bad}
  /\ \A zone \in DOMAIN Offset : Offset[zone] \in Int
  /\ \A i \in Instances : /\ i.born \in 0..MaxTime
                          /\ i.config.delaySeconds \in Int
                          /\ i.config.expirationTTLInDays \in Int
  /\ None \notin Int /\ Bad \notin Int /\ None # Bad

VARIABLES
  name, config,  \* the namespace's name and the configuration: they stay
  clock,
  ns,            \* the stored namespace
  seen,          \* the namespace as the controller's cache has it
  policy,        \* the stored policies
  listed,        \* the policies the controller's cache lists
  queued,        \* a request is in the work queue
  timer,         \* when a delayed request is due, or None
  worker,        \* the controller's one worker
  typed,         \* history: a user wrote a date
  edits          \* disturbances so far

vars == <<name, config, clock, ns, seen, policy, listed, queued, timer,
          worker, typed, edits>>
rigid == <<name, config>>
cluster == <<ns, policy, typed>>
caches == <<seen, listed>>

Gone == [exists |-> FALSE, deleting |-> FALSE, born |-> 0, date |-> None,
         exclude |-> FALSE]
Idle == [pc |-> "idle", copy |-> Gone, fresh |-> FALSE, todo |-> {}]

Init ==
  /\ \E i \in Instances : name = i.name /\ config = i.config /\ clock = i.born
  /\ ns = [Gone EXCEPT !.exists = TRUE, !.born = clock] /\ seen = ns
  /\ policy = [p \in Policies |-> "none"] /\ listed = {}
  /\ queued = TRUE /\ timer = None /\ worker = Idle
  /\ typed = FALSE /\ edits = 0

-----------------------------------------------------------------------------
(* What the controller asks of a namespace.                                *)

Delay == config.delaySeconds

\* Any value of the annotation excludes, "false" too.
Excluded(v) == IsNamespaceExcludedFromConfig(config, name) \/ v.exclude

ZoneKnown == config.defaultTimezone \in DOMAIN Offset

\* Mutant: one day fewer.
ExpirationDateShort ==
  (clock + Offset[config.defaultTimezone]) \div DayLength
    + config.expirationTTLInDays - 1

\* The date written now: today in the configured zone, and so many days on.
ExpirationDate ==
  (clock + Offset[config.defaultTimezone]) \div DayLength
    + config.expirationTTLInDays

\* Mutant: a date is over when its day is, in universal time.
ExpiresAfterDay(date) == (date + 1) * DayLength

\* ParseDateFromStr: midnight, in universal time.
ExpiresAt(date) == date * DayLength

Young(v) == clock - v.born < Delay

\* Mutant: a date that cannot be read counts as passed.
NeedsManagedUnread(v) ==
  IF ~config.ttlEnabled \/ (v.date = None /\ name = Default) THEN "list"
  ELSE IF ~ZoneKnown THEN "stop"
  ELSE IF v.date = None THEN "annotate"
  ELSE IF v.date # Bad /\ clock < ExpiresAt(v.date) THEN "wait" ELSE "expire"

\* Mutant: without the TTL there is nothing to do.
NeedsManagedTTLOnly(v) ==
  IF v.date = None /\ name = Default THEN "list"
  ELSE IF ~config.ttlEnabled \/ ~ZoneKnown \/ v.date = Bad THEN "stop"
  ELSE IF v.date = None THEN "annotate"
  ELSE IF clock < ExpiresAt(v.date) THEN "wait" ELSE "expire"

\* What a namespace that is neither young nor excluded needs.  Waiting for
\* its date and deleting it leave the policies alone.
NeedsManaged(v) ==
  IF ~config.ttlEnabled \/ (v.date = None /\ name = Default) THEN "list"
  ELSE IF ~ZoneKnown \/ v.date = Bad THEN "stop"
  ELSE IF v.date = None THEN "annotate"
  ELSE IF clock < ExpiresAt(v.date) THEN "wait" ELSE "expire"

Needs(v) == IF ~v.exists THEN "stop"
            ELSE IF Young(v) THEN "wait"
            ELSE IF Excluded(v) THEN "sweepList" ELSE NeedsManaged(v)

\* Mutant: the wait for the date has no timer.
WaitYoungOnly(v) == IF Young(v) THEN Delay - (clock - v.born) ELSE 0

\* What is left of the delay, or of the time to the date.
Wait(v) == IF Young(v) THEN Delay - (clock - v.born)
           ELSE ExpiresAt(v.date) - clock

\* A delayed request; the queue keeps the sooner of two, and controller-runtime
\* takes a RequeueAfter that is not positive for none.
RequeueAfter(after) ==
  timer' = IF after > 0 /\ (timer = None \/ clock + after < timer)
           THEN clock + after ELSE timer

-----------------------------------------------------------------------------
(* The worker's steps.                                                     *)

At(step) == worker.pc = step
Goto(step) == worker' = [worker EXCEPT !.pc = step]
Elsewhere == UNCHANGED <<rigid, clock, caches, edits>>
ReadOnly == UNCHANGED cluster /\ Elsewhere

\* The reconcile up to its first write or list.
Reconcile ==
  LET needs == Needs(seen)
  IN /\ At("idle") /\ queued /\ queued' = FALSE
     /\ IF needs = "wait" THEN RequeueAfter(Wait(seen)) ELSE UNCHANGED timer
     /\ worker' = IF needs \in {"stop", "wait"} THEN Idle
                  ELSE [Idle EXCEPT
                          !.pc = needs, !.fresh = (seen = ns),
                          !.copy = IF needs = "expire" THEN seen ELSE Gone]
     /\ ReadOnly

\* Mutant: only the default policy is taken away.
SweepListDefault ==
  LET todo == listed \cap {DefaultPolicy}
  IN /\ At("sweepList")
     /\ worker' = IF todo = {} THEN Idle
                  ELSE [worker EXCEPT !.pc = "sweep", !.todo = todo]
     /\ UNCHANGED <<queued, timer>> /\ ReadOnly

\* The policies of an excluded namespace.
SweepList ==
  /\ At("sweepList")
  /\ worker' = IF listed = {} THEN Idle
               ELSE [worker EXCEPT !.pc = "sweep", !.todo = listed]
  /\ UNCHANGED <<queued, timer>> /\ ReadOnly

\* A deletion waits for the policy's finalizer, if it has one yet.
Doom(p) ==
  \E state \in {"deleting", "none"} :
    policy' = [policy EXCEPT ![p] = IF @ = "live" THEN state ELSE @]

\* One of them is deleted; one that is gone already is an error.
Sweep(p) ==
  /\ At("sweep") /\ p \in worker.todo
  /\ IF policy[p] = "none"
     THEN RequeueAfter(Delay) /\ worker' = Idle /\ UNCHANGED policy
     ELSE /\ Doom(p)
          /\ worker' = IF worker.todo = {p} THEN Idle
                       ELSE [worker EXCEPT !.todo = @ \ {p}]
          /\ UNCHANGED timer
  /\ UNCHANGED <<ns, typed, queued>> /\ Elsewhere

\* r.Delete by name, whatever has become of the namespace.  It may be gone,
\* and "default" is refused: neither is tried again.
Expire ==
  /\ At("expire") /\ worker' = Idle
  /\ ns' = IF ns.exists /\ name # Default THEN [ns EXCEPT !.deleting = TRUE]
           ELSE ns
  /\ UNCHANGED <<policy, typed, queued, timer>> /\ Elsewhere

\* The date is written, or not: the worker goes on either way.
Annotate ==
  /\ At("annotate") /\ worker' = [Idle EXCEPT !.pc = "list"]
  /\ ns' = IF ns.exists /\ worker.fresh
           THEN [ns EXCEPT !.date = ExpirationDate] ELSE ns
  /\ UNCHANGED <<policy, typed, queued, timer>> /\ Elsewhere

ListPolicies ==
  /\ At("list")
  /\ IF listed = {} THEN Goto("create") ELSE worker' = Idle
  /\ UNCHANGED <<queued, timer>> /\ ReadOnly

\* createDefaultSleepPolicy: refused if there is one, or in a namespace that
\* is going or gone.
CreateDefaultSleepPolicy ==
  LET taken == ns.exists /\ ~ns.deleting /\ policy[DefaultPolicy] = "none"
  IN /\ At("create") /\ worker' = Idle
     /\ policy' = IF taken THEN [policy EXCEPT ![DefaultPolicy] = "live"]
                  ELSE policy
     /\ queued' = (queued \/ ~taken)
     /\ UNCHANGED <<ns, typed, timer>> /\ Elsewhere

WorkerStep ==
  \/ Reconcile \/ SweepList \/ Expire \/ Annotate \/ ListPolicies
  \/ CreateDefaultSleepPolicy
  \/ \E p \in Policies : Sweep(p)

-----------------------------------------------------------------------------
(* The clock, the queue's other sources, and the other controllers.        *)

Existing == {p \in Policies : policy[p] # "none"}

Tick ==
  /\ clock < MaxTime /\ clock' = clock + 1
  /\ UNCHANGED <<rigid, cluster, caches, queued, timer, worker, edits>>

Fire ==
  /\ timer # None /\ timer <= clock
  /\ queued' = TRUE /\ timer' = None
  /\ UNCHANGED <<rigid, clock, cluster, caches, worker, edits>>

\* An event of the namespace queues it; a policy's does not.
DeliverNamespace ==
  /\ seen # ns /\ seen' = ns /\ queued' = TRUE
  /\ UNCHANGED <<rigid, clock, cluster, listed, timer, worker, edits>>

DeliverPolicies ==
  /\ listed # Existing /\ listed' = Existing
  /\ UNCHANGED <<rigid, clock, cluster, seen, queued, timer, worker, edits>>

Resync ==
  /\ seen.exists /\ queued' = TRUE
  /\ UNCHANGED <<rigid, clock, cluster, caches, timer, worker, edits>>

Unattended == UNCHANGED <<rigid, clock, caches, queued, timer, worker, edits>>

\* The policy controller lets a deleted policy go.
ReleasePolicy(p) ==
  /\ policy[p] = "deleting" /\ policy' = [policy EXCEPT ![p] = "none"]
  /\ UNCHANGED <<ns, typed>> /\ Unattended

\* Kubernetes empties a namespace that is being deleted and lets it go.
EmptyNamespace(p) ==
  /\ ns.deleting /\ policy[p] = "live" /\ Doom(p)
  /\ UNCHANGED <<ns, typed>> /\ Unattended

Vanish ==
  /\ ns.deleting /\ Existing = {} /\ ns' = Gone
  /\ UNCHANGED <<policy, typed>> /\ Unattended

-----------------------------------------------------------------------------
(* Disturbances: users, errors and restarts.                               *)

Disturbed == edits < MaxEdits /\ edits' = edits + 1

\* Anybody else's write of the namespace makes the worker's copy outdated.
WriteNamespace(v) ==
  /\ Disturbed /\ ns' = v /\ worker' = [worker EXCEPT !.fresh = FALSE]
  /\ UNCHANGED <<rigid, clock, caches, policy, queued, timer>>

\* Without the TTL nobody reads the date.
SetDate(date) ==
  /\ ns.exists /\ config.ttlEnabled /\ ns.date # date
  /\ WriteNamespace([ns EXCEPT !.date = date]) /\ typed' = TRUE

ToggleExclude ==
  /\ ns.exists /\ WriteNamespace([ns EXCEPT !.exclude = ~@])
  /\ UNCHANGED typed

DeleteNamespace ==
  /\ ns.exists /\ ~ns.deleting /\ name # Default
  /\ WriteNamespace([ns EXCEPT !.deleting = TRUE]) /\ UNCHANGED typed

CreateNamespace ==
  /\ ~ns.exists
  /\ WriteNamespace([Gone EXCEPT !.exists = TRUE, !.born = clock])
  /\ UNCHANGED typed

UserOnly ==
  UNCHANGED <<rigid, clock, caches, ns, typed, queued, timer, worker>>

CreatePolicy(p) ==
  /\ Disturbed /\ policy[p] = "none" /\ ns.exists /\ ~ns.deleting
  /\ policy' = [policy EXCEPT ![p] = "live"] /\ UserOnly

DeletePolicy(p) ==
  /\ Disturbed /\ policy[p] = "live" /\ Doom(p) /\ UserOnly

\* A call of the worker fails.  What it does then depends on the call.
ApiError ==
  /\ Disturbed /\ ~At("idle")
  /\ worker' = IF At("annotate") THEN [Idle EXCEPT !.pc = "list"] ELSE Idle
  /\ IF worker.pc \in {"sweep", "list"} THEN RequeueAfter(Delay)
     ELSE UNCHANGED timer
  /\ queued' = (queued \/ At("create"))
  /\ UNCHANGED <<rigid, clock, cluster, caches>>

Restart ==
  /\ Disturbed /\ worker' = Idle /\ timer' = None
  /\ seen' = ns /\ listed' = Existing /\ queued' = ns.exists
  /\ UNCHANGED <<rigid, clock, cluster>>

Disturbance ==
  \/ \E date \in Dates : SetDate(date)
  \/ ToggleExclude \/ DeleteNamespace \/ CreateNamespace
  \/ \E p \in Policies : CreatePolicy(p) \/ DeletePolicy(p)
  \/ ApiError \/ Restart

Next ==
  \/ WorkerStep \/ Tick \/ Fire \/ DeliverNamespace \/ DeliverPolicies
  \/ Resync \/ Vanish \/ Disturbance
  \/ \E p \in Policies : ReleasePolicy(p) \/ EmptyNamespace(p)

Spec == Init /\ [][Next]_vars

(***************************************************************************)
(* The worker runs, due timers fire, the informers deliver and resync, and *)
(* the other controllers finish a deletion.                                *)
(***************************************************************************)
FairSpec ==
  /\ Spec
  /\ WF_vars(WorkerStep) /\ WF_vars(Fire)
  /\ WF_vars(DeliverNamespace) /\ WF_vars(DeliverPolicies) /\ WF_vars(Resync)
  /\ \A p \in Policies : WF_vars(ReleasePolicy(p))

-----------------------------------------------------------------------------
(* Properties.                                                             *)

Namespace == [exists : BOOLEAN, deleting : BOOLEAN, born : Nat,
              date : Int \cup {None, Bad}, exclude : BOOLEAN]

Worker == [pc : {"idle", "sweepList", "sweep", "expire", "annotate", "list",
                 "create"},
           copy : Namespace, fresh : BOOLEAN, todo : SUBSET Policies]

TypeOK ==
  /\ \E i \in Instances : name = i.name /\ config = i.config
  /\ clock \in 0..MaxTime
  /\ ns \in Namespace /\ seen \in Namespace
  /\ policy \in [Policies -> {"none", "live", "deleting"}]
  /\ listed \subseteq Policies
  /\ queued \in BOOLEAN /\ timer \in Nat \cup {None}
  /\ worker \in Worker
  /\ At("expire") => worker.copy.date \in Int
  /\ typed \in BOOLEAN /\ edits \in 0..MaxEdits

Quiet == At("idle") /\ ~queued /\ seen = ns

Kept == ns.exists /\ ~ns.deleting /\ ~Excluded(ns)

(***************************************************************************)
(* At rest nothing is forgotten: a namespace that is too young, or whose   *)
(* date is to come, has a timer for that moment or an earlier one.         *)
(***************************************************************************)
Deadline(at) == clock < at => timer # None /\ timer <= at

Armed ==
  Quiet /\ Kept =>
    IF Young(ns) THEN Deadline(ns.born + Delay)
    ELSE config.ttlEnabled /\ ZoneKnown /\ ns.date \notin {None, Bad}
         => Deadline(ExpiresAt(ns.date))

(***************************************************************************)
(* A namespace nobody else dated lives its days: once it is old enough to  *)
(* be looked at, all of them but the last, less what the configured zone   *)
(* is behind universal time, go by before the controller deletes it.  A    *)
(* copy of an earlier namespace of the same name is left aside.            *)
(***************************************************************************)
ControllerDeletes == Expire /\ ns'.deleting /\ ~ns.deleting

LivesItsDays ==
  [][ControllerDeletes /\ ~typed /\ worker.copy.born = ns.born
     => clock - ns.born - Delay
          > (config.expirationTTLInDays - 1) * DayLength
            + Offset[config.defaultTimezone]]_vars

(***************************************************************************)
(* With the TTL enabled a namespace does not stay without a date, nor past *)
(* its date, for ever.                                                     *)
(***************************************************************************)
TTLApplies ==
  []<>~(/\ Kept /\ ~Young(ns) /\ config.ttlEnabled /\ ZoneKnown
        /\ name # Default
        /\ \/ ns.date = None
           \/ ns.date \notin {None, Bad} /\ clock >= ns.date * DayLength)

(***************************************************************************)
(* Without the TTL, a namespace that stays neither young nor excluded      *)
(* comes to have a policy and keeps one: "The controller will create a     *)
(* default policy for all namespaces unless its excluded in the config"    *)
(* (README.md:89).                                                         *)
(***************************************************************************)
Plain == /\ ns.exists /\ ~ns.deleting /\ ~Young(ns) /\ ~ns.exclude
         /\ ~IsNamespaceExcludedFromConfig(config, name)

HasPolicyWithoutTTL ==
  ~config.ttlEnabled /\ <>[]Plain
  => <>[](\E p \in Policies : policy[p] = "live")

(***************************************************************************)
(* The same at rest, and whatever the configuration: with nothing to do    *)
(* and no timer due, a namespace that is not excluded has a policy.        *)
(***************************************************************************)
PolicyAtRest ==
  Quiet /\ listed = Existing /\ Plain /\ (timer = None \/ timer > clock)
  => Existing # {}

(***************************************************************************)
(* A namespace that stays excluded comes to have no policy.                *)
(***************************************************************************)
Swept ==
  <>[](ns.exists /\ ~Young(ns) /\ Excluded(ns)) => <>[](Existing = {})
=============================================================================
