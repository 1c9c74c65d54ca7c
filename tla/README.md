# A TLA+ model of the SleePod controller

This directory holds TLA+ modules that model the SleePod controller of this
repository, TLC configurations that check them on small instances, and TLAPS
proofs of what holds for every instance. Paths such as
`internal/controller/sleeporder_controller.go` are relative to the repository
(`src/`); `SO` below is that file, `SP` `sleeppolicy_controller.go`, `SL`
`sleeppolicy_logic.go`, `NS` `namespace_controller.go`, `TI`
`internal/logic/time.go`.

## 1. Inventory

The program is one Kubernetes manager with three controllers. Each controller
has one worker (controller-runtime's default), a work queue, and reads objects
through informer caches; writes go to the API server, which refuses an update
made from an outdated copy. The controllers never call each other: they meet
in the objects they write.

| Component | State it keeps | Operations | Talks to | What is hard | What makes it correct |
|---|---|---|---|---|---|
| SleepOrder controller (`SO`) | none of its own; the replicas and the annotation `original-replicas` of a workload, finalizer and status of an order | `Reconcile`: target missing, `handleFinalizer`, `handleSleep`, `handleWake`, `updateStatus` | workloads, orders | several checked writes per reconcile, retries on conflict inside one closure, copies read before other copies, errors that are dropped, crash between two writes | the replica count is never lost; an annotation removed is the count restored; a sleeping workload is held by a finalizer; deletion completes; the workload reaches the schedule's state |
| Schedule logic (`TI`) | none | `GetTimeState`, `isDayWorking`, `parseSchedule`, `ParseDateFromStr` | called by `SO`, `NS` | overnight shifts over midnight and the week's end, boundaries of the shift, equal times | state and next event agree; the state is that of the shifts |
| Requeue protocol (`SO` `updateStatus`, `SetupWithManager`) | work queue, delaying timer | `RequeueAfter`, watch on orders, retry after an error | clock, queue | time passes during a reconcile, timers die with the process | whenever nothing is queued a timer covers the next event |
| SleepPolicy controller (`SP`, `SL`) | finalizer, spec defaults and status of a policy; the orders | `Reconcile`: fetch the policy in force, complete its spec, desired state, delete undesired orders, create and update orders, status | policies, orders, lists of workloads | watches only policies; orders being deleted; several policies in one namespace; edits during a reconcile | at rest the orders are those the policy in force asks for |
| Namespace controller (`NS`) | the date annotation of a namespace, its deletion; the default policy; delayed requests | delay, exclusion and sweep, TTL (date, wait, delete), list, create the default policy | namespaces, policies, clock | watches only namespaces; several reasons to wait share one timer; cached lists; errors of which some are retried, some wait for the delay and some are dropped; a date written in one zone and read in another | nothing forgotten; no deletion before the days are over; dates are applied; a managed namespace has a policy, an excluded one none |
| Configuration (`internal/config/config.go`) | fields read once at start | `Load`, `getEnv...OrDefault`, `isNamespaceExcludedFromConfig` | all controllers | a value that cannot be read is silently the default; the weekend and the exclusions are lists made of text | orders' schedules and the namespaces' treatment follow from it |
| Manager (`cmd/main.go`) | leader lease | wiring, leader election | all | failover | |
| API types, generated deep copies, Helm chart | | | | | |

`PROJECT.json` lists the components with their status and, under `hazards`,
each place of the code where one of these difficulties bites.

## 2. Modules

| Module | Models | Kind |
|---|---|---|
| `SleepOrder` | the SleepOrder controller on one workload and any number of orders | state machine |
| `Workload` | what it promises the workload's owner | abstract specification |
| `Schedule` | `GetTimeState` and `isDayWorking` | operators |
| `SleepClock` | the clock running through weeks under one schedule | state machine over `Schedule` |
| `SleepTimer` | how an order is brought back in time | state machine over `Schedule` |
| `SleepPolicy` | the SleepPolicy controller in one namespace | state machine |
| `SleepPod` | the two controllers at work on one workload | composition of `SleepPolicy` and `SleepOrder` |
| `Configuration` | `Load` and the list of exclusions | operators |
| `Defaults` | `resolveParams`, `calculateWorkingDays`: what a policy's entry and the configuration make of an order's schedule | operators over `Schedule`, `Configuration` |
| `PolicyClock` | `SleepClock` for exactly those schedules | composition of `SleepClock` and `Defaults` |
| `Namespace` | the namespace controller on one namespace | state machine over `Configuration` |
| `MC*` | small instances for TLC | constants |
| `SleepOrderProofs`, `SleepOrderPromise`, `SleepClockProofs`, `SleepTimerProofs`, `SleepPolicyProofs`, `SleepPodProofs`, `NamespaceProofs` | theorems | proofs |

Operators whose comment begins with "Mutant:" are broken variants of the
definition that follows. No specification uses them; each shows that one
property would notice that bug.

### SleepOrder

`target` and `order[o]` are sequences of versions: the last is stored, the
first is what the cache returns, and `DeliverTarget`/`DeliverOrder` move the
cache on. `worker` is the local state of the one running `Reconcile`: program
counter, the copy of the workload it holds (`copy`), whether the server would
accept a write from its copies (`tfresh`, `ofresh`), the count it read first
(`count`) and the retries so far. One step is one client call, or the reads
and decisions up to the next write:

| Action | Code |
|---|---|
| `Reconcile`, `GetTargetObject` | SO 109-151 |
| `RemoveFinalizerTargetMissing` | SO 125-139 |
| `Needs`, `HandleFinalizer`, `AddFinalizer`, `DropFinalizer` | `handleFinalizer`, SO 185-239 |
| `RestoreGet`, `RestorePut`, `Rewrite` | `restoreReplicas` and the second write of its callers, SO 72-107, 215-227, 277-292 |
| `SnapshotGet`, `SnapshotPut`, `ScaleToZero` | `snapshotReplicas`, `handleSleep`, SO 51-70, 241-275 |
| `UpdateStatus`, `StatusPut` | `updateStatus`, SO 297-330 |

`Fail` is where every error goes: outside `handleFinalizer` the reconcile ends
and is retried; inside, a conflict re-runs the closure with the `count` read
before it, up to `MaxTries` times, and any other error is dropped because
`Reconcile` returns only when `done` is true, so the worker goes on to sleep or
wake the workload (`Proceed`).

The environment: status writes and labels by others (`Touch`), scaling
(`Scale`), deletion and creation of the workload, an annotation made unreadable
or empty (`Garble`), creation, deletion and edits of orders, the policy controller's
update that carries no finalizer (`PolicyUpdate`), the clock (`Tick`), failed
calls (`ApiError`) and crashes. `Env` says which of them a run has.
`spoilt` is a history variable, which no step of the controller reads. It turns
TRUE when somebody else scales the workload or edits the annotation, and when
`restoreReplicas` answers 0 for a workload that is there (SO 83, `AnswersZero`):
the annotation is empty, or it is missing among annotations of others. From
then on the count of the manifest is nobody's promise, and the properties that
speak of it stop there. `Bare` says that a workload has no annotations of
others. Every real Deployment has one (`deployment.kubernetes.io/revision`), so
`Bare` is FALSE in all runs, and no theorem assumes it.
`phase[o]` is what `GetTimeState` would answer for the order now, "invalid" for
a spec it refuses. It is read once per reconcile, as in the code; the schedule
itself is the business of `Schedule`.

`Workload` has four variables (does the workload exist, its replicas, the
remembered count, the orders that hold it) and a handful of actions.
`SleepOrder` gives the refinement mapping (`Promise`), under which a spoilt
workload is one that is not there, and `ImplementsWorkload` is checked as a
property.

### Schedule, SleepClock, SleepTimer

A local time is a weekday and a tick of the day; a working-days string is the
set of what its commas and dashes split it into, with -1 for a day `parseDay`
does not know: `isDayWorking` looks for a part that covers the day, in
whichever order they stand. `SleepClock` walks through all of it. `SleepTimer`
adds the work queue (one order: queued or not), the delaying timer of
`RequeueAfter`, a reconcile that takes time, errors, restarts and edits of the
schedule. The clock is read at odd ticks and events fall on even ones, because
a reading in nanoseconds does not hit a full minute.

### SleepPolicy

`policy`/`pcache` and `order`/`ocache` are the stored and the cached objects;
a delivered change of a policy puts it in `queue`. An order is named by its
policy and workload (`getSleepOrderName`). `worker` runs one `Reconcile`, one
step per write:

| Action | Code |
|---|---|
| `Reconcile` (`Fetch`, `Chosen`, `Complete`) | SP 46-59, 129-165, SL 19-126 |
| `FixSpec`, `RemoveFinalizer`, `AddFinalizer` | SP 60-85 |
| `Build` (`Desired`, `Effective`), `Prune`, `PruneDone` | SL 128-228 |
| `Deploy`, `DeployDone`, `UpdateStatus` | SL 230-312, SP 97-118 |

The SleepOrder controller appears as `HoldOrder` (it adds its finalizer) and
`ReleaseOrder` (it lets a deleted order go) and `ForgoOrder` (it takes the
finalizer off the order of a missing workload), the garbage collector as
`Collect`, users as the disturbances. `MaxEdits` bounds the number of
disturbances in a behaviour.

### SleepPod

The two controllers meet in the orders. `SleepPod` has the variables of both
modules and sees every order from both sides: in `made` as the policy
controller makes it (parameters, owner), in `order` as the SleepOrder
controller carries it out (status, and the phase of its schedule). A step that
writes an order is a step of both modules at once: `Deploy` is
`SleepPolicy!Deploy` together with `CreateOrder` or `PolicyUpdate` of
`SleepOrder`; `Delete` goes with `DeleteOrder`; `Told` carries back what a
step of the SleepOrder controller does to the finalizer. `HoldOrder`,
`ForgoOrder` and `ReleaseOrder` are not actions here: that the SleepOrder
controller's own steps are never anything else is the property
`AsPolicyExpects`. Others may write the workload's status before
the worker's steps named in `TouchAt` (`Touch`), as long as disturbances are
left. Orders with the same parameters are in the same phase, and
`Tick` moves them together.

### Configuration, Defaults, PolicyClock

An environment gives every field of `Config` a value, `Unset`, or, for a number
or a truth value, one its parser does not accept (`Readable` says which it
does); `Load` falls back to the built-in constant for the last two. Strings and
the list of exclusions are taken over whatever they say (`config.go` 94-99,
110-115): a weekend that names no day is a weekend. The weekend is the sequence of its
comma-separated parts, each with the day it names and whether it spells it in
full, because `calculateWorkingDays` compares full names only (SL 332) where
`parseDay` also reads abbreviations. `ResolveParams` has the arguments of
`resolveParams`; the policy's own time zone is not one of them.

`PolicyClock` picks a configuration and an entry, and lets `SleepClock` run
under the schedule that follows. Its properties therefore speak of the whole
way from `SLEEPOD_WEEKEND` to the state of a workload at a moment.

### Namespace

`ns` and `policy` are stored, `seen` and `listed` what the caches return;
`queued` and `timer` are the work queue and the delayed requests, of which
only the soonest matters. Time runs in ticks of universal time; a day of the
configured zone begins `Offset` ticks earlier. `worker` runs one `Reconcile`:

| Action | Code |
|---|---|
| `Reconcile` (`Needs`, `Wait`, `RequeueAfter`) | the reads and early returns, NS 29-58, 74-85 and 139-164 |
| `SweepList`, `Sweep` | policies of an excluded namespace, NS 57-71 |
| `Expire` | the deletion at the date, NS 86-92 |
| `Annotate` (`ExpirationDate`) | writing the date, NS 94-112 |
| `ListPolicies`, `CreateDefaultSleepPolicy` | NS 117-136, 165-186 |

What an error does depends on the call, as in the code: at the sweep and the
list it asks for a reconcile after the delay, at the creation it is retried
at once, at the date's write the worker goes on, at the deletion and at the
sweep's list it is dropped. A write is refused if the stored namespace is not
the one the copy was taken from (`fresh`); the deletion is by name and is not.
`SetDate` is a user writing the date, `typed` remembers that one did.
`ReleasePolicy` is the SleepPolicy controller finishing a deletion,
`EmptyNamespace` and `Vanish` are Kubernetes' namespace controller.

## 3. Runs

All runs are in `PROJECT.json`; the instance of each is its `.cfg`.

| Run | Result | Shows | Instance |
|---|---|---|---|
| `order_faults` | pass, 1.2 M states | against all that the cluster may do: `RestoreExact` (an annotation removed is the count restored), `Recoverable` (the count of the manifest can be read off the workload) and `StatusOriginal` (a status reports it) | 1 order, cache 1 behind, no retry, all of `EnvKinds` |
| `order_calm` | pass, 157 k | `Recoverable`, `Guarded`, `StatusOriginal`, `DeletionRestoresUnspoilt`, `OnlyRetriesSpoil`, the refinement `ImplementsWorkload`; `DeletionCompletes` and `Converges` under fairness | 2 orders on one workload, 1 retry, caches up to date, status writes of others, deletions and crashes |
| `order_touched` | violation | `DeletionRestores` fails when one write by another controller falls between the two restoring writes | 1 order, `Touch` |
| `clock` | pass, 54 k | `MatchesShifts`, `NextEventIsNearest`, `RangesWalkForward`, `NoMissedFlip`; `WeekendOff`: a configured weekend is off | day of 6 ticks, all 30 pairs of distinct times, 6 kinds of working days, 6 configurations |
| `timer` | pass, 13 k | `Armed`, `Punctual` | day of 8, a day shift and an overnight one |
| `timer_slow` | violation | `Punctual` fails if the first reconcile after a restart outlasts the next event | as `timer`, `SlowStart` |
| `policy` | pass, 690 k | `NoRivals`, `UpToDate`, `NoneLeftDeleting` | 3 policies, 1 workload, 3 specs, 3 disturbances |
| `policy_live` | pass | `Converges` under fairness, orders' cache lagging | 2 policies, 2 specs, 2 disturbances |
| `policy_gap` | violation | `ManagedAtRest` fails when a workload is disabled and enabled again while its order is being deleted | 2 policies, 3 edits |
| `pod` | pass, 1.8 M | `AsPolicyExpects`: the composition implements `SleepPolicy`; `DeletionRestores` and `CountKept` (the count can be read off the workload, and a status reports it) while policies and schedules take over from one another, up to an answer of 0 | 2 policies, 2 specs, 2 disturbances of any kind, status writes of others |
| `namespace` | pass, 817 k | `Armed`, `LivesItsDays`; `TTLApplies`, `HasPolicyWithoutTTL`, `Swept` under fairness | 7 configurations, day of 3 ticks, 2 policies, 2 disturbances |
| `namespace_ttl` | violation | `PolicyAtRest` fails for a namespace that has a date before it is first looked at | TTL enabled, 1 disturbance |

### The four violations

* **A deletion may leave the workload at zero** (`order_touched`). The
  deletion of a sleeping order restores the workload in `restoreReplicas` (SO
  106) and writes it again (SO 223). If the deployment controller writes its
  status in between, the second write is refused, the closure runs again with
  `currentReplicas` still 0, finds no annotation, writes 0, and the finalizer
  goes. `OnlyRetriesSpoil` of `order_calm` says that, with caches up to date
  and a workload that stays, a retry like this is the only way to that 0, and `DeletionRestoresUnspoilt` that a
  deletion restores the count otherwise.
* **An event may be missed** (`timer_slow`): `time.Until` is taken after the
  writes (SO 321); if the event has passed it is not positive, which sets no
  timer.
* **A workload may be left without its order** (`policy_gap`): an order that is
  being deleted counts as existing, and nothing watches it go.
* **A dated namespace never gets its policy** (`namespace_ttl`): with the TTL
  enabled, the wait for a date that is already there returns (NS 84) before
  the policies are looked at. The first reconcile of an undated namespace
  goes on to create the policy, which is why this is easily overlooked; but
  `README.md` invites users to write the date themselves.

### Known divergences without a run

* *An update undoes a deletion's restore.* The order that
  `DeploySleepOrderResource` updates is built from nothing (SL 251-267, 300)
  and carries no finalizer. When the policy comes to ask for other times while
  an order that was deleted still waits for the SleepOrder controller, the
  update lets it go at once: its workload stays asleep, without an order,
  until the resync makes a new one. The count stays in the annotation.
  `DeletionRestores` of `SleepPod` leaves this step aside (`~Deploy(k)`); without
  that conjunct it fails at `MaxEdits = 3` (a policy, an edit, a deleted order).
* *Caches that lag.* The code reads the workload and its order through two
  caches and bounds the age of neither. If the workload's copy is from before
  the scale-down, the deletion sees replicas above 0, restores nothing and
  takes the finalizer off (SO 214): `DeletionRestoresUnspoilt` and `Guarded` fail. If it
  is from before a restore, the worker restores again and is answered 0 without
  any retry: `OnlyRetriesSpoil` fails, and a running workload is scaled to
  zero. If the order's is from before its finalizer went, a second reconcile gets a
  NotFound at line 231, which does not stop it, and scales the workload down
  for an order that is gone: `Guarded` fails. TLC finds the first two in the
  instance of `order_calm` with `MaxLag = 1`, the third if in addition the
  worker may look at the workload only when its cache has caught up. Where
  nothing answers 0 the count stays in the annotation (`CountNeverLost` holds
  for every lag), and `DeletionsRestoreBehind` says what is left of
  `DeletionRestoresUnspoilt`.
* *A workload created again.* If the workload is deleted and created again
  between the reading of its replicas and `restoreReplicas`, the new one, which
  runs and has no annotation of the controller, is answered 0 and scaled to it:
  `Recoverable` and its kin stop there. `OnlyRetriesSpoil` fails with "recreate"
  in `Env`.
* *A deletion before the finalizer.* An order deleted between its creation and
  the worker's first write has no finalizer to wait for; the NotFound at SO 201
  is ignored, and the workload is put to sleep for an order that is gone.
  `Guarded` fails with "early" in `Env`.
* *Equal times.* With `wakeAt` equal to `sleepAt` (TI 54) the workload is awake
  all of a working day and changes its state at midnight, which no event
  announces: `NoMissedFlip` is false of such a schedule. The runs and theorems
  that need it take schedules whose two times differ.
* *A namespace goes a day early.* The date is a day of the configured zone when
  it is written (NS 101) and midnight in universal time when it is read (NS
  149). West of universal time that midnight falls on the day before, although
  the log line speaks of "today" (NS 86). `LivesItsDays` states what is left:
  it subtracts the zone's offset.
* *A deletion may wait for ever.* `restoreReplicas` refuses a workload without
  any annotation at 0 replicas (SO 79), and one whose annotation is no number
  (SO 89), although its comment at line 84 wants the finalizer's removal to
  continue; each reconcile of the deleted order then ends in that error.
  `DeletionCompletes` is checked where nobody else scales the workload or edits
  the annotation. The same holds of an order whose time zone is invalid: the
  error comes before the finalizer is looked at (SO 142).
* `spec.timezone` of a policy is documented (`api/v1alpha1/sleeppolicy_types.go`
  line 54) and never read (SL 186).
* A weekend that covers the whole week gives an empty list of working days,
  which `isDayWorking` reads as every day (SL 341); a weekend of abbreviations
  excludes nothing (SL 332). `WeekendOff` leaves both aside.
* `README.md` line 45 names `SLEEPOD_NAMESPACE_TTL_DAYS`; `config.go` line 67
  and the chart read `SLEEPOD_NAMESPACE_EXPIRATION_TTL_IN_DAYS`. The list of
  excluded namespaces is split and not trimmed (`config.go` line 113).

### Bounds, and why they are enough

* `MaxLag`: versions of an object the cache may be behind. With 0 the worker's
  copies are outdated only by writes made during the reconcile; 1 adds
  reconciles that begin with old copies. Larger lags add older copies of the
  same kinds: a version is compared with the stored one for freshness only,
  and the theorems of `SleepOrderProofs`, and `NobodyLeftAsleep` and
  `DeletionsRestoreBehind` as to the orders, hold for every lag.
* `MaxTries`: `retry.DefaultRetry` has 5 attempts. One retry (`order_calm`,
  `order_touched`) shows what a repetition does, 0 (`order_faults`) what the
  last one does; the theorems hold for any number.
* `Desired = 2`, `Counts`: a count is compared with 0, with itself and with
  the annotation. `order_faults` scales to 0, the count the code tells apart;
  a later wake then restores or is answered 0. The theorems hold for any
  counts.
* Two orders are enough for one to sleep and one to wake the same workload.
* `DayLength`: six ticks give every order of two times and now, with room
  between them; the theorems on the clock hold for any length. In `Namespace`
  three ticks keep a zone east and one west of universal time apart from it
  and from each other on every day; its theorems hold for any length and any
  offsets.
* `MaxTime = 6`: two days, so that a namespace born late passes its delay, its
  date and the midnight between them; the instances are born at 0 to 5 to
  meet each of these near the end and near the beginning of a day.
* The seven instances of `Namespace`: built-in values, an exclusion by the
  controller's own namespace, the TTL with an unreadable delay, a zone west
  with two days, a zone east with a TTL below zero, an unknown zone, and the
  namespace `default`.
* `MaxLate`: how far a reconcile may outlast its event, two steps of the clock.
* `MaxEdits`: in `Namespace` two, which is a deletion and a creation under the
  same name, a date written and a restart, an error and an exclusion. In
  `SleepPolicy` three disturbances reach a shadowed policy's deletion, two
  policies without a default one, and off-and-on again.
* `SleepPod`: two policies are enough for one to take over from another, two
  schedules for an order to be updated, one workload because orders of
  different workloads share nothing but the policy. `MaxTries = 0`: retries
  are within the SleepOrder controller and are left to its own runs. `Touch`
  happens while disturbances are left (`edits < MaxEdits`) and uses none up,
  and in the run before the steps of `handleFinalizer` and `restoreReplicas`
  (`TouchAt`): elsewhere the refused write just ends the reconcile. What a touch
  does to a deletion is in `order_calm`; the theorems hold for any `MaxEdits` and
  `TouchAt`. The
  workload's liveness there follows in two steps, each checked in its own
  module: the orders come to be those asked for (`Converges` of `SleepPolicy`),
  and the workload follows its orders (`Converges` of `SleepOrder`).
* `DeliverOrder` of `SleepPolicy` jumps to the newest version.

### Fairness

* The worker takes its next step (`WF(WorkerStep)`): calls return, with an
  answer or an error.
* Informers deliver (`WF(DeliverTarget)` and its kin).
* `SF(Reconcile(x))`: the queue is first-in first-out, so a request is served
  although the worker is busy with others in between; that an existing order
  is requested again and again is the resync of the informer cache, errors'
  retries and the timer. For policies the resync is an action of its own
  (`WF(Resync)`), which is why `Converges` holds where `ManagedAtRest` fails.
* Crashes, and writes of others to the workload, come to an end
  (`SleepOrder`): a manager that crashes for ever reconciles nothing, one whose
  every write is overtaken writes nothing, and the deployment controller
  reports a scaling in a bounded number of writes.
  `[WorkerStep \/ ~(Crash \/ Touch \/ DeleteTarget)]` is what is said to hold
  from some moment on: a step that ends a reconcile also makes the worker idle,
  and without the first disjunct no behaviour with an endless run of reconciles
  would be fair. The mutants of `DeletionCompletes` and `Converges` show that the
  condition leaves such behaviours in.
* `Namespace`: the worker steps, a due timer fires, informers deliver, the
  resync comes again, and the SleepPolicy controller lets a deleted policy go
  (`NoneLeftDeleting`). The properties hold although the clock may stop.
* `SleepPolicy`: finalizers are not taken off live orders for ever
  (`<>[][~ForgoOrder(k)]`), because each time the workload must have gone, and
  workloads come and go a bounded number of times (`MaxEdits`).
* Nothing is assumed of users, the clock or faults, nor that the
  SleepOrder controller adds its finalizer; `ReleaseOrder` and `Collect` are
  fair because `DeletionCompletes` of `SleepOrder` and the garbage collector
  stand behind them. That those actions are all the SleepOrder controller does
  is checked by `AsPolicyExpects`.

## 4. Proofs

| Theorem | States | For |
|---|---|---|
| `SleepOrderProofs!TypeCorrect` | `Spec => []TypeOK` | all constants |
| `SleepOrderProofs!RestoresExactly` | `Spec => RestoreExact` | all constants, any environment |
| `SleepOrderProofs!CountNeverLost` | `Spec => []Recoverable` | all constants, any environment |
| `SleepOrderProofs!StatusReportsCount` | `Spec => []StatusOriginal` | all constants, any environment |
| `SleepOrderPromise!KeepsPromise` | `Spec => ImplementsWorkload` | `Calm`; any orders and retries |
| `SleepOrderPromise!AlwaysGuarded` | `Spec => []Guarded` | `Calm`; any orders and retries |
| `SleepOrderPromise!NobodyLeftAsleep` | `Spec => [][Controller /\ ~spoilt => LetsGoAwake]_vars` | the workload read up to date; all constants, any environment |
| `SleepOrderPromise!DeletionsRestoreBehind` | `Spec => DeletionRestoresUnspoilt` | the workload read up to date, no update drops a finalizer |
| `SleepOrderPromise!DeletionsRestore` | `Spec => DeletionRestoresUnspoilt` | `MaxLag = 0`, no update drops a finalizer |
| `SleepOrderPromise!SpoiltByRetries` | `Spec => OnlyRetriesSpoil` | `Retrying` |
| `SleepClockProofs!NearestAnnounced` | `Spec => []NextEventIsNearest` | every day length, any schedules |
| `SleepClockProofs!RangesWalk` | `Spec => []RangesWalkForward` | any list of working days |
| `SleepClockProofs!ShiftsAreMatched` | `Spec => []MatchesShifts` | every day length, schedules whose two times differ |
| `SleepClockProofs!ChangesAnnounced` | `Spec => NoMissedFlip` | every day length, schedules whose two times differ |
| `SleepClockProofs!WeekendsAreOff` | `PolicySpec => []WeekendOff` | any configurations and entries, every day length, schedules whose two times differ |
| `SleepTimerProofs!TypeCorrect` | `Spec => []TypeOK` | all constants |
| `SleepTimerProofs!AlwaysArmed` | `Spec => []Armed` | every day length, any schedules; `~SlowStart`, no reconcile six days late |
| `SleepTimerProofs!AlwaysPunctual` | `Spec => []Punctual` | as before, schedules whose two times differ |
| `SleepPolicyProofs!TypeCorrect` | `Spec => []TypeOK` | all constants |
| `SleepPolicyProofs!NoPolicyLeft` | `Spec => []NoneLeftDeleting` | all constants, the orders' cache lagging or not |
| `SleepPolicyProofs!OnePolicyRules` | `Spec => []NoRivals` | `~Lagging`; any policies, workloads, users and faults |
| `SleepPolicyProofs!SchedulesUpToDate` | `Spec => []UpToDate` | as before |
| `SleepPodProofs!TypeCorrect` | `Spec => []TypeOK` | all constants |
| `SleepPodProofs!PolicyModelSuffices` | `Spec => AsPolicyExpects` | all constants |
| `SleepPodProofs!PoliciesRule` | `Spec => [](P!NoneLeftDeleting /\ P!NoRivals /\ P!UpToDate)` | all constants |
| `SleepPodProofs!DeletionsRestore` | `Spec => DeletionRestores` | all constants |
| `SleepPodProofs!CountSurvives` | `Spec => []CountKept` | all constants |
| `SleepPodProofs!RestoresExactly` | `Spec => O!RestoreExact` | all constants |
| `NamespaceProofs!TypeCorrect` | `Spec => []TypeOK` | all constants |
| `NamespaceProofs!DaysAreLived` | `Spec => LivesItsDays` | every day length, offsets, delay and number of days |
| `NamespaceProofs!NothingForgotten` | `Spec => []Armed` | all constants |

They rest on the `ASSUME`s of the modules (`SleepOrderAssumption`,
`ScheduleAssumption`, `SleepTimerAssumption`, `ConfigurationAssumption`,
`SleepPolicyAssumption`, `SleepPodAssumption`, `NamespaceAssumption`), which
TLC evaluates in every run. `~spoilt` is part of the properties, not an
assumption: it says where the code's own promise ends, at the answer of 0 (which
`order_touched` shows to be reachable), or at the hand of another. `Calm` is
what `KeepsPromise` and `AlwaysGuarded` assume besides: the caches are up to
date, nobody updates an order or deletes one that has no finalizer yet, and calls
fail by a conflict or a missing object only; the status writes of others,
scalings, edits of the annotation, crashes and the workload's own deletion and
creation are all there. `Retrying` is that without the workload's creation, and
with at least one retry; orders may be edited, and deleted early. Two
theorems suppose of a behaviour that the worker reads the workload only when its
cache has caught up (`[][Looks => Synced(target)]_vars`; with `MaxLag = 0` every
behaviour is one of these). Without it they are false: see "Caches that
lag" above. `~Lagging` says that the cache of the orders shows what is stored.
It is needed: with a cache behind, the order a reconcile has just made may be
missing from the list the next one prunes by, and until the resync `NoRivals`
is false at rest; so is `UpToDate`, when an order that was just made or
updated is compared by an older copy (TLC finds both when `Lagging` is TRUE).

* *Types.* `TypeOK` alone is not inductive: a worker about to scale down must
  hold a number as its snapshot, and a busy worker must have an order.
  `TypeInv` adds that (`Sound`). `PublishVersions` and `VersionsSeen` say once
  what a write and the cache do to a sequence of versions; `PutOrderTypes` and
  `PutTargetTypes` reduce each write to its two continuations.
* *RestoreExact.* `FreshInv` relates the worker's copy to the stored object: a
  worker about to restore, from a copy the server would accept, holds the
  stored annotation as its new count; about to write again, it has left no
  annotation. Only two steps can remove an annotation, and by `PutTargetStored`
  either the write was refused or the copy was fresh.
* *Recoverable.* `CountInv` says that every version of the workload, not only
  the stored one, shows the count, and that every copy the worker may write
  does; a step to snapshot is reached only with a copy that has no annotation.
  The invariant must speak of the copies in every step of `handleFinalizer`,
  because a dropped error goes on with them (`OnwardKeeps`). An answer of 0 ends
  it, and nothing else the controller does: that is what the theorem says of
  whoever looks for the way a count was lost.
* *StatusOriginal.* `StatusInv` rests on `CountInv`: a count read from the
  workload is 0 or the one asked for, and a worker that reports has, since it
  read a 0, taken the count from the annotation or from what it restored.
* *LetsGoAwake, DeletionRestoresUnspoilt.* `TargetKnown` carries all that is
  said of the workload's state: as long as nothing is spoilt, the stored workload
  has one of four shapes, and `Knows` says, for each step of the worker, what
  it may think of the workload, whatever became of the order. Either its copy is
  fresh and shows it, or others have written since and the write ahead will be
  refused; and whoever is about to drop a finalizer has before it no workload
  at zero. A status write of others does no more than make a copy outdated.
  The answer of 0 needs no excluding: it is the step that ends the invariant
  (`SpoilingSteps`). What `Knows` does not say is that a worker on its way to
  restore finds the workload asleep: after a conflict on the order it may find
  it restored already, which is the answer of 0, or gone, and that error sends
  it on and not to the finalizer. `Knows` never asks how old the copy of an
  order is: an old one may lead the worker the wrong way, but not to a
  finalizer whose workload sleeps. For deletions it is added that only what
  exists has a finalizer (`HeldExist`), that a deletion by others leaves a held
  order there, and that this is all others do when no update drops the
  finalizer (`HeldByOthers`).
* *ImplementsWorkload, Guarded.* To these `CalmInv` adds `Secured`: the order
  the worker acts for has its finalizer and cannot go meanwhile, and a finalizer
  is dropped only by the one worker (`OneAtATime`); and `Watched`: a workload at
  zero is held by some order. Each step is then a step of `Workload` or a
  stutter (`TargetKeeps`, `OrderKeeps`); one that spoils the count is, to
  `Workload`, the removal of the workload.
* *OnlyRetriesSpoil.* On the first try the `count` of 0 that leads the worker to
  `restoreReplicas` is that of a workload at zero with its annotation
  (`FirstTry`): nobody but the worker changes the annotation of an unspoilt
  workload, and the worker's own restore goes on to the finalizer or to a retry.
  `Committed` excludes the third way, a NotFound at SO 231 that would send it on
  to restore once more. With `MaxTries = 0` the last conflict goes on as handled
  (`Proceed`) and wakes the workload in the same attempt, which is why
  `Retrying` asks for one retry.
* *NoMissedFlip.* Away from its two times a schedule does not change its mind
  (`SteadyBetweenEvents`): within a day no comparison changes, and at midnight
  an overnight shift goes on as the shift of the day before. With equal times
  this is false: the state changes at midnight between a working day and a day
  off while the event announced is `wakeAt`.

* *The other theorems on the clock.* `NextAtIsFirst` says what `nextAt`
  returns: the way to the first tick, from now on, of that time of day;
  `NearestAnnounced` follows with no invariant but the types.
  `ShiftsAreMatched` needs a fact about remainders: the shift of a day covers
  exactly the moments less than its length after its beginning, today's or
  yesterday's (`ShiftOfDay`, `NearRemainder`).
* *WeekendOff.* `PolicyClock` leaves the schedule it starts with alone (`PolicyIsClock`),
  so `MatchesShifts` holds of
  it, whatever the configuration. What remains is that the list of days that
  `calculateWorkingDays` writes out is read back by `isDayWorking` as the same
  days (`ListOfDays`, `WeekendResolved`): it is, because a weekend spelt in
  full names days `parseDay` knows, and unless it is empty, which
  `isDayWorking` reads as every day. That is why `WeekendOff` leaves a weekend
  of the whole week aside.
* *LivesItsDays.* The step that deletes acts on a copy that may be old, by a
  date whose origin it does not know. `DatedWell` says of every copy (stored,
  cached, held by the worker) of a namespace that no user dated: its date, if
  it has one, is the days' length after its birth and the delay (`LivesOn`).
  It is inductive because a date is written only by a reconcile whose copy was
  old enough and, if the write is accepted, is the stored one; the clock does
  not go back. `DayBegun` does the arithmetic: what is left of a day that has
  begun is less than a day.
* *Armed.* It speaks of a controller at rest, and is not inductive: the timer
  is set before the namespace's last event is seen. `Covered` says it of the
  cached copy instead, at all times, whatever the worker is doing: if what the
  cache shows would have to wait, a request is queued or a timer covers it.
  At rest the cached copy is the stored one.
* *Armed and Punctual of the timer.* At rest is again too late to ask.
  `TimerNamed` says that a timer runs out no later than the event the status
  names, whoever set it. So when an event passes during a reconcile, either
  the timer has queued the order (`queued`), or the event is not the one the
  status names, and the status that the reconcile writes differs from the
  stored one, whose change queues the order (`HandlerCurrent`). This is where
  `SlowStart` would break it: after a restart there is a status and no timer.
  Moments are remainders of a week: `MomentOnce` needs a reconcile to be less
  than six days late, lest an event be taken for that of another week.

* *NoneLeftDeleting.* At rest is once more too late to ask. `DeletionsSeen`
  says at all times that a deletion the cache shows is requested, or is in the
  hands of the worker at a step that leads to the finalizer, or is done. It
  needs `StepsFit` (which copies a step is reached with), and `FreshCopy` (a
  copy the API server would accept is the stored policy), because the worker
  forgets the request and only an accepted write may let it do so. An update
  that is refused, fails or is cut short leaves a request behind.
* *NoRivals, UpToDate.* The invariant `OrderInv` follows a reconcile through
  its stages. A worker with no request left behind it acts on what the cache
  still shows (`CurrentCopy`: anything that changes the cache makes a
  request). So while it prunes, every order it has passed is being deleted or
  is wanted (`StageInv`); when it has deployed, every order is being deleted or
  is as the policy in force asks for it; and that is what it leaves behind
  (`RestInv`). `Owned` is needed for orders whose policy is gone: the garbage
  collector has them, because a policy that makes orders is held by its
  finalizer until the worker lets it go (`HeldPolicy`).
* *The composition.* `SleepPodProofs` proves nothing again that is proved of
  the parts. It has each part a second time, as an instance of the part's
  proofs (`PP`, `OO`), and shows once that the definitions are the same
  (`SamePolicySide`, `SameOrderSide`). What is new is `Agreed`: both sides see
  the same orders, an order that is gone is nothing to the policy side, and
  one being deleted still has its finalizer. With it, each step of the
  composition is a step of both parts (`MakerBoth`, `ClusterBoth`) or the
  clock's, and `WorkerTold` finds, for each step of the SleepOrder controller,
  that it is `HoldOrder`, `ForgoOrder` or `ReleaseOrder` of the policy side or
  changes nothing there. That is `AsPolicyExpects`, and it carries the
  theorems of the policy controller over (`PoliciesRule`).
* *CountKept and RestoreExact of the composition.* Every step of the pod is a
  step of `SleepOrder` in the environment `Around`, or leaves its objects alone
  (`OrderSteps`). So `CountInv`, `StatusInv` and `FreshInv` hold here, too
  (`CountSteps`, `StatusSteps`, `FreshSteps`): none of them speaks of the
  orders' finalizers, which the policy's updates drop.
* *DeletionRestores of the composition.* `CalmInv` is of no use where
  `DeploySleepOrderResource` updates an order: the update takes the finalizer
  away under the feet of a worker that relies on it, and an order may sleep
  without one. `TargetKnown` does without, and every step of the pod keeps it.

Only model-checked: liveness (`DeletionCompletes`, the two `Converges`,
`TTLApplies`, `HasPolicyWithoutTTL`, `Swept`), which is out of the prover's
reach under fairness. Every invariant and action property that a passing run
checks is a theorem as well.

## 5. What the models leave out

* Summer time: offsets from UTC are constant.
* A failed call is not applied: a write that took effect although its answer
  was lost is not modelled.
* An update of a policy or order in `SleepPolicy` is refused when the copy
  differs from what is stored; two changes that cancel out are not noticed.
* The count in the annotation is kept as the number it says: `int32(replicas)`
  (SO 92) is the identity on counts the controller wrote itself, and a larger
  number that somebody else wrote is not modelled.
* An order is named by its policy and workload. `getSleepOrderName` (SL 314)
  joins the names with dashes, so a policy `a` with a workload `b-dep-c` and a
  policy `a-dep-b` with a workload `c` would share the name of an order; such
  names are not modelled.
* The times and zones a configuration gives are ones `parseSchedule` reads (an
  unknown zone is in `Namespace`): an order with others is "invalid" to
  `SleepOrder`, and has no schedule in `PolicyClock`.
* `SleepPod` has the caches of the orders and of the workload up to date, and
  nobody scales or annotates the workload or edits an order's spec there, and
  calls of the SleepOrder controller fail there by a conflict or a missing
  object only: the rest are the runs of `SleepOrder`, and `NobodyLeftAsleep`
  allows for calls that fail.
* `NextOperationTime` in `SleepOrder`'s status: `UpdateStatus` may or may not
  find it changed. `SleepTimer` has its value.
* `order_calm` and `policy_live` are under caches and bounds as in their
  `.cfg`; with the orders' cache lagging `NoRivals` and `UpToDate` do not hold
  before the next resync.
* Liveness of `SleepOrder` says nothing of an order whose spec became invalid:
  its deletion waits for a valid one (SO 142).
* In `Namespace` the worker's copy is outdated once a disturbance has written
  the namespace; whether the cached copy is, is decided by comparing it with
  the stored one, so two changes that cancel out are not noticed. `SetDate` is
  there only with the TTL enabled, because otherwise nothing reads the date.
  Configuration and name stay as they are for a behaviour: both are constants
  of the process, and a restart with another configuration is not modelled.
* `LivesItsDays` says nothing of a namespace that is deleted by the copy of an
  earlier one of the same name: `r.Delete` is by name (NS 87), the copy may be
  its predecessor's, and no document promises otherwise.
* Not modelled: the manager's wiring (a failover is `Crash` or `Restart`), API
  types and generated code, the chart. They hold no state that changes.

## 6. Plan

1. Done: `SleepOrder` with `Workload`; `Schedule`, `SleepClock`, `SleepTimer`;
   `SleepPolicy`; `Configuration`, `Defaults`, `PolicyClock`; `Namespace`; the
   proofs above.
2. Done: `SleepPod`, the composition of `SleepPolicy` and `SleepOrder`.
3. Done: the theorems of `SleepPolicy` and of the composition.
4. Done: the theorems on deletions with copies of the orders that lag, and all
   theorems with status writes of others and annotations of others. `Calm`
   cannot do without caches up to date: its promise is false with either of
   them behind.
5. Left: runs of `SleepPod` with caches that lag, for what the resync repairs
   there; liveness of the composition, which is argued from its parts (section
   3, bounds).
