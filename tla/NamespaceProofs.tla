--------------------------- MODULE NamespaceProofs ---------------------------
(***************************************************************************)
(* The types of the namespace controller, that it lets a namespace live    *)
(* its days, and that it forgets none at rest: for every length of the     *)
(* day, time zone, delay and TTL, and any users, errors and restarts.      *)
(***************************************************************************)
EXTENDS Namespace, TLAPS

\* A date is written only in a zone that is known.
TypeInv == TypeOK /\ (At("annotate") => ZoneKnown)

\* The configuration's numbers are numbers.
LEMMA Settings ==
  ASSUME TypeOK
  PROVE  /\ Delay \in Int /\ config.expirationTTLInDays \in Int
         /\ ZoneKnown => Offset[config.defaultTimezone] \in Int
BY NamespaceAssumption DEF TypeOK, Delay, ZoneKnown

\* The date written is a day.
LEMMA DateIsDay ==
  ASSUME TypeOK, ZoneKnown PROVE ExpirationDate \in Int
<1>1. /\ config.expirationTTLInDays \in Int /\ clock \in Int
      /\ Offset[config.defaultTimezone] \in Int
      /\ DayLength \in Int /\ DayLength > 0
  BY Settings, NamespaceAssumption DEF TypeOK
<1> QED BY <1>1 DEF ExpirationDate

\* A delayed request is due at a time of the clock.
LEMMA TimerTypes ==
  ASSUME TypeOK, NEW after \in Int, RequeueAfter(after)
  PROVE  timer' \in Nat \cup {None}
BY NamespaceAssumption DEF TypeOK, RequeueAfter

\* A deletion leaves the policies in their three states.
LEMMA DoomTypes ==
  ASSUME TypeOK, NEW p \in Policies, Doom(p)
  PROVE  policy' \in [Policies -> {"none", "live", "deleting"}]
BY DEF TypeOK, Doom

\* The worker at rest, and a namespace that is gone.
LEMMA IdleTypes ==
  /\ Gone \in Namespace /\ Gone.date = None
  /\ Idle = [pc |-> "idle", copy |-> Gone, fresh |-> FALSE, todo |-> {}]
BY DEF Gone, Idle, Namespace

\* What TypeInv says of the worker, in one word.
WorkerOK(wk) ==
  /\ wk \in Worker
  /\ wk.pc = "expire" => wk.copy.date \in Int
  /\ wk.pc = "annotate" => ZoneKnown

\* TypeInv, with the worker's part in that word.
LEMMA TypeParts ==
  TypeInv <=> /\ \E i \in Instances : name = i.name /\ config = i.config
              /\ clock \in 0..MaxTime
              /\ ns \in Namespace /\ seen \in Namespace
              /\ policy \in [Policies -> {"none", "live", "deleting"}]
              /\ listed \subseteq Policies
              /\ queued \in BOOLEAN /\ timer \in Nat \cup {None}
              /\ typed \in BOOLEAN /\ edits \in 0..MaxEdits
              /\ WorkerOK(worker)
BY DEF TypeInv, TypeOK, WorkerOK, Worker, At

\* What a reconcile needs determines the worker's next step.
LEMMA NeedsTypes ==
  ASSUME TypeOK
  PROVE  /\ Needs(seen) \in {"stop", "wait", "sweepList", "list", "annotate",
                             "expire"}
         /\ Needs(seen) = "expire" => seen.date \in Int
                                      /\ clock >= ExpiresAt(seen.date)
                                      /\ ZoneKnown
         /\ Needs(seen) = "annotate" => ZoneKnown /\ ~Young(seen)
         /\ Needs(seen) = "wait" => Wait(seen) \in Int
<1>1. seen \in Namespace /\ clock \in Int /\ DayLength \in Int /\ Delay \in Int
  BY Settings, NamespaceAssumption DEF TypeOK
<1>2. seen.date \in Int \cup {None, Bad} /\ seen.born \in Int
  BY <1>1 DEF Namespace
<1>3. seen.date \in Int => ExpiresAt(seen.date) \in Int
  BY <1>1 DEF ExpiresAt
<1>4. CASE Young(seen) \/ ~seen.exists \/ Excluded(seen)
  BY <1>4, <1>1, <1>2 DEF Needs, Wait
<1>5. CASE ~Young(seen) /\ seen.exists /\ ~Excluded(seen)
  <2>1. Needs(seen) = NeedsManaged(seen)
    BY <1>5 DEF Needs
  <2>2. Wait(seen) = ExpiresAt(seen.date) - clock
    BY <1>5 DEF Wait
  <2> QED BY <1>1, <1>2, <1>3, <1>5, <2>1, <2>2 DEF NeedsManaged
<1> QED BY <1>4, <1>5

-----------------------------------------------------------------------------
(* Types.                                                                  *)

LEMMA InitTypes == Init => TypeInv
<1> SUFFICES ASSUME Init PROVE TypeInv
  OBVIOUS
<1>1. clock \in 0..MaxTime /\ clock \in Nat
  BY NamespaceAssumption DEF Init
<1>2. ns \in Namespace
  BY <1>1, IdleTypes DEF Init, Gone, Namespace
<1>3. WorkerOK(worker)
  BY IdleTypes DEF Init, WorkerOK, Worker
<1>4. edits \in 0..MaxEdits
  BY NamespaceAssumption DEF Init
<1> QED BY <1>1, <1>2, <1>3, <1>4, TypeParts DEF Init

\* A step keeps the types: one case per action.
LEMMA StepTypes ==
  ASSUME TypeInv, [Next]_vars PROVE TypeInv'
<1> DEFINE Whose == \E i \in Instances : name = i.name /\ config = i.config
           States == {"none", "live", "deleting"}
           Timers == Nat \cup {None}
<1>a. /\ Whose /\ clock \in 0..MaxTime
      /\ ns \in Namespace /\ seen \in Namespace
      /\ policy \in [Policies -> States] /\ listed \subseteq Policies
      /\ queued \in BOOLEAN /\ timer \in Timers
      /\ typed \in BOOLEAN /\ edits \in 0..MaxEdits /\ WorkerOK(worker)
      /\ TypeOK
  BY TypeParts DEF TypeInv
<1>b. ASSUME Whose', clock' \in 0..MaxTime, ns' \in Namespace,
             seen' \in Namespace, policy' \in [Policies -> States],
             listed' \subseteq Policies, queued' \in BOOLEAN,
             timer' \in Timers, typed' \in BOOLEAN,
             edits' \in 0..MaxEdits, WorkerOK(worker)'
      PROVE  TypeInv'
  BY <1>b DEF TypeInv, TypeOK, WorkerOK, Worker, At
<1>c. WorkerOK(Idle) /\ WorkerOK([Idle EXCEPT !.pc = "list"])
  BY IdleTypes DEF WorkerOK, Worker
<1>d. ASSUME UNCHANGED rigid
      PROVE  Whose' /\ (WorkerOK(worker)' <=> WorkerOK(worker'))
  BY <1>a, <1>d DEF rigid, WorkerOK, Worker, ZoneKnown
<1>e. /\ \A q : q \in {p \in Policies : policy[p] # "none"} => q \in Policies
      /\ Existing \subseteq Policies
  BY DEF Existing
<1>f. clock \in Int /\ Delay \in Int
  BY <1>a, Settings, NamespaceAssumption
<1>g. \A after \in Int : RequeueAfter(after) => timer' \in Timers
  BY <1>a, TimerTypes
<1>h. \A p \in Policies : Doom(p) => policy' \in [Policies -> States]
  BY <1>a, DoomTypes
<1>i. Disturbed => edits' \in 0..MaxEdits
  BY <1>a, NamespaceAssumption DEF Disturbed
<1> HIDE DEF Whose, States, Timers
<1> USE DEF Elsewhere, ReadOnly, Unattended, UserOnly, cluster, caches
<1>1. CASE UNCHANGED vars
  BY <1>1, <1>a, <1>b, <1>d DEF vars, rigid
<1>2. CASE Reconcile
  <2>1. timer' \in Timers
    BY <1>2, <1>a, <1>g, NeedsTypes DEF Reconcile
  <2>2. WorkerOK(worker')
    <3>1. CASE Needs(seen) \in {"stop", "wait"}
      BY <1>2, <1>c, <3>1 DEF Reconcile
    <3>2. CASE Needs(seen) \notin {"stop", "wait"}
      <4>1. worker' = [pc |-> Needs(seen), fresh |-> (seen = ns), todo |-> {},
                       copy |-> IF Needs(seen) = "expire" THEN seen ELSE Gone]
        BY <1>2, <3>2, IdleTypes DEF Reconcile
      <4> QED BY <1>a, <3>2, <4>1, NeedsTypes, IdleTypes DEF WorkerOK, Worker
    <3> QED BY <3>1, <3>2
  <2> QED BY <1>2, <1>a, <1>b, <1>d, <2>1, <2>2 DEF Reconcile
<1>3. CASE SweepList
  <2>1. WorkerOK(worker')
    BY <1>3, <1>a, <1>c DEF SweepList, WorkerOK, Worker, At
  <2> QED BY <1>3, <1>a, <1>b, <1>d, <2>1 DEF SweepList
<1>4. ASSUME NEW p \in Policies, Sweep(p) PROVE TypeInv'
  <2>1. timer' \in Timers /\ policy' \in [Policies -> States]
    BY <1>4, <1>a, <1>f, <1>g, <1>h DEF Sweep
  <2>2. WorkerOK(worker')
    BY <1>4, <1>a, <1>c DEF Sweep, WorkerOK, Worker, At
  <2> QED BY <1>4, <1>a, <1>b, <1>d, <2>1, <2>2 DEF Sweep
<1>5. CASE Expire
  <2>1. ns' \in Namespace
    BY <1>5, <1>a DEF Expire, Namespace
  <2> QED BY <1>5, <1>a, <1>b, <1>c, <1>d, <2>1 DEF Expire
<1>6. CASE Annotate
  <2>1. ExpirationDate \in Int
    BY <1>6, <1>a, DateIsDay DEF Annotate, WorkerOK, Worker, At
  <2>2. ns' \in Namespace
    BY <1>6, <1>a, <2>1 DEF Annotate, Namespace
  <2> QED BY <1>6, <1>a, <1>b, <1>c, <1>d, <2>2 DEF Annotate
<1>7. CASE ListPolicies
  <2>1. WorkerOK(worker')
    BY <1>7, <1>a, <1>c DEF ListPolicies, Goto, WorkerOK, Worker, At
  <2> QED BY <1>7, <1>a, <1>b, <1>d, <2>1 DEF ListPolicies
<1>8. CASE CreateDefaultSleepPolicy
  <2>1. policy' \in [Policies -> States]
    BY <1>8, <1>a, NamespaceAssumption DEF CreateDefaultSleepPolicy, States
  <2> QED BY <1>8, <1>a, <1>b, <1>c, <1>d, <2>1 DEF CreateDefaultSleepPolicy
<1>9. CASE Tick
  BY <1>9, <1>a, <1>b, <1>d, NamespaceAssumption DEF Tick
<1>10. CASE Fire
  BY <1>10, <1>a, <1>b, <1>d DEF Fire, Timers
<1>11. CASE DeliverNamespace
  BY <1>11, <1>a, <1>b, <1>d DEF DeliverNamespace
<1>12. CASE DeliverPolicies
  BY <1>12, <1>a, <1>b, <1>d, <1>e DEF DeliverPolicies
<1>13. CASE Resync
  BY <1>13, <1>a, <1>b, <1>d DEF Resync
<1>14. CASE Vanish
  BY <1>14, <1>a, <1>b, <1>d, IdleTypes DEF Vanish
<1>15. ASSUME NEW p \in Policies, ReleasePolicy(p) PROVE TypeInv'
  <2>1. policy' \in [Policies -> States]
    BY <1>15, <1>a DEF ReleasePolicy, States
  <2> QED BY <1>15, <1>a, <1>b, <1>d, <2>1 DEF ReleasePolicy
<1>16. ASSUME NEW p \in Policies, EmptyNamespace(p) PROVE TypeInv'
  BY <1>16, <1>a, <1>b, <1>d, <1>h DEF EmptyNamespace
<1>17. ASSUME NEW v \in Namespace, WriteNamespace(v), typed' \in BOOLEAN
       PROVE  TypeInv'
  <2>1. WorkerOK(worker')
    BY <1>17, <1>a DEF WriteNamespace, WorkerOK, Worker
  <2> QED BY <1>17, <1>a, <1>b, <1>d, <1>i, <2>1 DEF WriteNamespace
<1>18. ASSUME NEW date \in Dates, SetDate(date) PROVE TypeInv'
  <2>1. [ns EXCEPT !.date = date] \in Namespace
    BY <1>18, <1>a, NamespaceAssumption DEF Namespace
  <2> QED BY <1>18, <1>17, <2>1 DEF SetDate
<1>19. CASE ToggleExclude
  <2>1. [ns EXCEPT !.exclude = ~@] \in Namespace
    BY <1>a DEF Namespace
  <2> QED BY <1>19, <1>17, <1>a, <2>1 DEF ToggleExclude
<1>20. CASE DeleteNamespace
  <2>1. [ns EXCEPT !.deleting = TRUE] \in Namespace
    BY <1>a DEF Namespace
  <2> QED BY <1>20, <1>17, <1>a, <2>1 DEF DeleteNamespace
<1>21. CASE CreateNamespace
  <2>1. clock \in Nat
    BY <1>a, NamespaceAssumption
  <2>2. [Gone EXCEPT !.exists = TRUE, !.born = clock] \in Namespace
    BY <2>1 DEF Gone, Namespace
  <2> QED BY <1>21, <1>17, <1>a, <2>2 DEF CreateNamespace
<1>22. ASSUME NEW p \in Policies, CreatePolicy(p) \/ DeletePolicy(p)
       PROVE  TypeInv'
  <2>1. policy' \in [Policies -> States]
    BY <1>22, <1>a, <1>h DEF CreatePolicy, DeletePolicy, States
  <2> QED BY <1>22, <1>a, <1>b, <1>d, <1>i, <2>1 DEF CreatePolicy, DeletePolicy
<1>23. CASE ApiError
  <2>1. timer' \in Timers
    BY <1>23, <1>a, <1>f, <1>g DEF ApiError
  <2> QED BY <1>23, <1>a, <1>b, <1>c, <1>d, <1>i, <2>1 DEF ApiError
<1>24. CASE Restart
  <2>1. ns.exists \in BOOLEAN
    BY <1>a DEF Namespace
  <2> QED BY <1>24, <1>a, <1>b, <1>c, <1>d, <1>e, <1>i, <2>1
          DEF Restart, Timers
<1> QED
  BY <1>1, <1>2, <1>3, <1>4, <1>5, <1>6, <1>7, <1>8, <1>9, <1>10, <1>11,
     <1>12, <1>13, <1>14, <1>15, <1>16, <1>18, <1>19, <1>20, <1>21, <1>22,
     <1>23, <1>24
  DEF Next, WorkerStep, Disturbance

(***************************************************************************)
(* The values stay what they should be, whatever the instance, the zones   *)
(* and the bounds.                                                         *)
(***************************************************************************)
THEOREM TypeCorrect == Spec => []TypeOK
<1>1. TypeInv => TypeOK
  BY DEF TypeInv
<1> QED BY InitTypes, StepTypes, <1>1, PTL DEF Spec

-----------------------------------------------------------------------------
(* A namespace lives its days.                                             *)

\* A dated copy of a namespace is dated far enough from its birth.
LivesOn(v) ==
  v.date \in Int
  => ExpiresAt(v.date) - v.born - Delay
       > (config.expirationTTLInDays - 1) * DayLength
         + Offset[config.defaultTimezone]

(***************************************************************************)
(* Why it does: until a user writes a date, every copy of the namespace    *)
(* has the controller's, which is written when the namespace is old enough *)
(* (a write from an outdated copy is refused), and a copy is taken to be   *)
(* deleted when its date has come.                                         *)
(***************************************************************************)
DatedWell ==
  /\ ~typed => LivesOn(ns) /\ LivesOn(seen) /\ LivesOn(worker.copy)
  /\ At("annotate") /\ worker.fresh /\ ns.exists => ~Young(ns)
  /\ At("expire") => ZoneKnown /\ clock >= ExpiresAt(worker.copy.date)

\* What is left of a day that has begun is less than a day.
LEMMA DayBegun ==
  ASSUME NEW x \in Int, NEW d \in Nat, d > 0, NEW n \in Int
  PROVE  (x \div d + n) * d > x + (n - 1) * d
<1>1. x \div d \in Int /\ (x \div d) * d > x - d
  OBVIOUS
<1> DEFINE q == x \div d
<1> HIDE DEF q
<1>2. q \in Int /\ q * d > x - d
  BY <1>1 DEF q
<1>3. (q + n) * d > x + (n - 1) * d
  BY <1>2
<1> QED BY <1>3 DEF q

\* The date the controller writes on a namespace that is old enough.
LEMMA DateIsFar ==
  ASSUME TypeOK, ZoneKnown, ~Young(ns)
  PROVE  LivesOn([ns EXCEPT !.date = ExpirationDate])
<1> DEFINE offset == Offset[config.defaultTimezone]
           ttl == config.expirationTTLInDays
           v == [ns EXCEPT !.date = ExpirationDate]
<1>1. /\ ttl \in Int /\ clock \in Int /\ offset \in Int /\ Delay \in Int
      /\ DayLength \in Nat /\ DayLength > 0
  BY Settings, NamespaceAssumption DEF TypeOK
<1>2. ns.born \in Int /\ v.date = ExpirationDate /\ v.born = ns.born
  BY DEF TypeOK, Namespace
<1>3. clock - ns.born >= Delay
  BY <1>1, <1>2 DEF Young
<1>4. ExpiresAt(v.date) = ((clock + offset) \div DayLength + ttl) * DayLength
  BY <1>2 DEF ExpiresAt, ExpirationDate
<1>5. ((clock + offset) \div DayLength + ttl) * DayLength
        > (clock + offset) + (ttl - 1) * DayLength
  BY <1>1, DayBegun
<1>6. ExpiresAt(v.date) \in Int
  BY <1>1, <1>2, DateIsDay DEF ExpiresAt
<1>7. (ttl - 1) * DayLength \in Int
  BY <1>1
<1> DEFINE most == (ttl - 1) * DayLength
           at == ExpiresAt(v.date)
<1> HIDE DEF most, at
<1>8. at - ns.born - Delay > most + offset
  <2>1. at \in Int /\ most \in Int /\ at > (clock + offset) + most
    BY <1>4, <1>5, <1>6, <1>7 DEF most, at
  <2> HIDE DEF offset
  <2> QED BY <2>1, <1>1, <1>2, <1>3
<1> QED BY <1>2, <1>8 DEF LivesOn, most, at

\* A namespace nobody has dated is dated well.
LEMMA UndatedLives == ASSUME NEW v, v.date \notin Int PROVE LivesOn(v)
BY DEF LivesOn

LEMMA InitDated == Init => DatedWell
<1> SUFFICES ASSUME Init PROVE DatedWell
  OBVIOUS
<1>1. ns.date = None /\ seen = ns /\ worker = Idle
  BY DEF Init, Gone
<1> QED BY <1>1, UndatedLives, IdleTypes, NamespaceAssumption
        DEF DatedWell, At

\* A step keeps the namespace and its copies dated well.
LEMMA StepDated ==
  ASSUME TypeInv, DatedWell, [Next]_vars PROVE DatedWell'
<1>a. TypeOK /\ TypeOK' /\ (At("annotate") => ZoneKnown)
  BY StepTypes DEF TypeInv
<1>b. UNCHANGED rigid
  BY DEF Next, WorkerStep, Disturbance, vars, rigid, Reconcile, SweepList,
         Sweep, Expire, Annotate, ListPolicies, CreateDefaultSleepPolicy,
         Tick, Fire, DeliverNamespace, DeliverPolicies, Resync, Vanish,
         ReleasePolicy, EmptyNamespace, SetDate, ToggleExclude,
         DeleteNamespace, CreateNamespace, WriteNamespace, CreatePolicy,
         DeletePolicy, ApiError, Restart, ReadOnly, Elsewhere, Unattended,
         UserOnly
<1>c. /\ clock \in Int /\ clock' \in Int /\ Delay \in Int
      /\ ns \in Namespace /\ ns' \in Namespace /\ worker \in Worker
  BY <1>a, Settings, NamespaceAssumption DEF TypeOK
<1> DEFINE Copies == ~typed' => /\ LivesOn(ns') /\ LivesOn(seen')
                                /\ LivesOn(worker'.copy)
           Dating == worker'.pc = "annotate" /\ worker'.fresh /\ ns'.exists
                     => clock' - ns'.born >= Delay
           Ending == worker'.pc = "expire"
                     => ZoneKnown /\ clock' >= ExpiresAt(worker'.copy.date)
<1>d. ASSUME Copies, Dating, Ending PROVE DatedWell'
  <2>1. /\ LivesOn(ns)' <=> LivesOn(ns')
        /\ LivesOn(seen)' <=> LivesOn(seen')
        /\ LivesOn(worker.copy)' <=> LivesOn(worker'.copy)
        /\ Delay' = Delay /\ (ZoneKnown' <=> ZoneKnown)
    BY <1>b DEF LivesOn, ExpiresAt, Delay, ZoneKnown, rigid
  <2>2. clock' - ns'.born >= Delay => ~Young(ns)'
    BY <1>c, <2>1 DEF Young, Namespace
  <2> QED BY <1>d, <2>1, <2>2 DEF DatedWell, At, ExpiresAt
\* A step that leaves the clock, or lets it go on, and the worker alone.
<1>e. ASSUME clock' >= clock, worker' = worker,
             ns' \in {ns, Gone} \/ (ns'.born = ns.born /\ ns'.date = ns.date
                                    /\ ns'.exists = ns.exists),
             seen' \in {seen, ns}, typed' = typed
      PROVE  Copies /\ Dating /\ Ending
  <2>1. ASSUME worker.pc = "expire" PROVE ExpiresAt(worker.copy.date) \in Int
    BY <2>1, <1>a, NamespaceAssumption DEF TypeOK, At, ExpiresAt
  <2>2. Ending
    BY <1>c, <1>e, <2>1 DEF DatedWell, At
  <2>3. Dating
    <3> SUFFICES ASSUME worker.pc = "annotate", worker.fresh, ns'.exists
                 PROVE  clock' - ns'.born >= Delay
      BY <1>e
    <3>1. ns'.exists = ns.exists /\ ns'.born = ns.born
      <4>1. ns' # Gone
        BY DEF Gone
      <4> QED BY <1>e, <4>1
    <3>2. ~Young(ns) /\ ns.born \in Int
      BY <1>c, <3>1 DEF DatedWell, At, Namespace
    <3> QED BY <1>c, <1>e, <3>1, <3>2 DEF Young
  <2>4. ~typed => LivesOn(ns')
    BY <1>e, UndatedLives, IdleTypes, NamespaceAssumption
    DEF DatedWell, LivesOn
  <2> QED BY <1>e, <2>2, <2>3, <2>4 DEF DatedWell
\* A step that takes the worker on, with no copy to delete, or to rest.
<1>f. ASSUME clock' = clock, ns' = ns, seen' \in {seen, ns}, typed' = typed,
             worker'.copy \in {Gone, worker.copy},
             worker'.pc \notin {"annotate", "expire"}
      PROVE  Copies /\ Dating /\ Ending
  BY <1>f, UndatedLives, IdleTypes, NamespaceAssumption DEF DatedWell
\* Somebody else writes the namespace.
<1>g. ASSUME NEW v \in Namespace, WriteNamespace(v), ~typed' => ~typed,
             ~typed' => LivesOn(v)
      PROVE  Copies /\ Dating /\ Ending
  BY <1>g, <1>c DEF WriteNamespace, DatedWell, Worker, caches, At
<1> HIDE DEF Copies, Dating, Ending
<1> USE DEF Elsewhere, ReadOnly, Unattended, UserOnly, cluster, caches
<1>1. CASE UNCHANGED vars
  BY <1>1, <1>c, <1>d, <1>e DEF vars
<1>2. CASE Reconcile
  <2>1. ns' = ns /\ seen' = seen /\ clock' = clock /\ typed' = typed
    BY <1>2 DEF Reconcile
  <2>2. CASE Needs(seen) \in {"stop", "wait"}
    BY <1>2, <1>d, <1>f, <2>1, <2>2, IdleTypes DEF Reconcile
  <2>3. CASE Needs(seen) \notin {"stop", "wait"}
    <3>1. worker' = [pc |-> Needs(seen), fresh |-> (seen = ns), todo |-> {},
                     copy |-> IF Needs(seen) = "expire" THEN seen ELSE Gone]
      BY <1>2, <2>3, IdleTypes DEF Reconcile
    <3>2. Copies
      BY <2>1, <3>1, UndatedLives, IdleTypes, NamespaceAssumption
      DEF DatedWell, Copies
    <3>3. ns.born \in Int
      BY <1>c DEF Namespace
    <3>4. Dating
      <4>1. Needs(seen) = "annotate" /\ seen = ns => ~Young(ns)
        BY <1>a, NeedsTypes
      <4>2. /\ worker'.pc = Needs(seen) /\ (worker'.fresh <=> seen = ns)
            /\ clock' = clock /\ ns' = ns
        BY <2>1, <3>1
      <4>3. ~Young(ns) => clock - ns.born >= Delay
        BY <1>c, <3>3 DEF Young
      <4> QED BY <4>1, <4>2, <4>3 DEF Dating
    <3>5. Ending
      BY <1>a, <2>1, <3>1, NeedsTypes DEF Ending
    <3> QED BY <1>d, <3>2, <3>4, <3>5
  <2> QED BY <2>2, <2>3
<1>3. CASE SweepList
  BY <1>3, <1>c, <1>d, <1>f, IdleTypes DEF SweepList, Worker
<1>4. ASSUME NEW p \in Policies, Sweep(p) PROVE DatedWell'
  BY <1>4, <1>c, <1>d, <1>f, IdleTypes DEF Sweep, Worker, At
<1>5. CASE Expire
  <2>1. ns' = ns \/ ns' = [ns EXCEPT !.deleting = TRUE]
    BY <1>5 DEF Expire
  <2>2. ns'.born = ns.born /\ ns'.date = ns.date
    BY <1>c, <2>1 DEF Namespace
  <2>3. worker' = Idle /\ seen' = seen /\ typed' = typed
    BY <1>5 DEF Expire
  <2>4. Copies
    BY <2>2, <2>3, UndatedLives, IdleTypes, NamespaceAssumption
    DEF DatedWell, LivesOn, Copies
  <2> QED BY <1>d, <2>3, <2>4, IdleTypes DEF Dating, Ending
<1>6. CASE Annotate
  <2>1. worker'.pc = "list" /\ worker'.copy = Gone /\ seen' = seen
        /\ typed' = typed
    BY <1>6, IdleTypes DEF Annotate
  <2>2. ~typed => LivesOn(ns')
    <3>1. CASE ns' = ns
      BY <3>1 DEF DatedWell
    <3>2. CASE ns.exists /\ worker.fresh
      BY <1>6, <1>a, <3>2, DateIsFar DEF Annotate, DatedWell
    <3> QED BY <1>6, <3>1, <3>2 DEF Annotate
  <2>3. Copies
    BY <2>1, <2>2, UndatedLives, IdleTypes, NamespaceAssumption
    DEF DatedWell, Copies
  <2> QED BY <1>d, <2>1, <2>3 DEF Dating, Ending
<1>7. CASE ListPolicies
  BY <1>7, <1>c, <1>d, <1>f, IdleTypes DEF ListPolicies, Goto, Worker
<1>8. CASE CreateDefaultSleepPolicy
  BY <1>8, <1>d, <1>f, IdleTypes DEF CreateDefaultSleepPolicy
<1>9. CASE Tick
  BY <1>9, <1>c, <1>d, <1>e DEF Tick
<1>10. CASE Fire \/ DeliverNamespace \/ DeliverPolicies \/ Resync
  BY <1>10, <1>c, <1>d, <1>e
  DEF Fire, DeliverNamespace, DeliverPolicies, Resync
<1>11. CASE Vanish
  BY <1>11, <1>c, <1>d, <1>e DEF Vanish
<1>12. ASSUME NEW p \in Policies,
              \/ ReleasePolicy(p) \/ EmptyNamespace(p)
              \/ CreatePolicy(p) \/ DeletePolicy(p)
       PROVE  DatedWell'
  BY <1>12, <1>c, <1>d, <1>e
  DEF ReleasePolicy, EmptyNamespace, CreatePolicy, DeletePolicy
<1>13. ASSUME NEW date \in Dates, SetDate(date) PROVE DatedWell'
  <2>1. [ns EXCEPT !.date = date] \in Namespace
    BY <1>13, <1>c, NamespaceAssumption DEF Namespace
  <2> QED BY <1>13, <1>d, <1>g, <2>1 DEF SetDate
<1>14. CASE ToggleExclude
  <2>1. /\ [ns EXCEPT !.exclude = ~@] \in Namespace
        /\ LivesOn([ns EXCEPT !.exclude = ~@]) <=> LivesOn(ns)
    BY <1>c DEF Namespace, LivesOn
  <2> QED BY <1>14, <1>d, <1>g, <2>1 DEF ToggleExclude, DatedWell
<1>15. CASE DeleteNamespace
  <2>1. /\ [ns EXCEPT !.deleting = TRUE] \in Namespace
        /\ LivesOn([ns EXCEPT !.deleting = TRUE]) <=> LivesOn(ns)
    BY <1>c DEF Namespace, LivesOn
  <2> QED BY <1>15, <1>d, <1>g, <2>1 DEF DeleteNamespace, DatedWell
<1>16. CASE CreateNamespace
  <2> DEFINE v == [Gone EXCEPT !.exists = TRUE, !.born = clock]
  <2>1. WriteNamespace(v) /\ typed' = typed /\ ns' = v
    BY <1>16 DEF CreateNamespace, WriteNamespace
  <2>2. v \in Namespace /\ v.date = None
    BY <1>c, <2>1 DEF Gone
  <2> HIDE DEF v
  <2>3. LivesOn(v)
    BY <2>2, UndatedLives, NamespaceAssumption
  <2> QED BY <1>d, <1>g, <2>1, <2>2, <2>3
<1>17. CASE ApiError
  <2>1. worker' \in {Idle, [Idle EXCEPT !.pc = "list"]}
    BY <1>17 DEF ApiError
  <2>2. worker'.copy = Gone /\ worker'.pc \in {"idle", "list"}
    BY <2>1, IdleTypes
  <2> QED BY <1>17, <1>d, <1>f, <2>2 DEF ApiError
<1>18. CASE Restart
  BY <1>18, <1>d, <1>f, IdleTypes DEF Restart
<1> QED
  BY <1>1, <1>2, <1>3, <1>4, <1>5, <1>6, <1>7, <1>8, <1>9, <1>10, <1>11,
     <1>12, <1>13, <1>14, <1>15, <1>16, <1>17, <1>18
  DEF Next, WorkerStep, Disturbance

\* What is dated well and taken to be deleted has lived its days.
LEMMA DeletedLate ==
  ASSUME TypeOK, DatedWell, Expire, ~typed, worker.copy.born = ns.born
  PROVE  clock - ns.born - Delay
           > (config.expirationTTLInDays - 1) * DayLength
             + Offset[config.defaultTimezone]
<1> DEFINE at == ExpiresAt(worker.copy.date)
           least == (config.expirationTTLInDays - 1) * DayLength
                    + Offset[config.defaultTimezone]
<1>1. /\ clock \in Int /\ DayLength \in Int /\ Delay \in Int
      /\ worker.copy.date \in Int /\ ns.born \in Int
      /\ ZoneKnown /\ clock >= at
  BY Settings, NamespaceAssumption
  DEF TypeOK, Expire, DatedWell, At, Namespace
<1>2. at \in Int /\ least \in Int
  BY <1>1, Settings DEF ExpiresAt
<1>3. at - ns.born - Delay > least
  BY <1>1 DEF DatedWell, LivesOn
<1> HIDE DEF at, least
<1>4. clock - ns.born - Delay > least
  BY <1>1, <1>2, <1>3
<1> QED BY <1>4 DEF least

(***************************************************************************)
(* For every length of the day, delay, TTL and set of zones: a namespace   *)
(* that only the controller has dated lives its days.                      *)
(***************************************************************************)
THEOREM DaysAreLived == Spec => LivesItsDays
<1>1. Init => TypeInv /\ DatedWell
  BY InitTypes, InitDated
<1>2. TypeInv /\ DatedWell /\ [Next]_vars => (TypeInv /\ DatedWell)'
  BY StepTypes, StepDated
<1>3. TypeInv /\ DatedWell /\ [Next]_vars
      => [ControllerDeletes /\ ~typed /\ worker.copy.born = ns.born
          => clock - ns.born - Delay
               > (config.expirationTTLInDays - 1) * DayLength
                 + Offset[config.defaultTimezone]]_vars
  BY DeletedLate DEF TypeInv, ControllerDeletes
<1> QED BY <1>1, <1>2, <1>3, PTL DEF Spec, LivesItsDays

-----------------------------------------------------------------------------
(* No namespace is forgotten.                                              *)

\* What Armed asks for a namespace, of the copy v.
Looked(v) == v.exists /\ ~v.deleting /\ ~Excluded(v)

CoveredFor(v) ==
  IF Young(v) THEN Deadline(v.born + Delay)
  ELSE config.ttlEnabled /\ ZoneKnown /\ v.date \notin {None, Bad}
       => Deadline(ExpiresAt(v.date))

(***************************************************************************)
(* Armed is not inductive: it must hold while the worker is busy, and of   *)
(* the cached namespace, whatever is stored.                               *)
(***************************************************************************)
Covered == ~queued /\ Looked(seen) => CoveredFor(seen)

\* With a timer as soon as before, and no earlier clock, what was covered is.
LEMMA StaysCovered ==
  ASSUME TypeOK, TypeOK', Covered, UNCHANGED rigid, seen' = seen,
         clock' >= clock, queued \/ queued' \/ queued' = queued,
         queued => queued',
         timer # None => timer' # None /\ timer' <= timer
  PROVE  Covered'
<1>1. CASE queued' \/ ~Looked(seen)
  <2>1. Looked(seen)' <=> Looked(seen)
    BY DEF Looked, Excluded, rigid
  <2> QED BY <1>1, <2>1 DEF Covered
<1>2. CASE ~queued' /\ Looked(seen)
  <2> DEFINE young == seen.born + Delay
             at == ExpiresAt(seen.date)
             timed == config.ttlEnabled /\ ZoneKnown
                      /\ seen.date \notin {None, Bad}
  <2>1. /\ Delay' = Delay /\ (ZoneKnown' <=> ZoneKnown)
        /\ ExpiresAt(seen.date)' = at /\ (timed' <=> timed)
    BY DEF Delay, ZoneKnown, ExpiresAt, rigid
  <2>2. /\ Delay \in Int /\ seen.born \in Int /\ young \in Int
        /\ clock \in Int /\ clock' \in Int /\ timer \in Int \cup {None}
        /\ timer' \in Int \cup {None} /\ None \notin Int
        /\ timed => at \in Int
    BY Settings, NamespaceAssumption DEF TypeOK, Namespace, ExpiresAt
  <2>3. Young(seen) <=> clock < young
    BY <2>2 DEF Young
  <2>4. Young(seen)' <=> clock' < young
    BY <2>1, <2>2 DEF Young
  <2>5. /\ ~queued /\ Looked(seen)
        /\ timer # None => timer' # None /\ timer' <= timer
    BY <1>2
  <2>6. /\ clock < young => timer # None /\ timer <= young
        /\ ~(clock < young) /\ timed /\ clock < at
           => timer # None /\ timer <= at
    BY <2>3, <2>5 DEF Covered, CoveredFor, Deadline
  <2>7. CoveredFor(seen)'
        <=> IF clock' < young
            THEN clock' < young => timer' # None /\ timer' <= young
            ELSE timed /\ clock' < at => timer' # None /\ timer' <= at
    BY <2>1, <2>4 DEF CoveredFor, Deadline
  <2> HIDE DEF young, at, timed
  <2>8. clock' < young => timer' # None /\ timer' <= young
    BY <2>2, <2>5, <2>6
  <2>9. ~(clock' < young) /\ timed /\ clock' < at
        => timer' # None /\ timer' <= at
    BY <2>2, <2>5, <2>6
  <2>10. CoveredFor(seen)'
    BY <2>7, <2>8, <2>9
  <2> QED BY <2>10 DEF Covered
<1> QED BY <1>1, <1>2

\* The reconcile itself sets the timer, when there is something to wait for.
LEMMA ReconcileCovers ==
  ASSUME TypeOK, TypeOK', Reconcile PROVE Covered'
<1> DEFINE young == seen.born + Delay
           at == ExpiresAt(seen.date)
           timed == config.ttlEnabled /\ ZoneKnown
                    /\ seen.date \notin {None, Bad}
<1>1. /\ UNCHANGED rigid /\ seen' = seen /\ clock' = clock
      /\ Needs(seen) = "wait" => RequeueAfter(Wait(seen))
  BY DEF Reconcile, ReadOnly, Elsewhere, caches
<1>2. /\ Delay' = Delay /\ (ZoneKnown' <=> ZoneKnown)
      /\ ExpiresAt(seen.date)' = at /\ (Young(seen)' <=> Young(seen))
      /\ (Looked(seen)' <=> Looked(seen)) /\ (timed' <=> timed)
  BY <1>1 DEF Delay, ZoneKnown, ExpiresAt, Young, Looked, Excluded, rigid
<1>3. /\ Delay \in Int /\ seen.born \in Int /\ clock \in Int
      /\ timer \in Int \cup {None} /\ None \notin Int
      /\ seen.date \in Int \cup {None, Bad}
      /\ timed => at \in Int
  BY Settings, NamespaceAssumption DEF TypeOK, Namespace, ExpiresAt
<1> SUFFICES ASSUME Looked(seen) PROVE CoveredFor(seen)'
  BY <1>2 DEF Covered
<1>4. ASSUME NEW after \in Int, after > 0, RequeueAfter(after)
      PROVE  timer' # None /\ timer' <= clock + after
  BY <1>3, <1>4 DEF RequeueAfter
<1>5. CASE Young(seen)
  <2>1. Needs(seen) = "wait" /\ Wait(seen) = young - clock /\ clock < young
    BY <1>3, <1>5 DEF Needs, Wait, Looked, Young
  <2>2. timer' # None /\ timer' <= young
    BY <1>1, <1>3, <1>4, <2>1
  <2> QED BY <1>1, <1>2, <1>5, <2>2 DEF CoveredFor, Deadline
<1>6. CASE ~Young(seen)
  <2>1. ASSUME timed, clock < at PROVE timer' # None /\ timer' <= at
    <3>1. Needs(seen) = "wait" /\ Wait(seen) = at - clock
      BY <1>6, <2>1 DEF Needs, NeedsManaged, Wait, Looked
    <3> HIDE DEF at
    <3> QED BY <1>1, <1>3, <1>4, <2>1, <3>1
  <2>2. CoveredFor(seen)' <=> (timed' /\ clock' < ExpiresAt(seen.date)'
                               => timer' # None
                                  /\ timer' <= ExpiresAt(seen.date)')
    BY <1>1, <1>2, <1>6 DEF CoveredFor, Deadline
  <2> HIDE DEF at, timed
  <2> QED BY <1>1, <1>2, <2>1, <2>2
<1> QED BY <1>5, <1>6

LEMMA StepCovered ==
  ASSUME TypeInv, Covered, [Next]_vars PROVE Covered'
<1>1. TypeOK /\ TypeOK'
  BY StepTypes DEF TypeInv
<1>2. clock \in Int /\ timer \in Int \cup {None} /\ None \notin Int
  BY <1>1, NamespaceAssumption DEF TypeOK
<1>3. ASSUME NEW after \in Int, RequeueAfter(after)
      PROVE  timer # None => timer' # None /\ timer' <= timer
  BY <1>1, <1>2, <1>3 DEF TypeOK, RequeueAfter
<1>4. CASE Reconcile
  BY <1>1, <1>4, ReconcileCovers
<1>5. CASE Fire \/ DeliverNamespace
  BY <1>5 DEF Fire, DeliverNamespace, Covered
<1>6. CASE Restart
  BY <1>6 DEF Restart, Covered, Looked
<1> DEFINE Sooner == timer # None => timer' # None /\ timer' <= timer
<1>7. ASSUME UNCHANGED rigid, seen' = seen, clock' \in {clock, clock + 1},
             queued => queued', Sooner
      PROVE  Covered'
  BY <1>1, <1>2, <1>7, StaysCovered DEF TypeOK
<1> USE DEF Elsewhere, ReadOnly, Unattended, UserOnly, caches
<1>8. CASE UNCHANGED vars
  BY <1>2, <1>7, <1>8 DEF vars, rigid
<1>9. CASE \/ SweepList \/ Expire \/ Annotate \/ ListPolicies
           \/ CreateDefaultSleepPolicy
  <2>1. UNCHANGED <<rigid, seen, clock, timer>> /\ (queued => queued')
    BY <1>1, <1>9 DEF SweepList, Expire, Annotate, ListPolicies,
                      CreateDefaultSleepPolicy, TypeOK
  <2> QED BY <1>2, <1>7, <2>1
<1>10. ASSUME NEW p \in Policies, Sweep(p) PROVE Covered'
  <2>1. Sooner
    BY <1>1, <1>2, <1>3, <1>10, Settings DEF Sweep
  <2> QED BY <1>7, <1>10, <2>1 DEF Sweep
<1>11. CASE Tick \/ DeliverPolicies \/ Resync \/ Vanish
  BY <1>2, <1>7, <1>11 DEF Tick, DeliverPolicies, Resync, Vanish
<1>12. ASSUME NEW p \in Policies,
              \/ ReleasePolicy(p) \/ EmptyNamespace(p)
              \/ CreatePolicy(p) \/ DeletePolicy(p)
       PROVE  Covered'
  BY <1>2, <1>7, <1>12
  DEF ReleasePolicy, EmptyNamespace, CreatePolicy, DeletePolicy
<1>13. ASSUME NEW v, WriteNamespace(v) PROVE Covered'
  BY <1>2, <1>7, <1>13 DEF WriteNamespace
<1>14. CASE \/ \E date \in Dates : SetDate(date)
            \/ ToggleExclude \/ DeleteNamespace \/ CreateNamespace
  BY <1>13, <1>14
  DEF SetDate, ToggleExclude, DeleteNamespace, CreateNamespace
<1>15. CASE ApiError
  <2>1. Sooner
    BY <1>1, <1>2, <1>3, <1>15, Settings DEF ApiError
  <2> QED BY <1>7, <1>15, <2>1 DEF ApiError
<1> QED
  BY <1>4, <1>5, <1>6, <1>8, <1>9, <1>10, <1>11, <1>12, <1>14, <1>15
  DEF Next, WorkerStep, Disturbance

(***************************************************************************)
(* Whatever users, errors, caches and restarts do: at rest, a namespace    *)
(* with something to wait for has a timer for it.                          *)
(***************************************************************************)
THEOREM NothingForgotten == Spec => []Armed
<1>1. Init => TypeInv /\ Covered
  BY InitTypes DEF Init, Covered
<1>2. TypeInv /\ Covered /\ [Next]_vars => (TypeInv /\ Covered)'
  BY StepTypes, StepCovered
<1>3. Covered => Armed
  BY DEF Covered, Armed, Quiet, Kept, Looked, CoveredFor
<1> QED BY <1>1, <1>2, <1>3, PTL DEF Spec
=============================================================================
