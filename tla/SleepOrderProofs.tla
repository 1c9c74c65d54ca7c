-------------------------- MODULE SleepOrderProofs --------------------------
(***************************************************************************)
(* What holds of the SleepOrder controller for every set of orders, every  *)
(* count, every lag of the caches and every number of retries.             *)
(***************************************************************************)
EXTENDS SleepOrder, TLAPS

-----------------------------------------------------------------------------
(* Versions behind the cache.                                              *)

\* The stored version of a published object is the one just written, and the
\* bound on the lag is kept.
LEMMA PublishVersions ==
  ASSUME NEW S, NEW vs \in Versions(S), NEW v \in S
  PROVE  /\ Publish(vs, v) \in Versions(S)
         /\ Stored(Publish(vs, v)) = v
         /\ Save(vs, v) \in Versions(S)
         /\ Stored(Save(vs, v)) = v
BY SleepOrderAssumption DEF Publish, Save, Stored, Versions

\* What the cache returns and what is stored are among the versions, and they
\* are the same when the cache has caught up.
LEMMA VersionsSeen ==
  ASSUME NEW S, NEW vs \in Versions(S)
  PROVE  /\ Cached(vs) \in S
         /\ Stored(vs) \in S
         /\ Synced(vs) => Cached(vs) = Stored(vs)
         /\ <<Stored(vs)>> \in Versions(S)
         /\ Stored(<<Stored(vs)>>) = Stored(vs)
         /\ ~Synced(vs) => Tail(vs) \in Versions(S)
         /\ ~Synced(vs) => Stored(Tail(vs)) = Stored(vs)
<1>1. vs \in Seq(S) /\ Len(vs) >= 1 /\ Len(vs) <= MaxLag + 1 /\ MaxLag \in Nat
  BY SleepOrderAssumption DEF Versions
<1>2. Cached(vs) = vs[1] /\ vs[1] \in S /\ Stored(vs) \in S
  <2>1. vs[1] \in S /\ vs[Len(vs)] \in S
    BY <1>1
  <2> QED BY <1>1, <2>1 DEF Cached, Stored
<1>3. Synced(vs) => Cached(vs) = Stored(vs)
  BY <1>1, <1>2 DEF Stored, Synced
<1>4. <<Stored(vs)>> \in Versions(S) /\ Stored(<<Stored(vs)>>) = Stored(vs)
  <2> DEFINE v == Stored(vs)
  <2>1. <<v>> \in Seq(S) /\ Len(<<v>>) = 1 /\ <<v>>[1] = v
    BY <1>2
  <2> QED BY <2>1, <1>1 DEF Versions, Stored
<1>5. ASSUME ~Synced(vs)
      PROVE  Tail(vs) \in Versions(S) /\ Stored(Tail(vs)) = Stored(vs)
  <2>1. Tail(vs) \in Seq(S) /\ Len(Tail(vs)) = Len(vs) - 1 /\ Len(vs) >= 2
    <3>1. Len(vs) \in Nat /\ Len(vs) # 1
      BY <1>1, <1>5 DEF Synced
    <3>2. \A n \in Nat : n >= 1 /\ n # 1 => n >= 2
      OBVIOUS
    <3>3. Len(vs) >= 2
      BY <1>1, <3>1, <3>2
    <3> QED BY <1>1, <3>3
  <2>2. Tail(vs)[Len(vs) - 1] = vs[Len(vs)]
    BY <1>1, <2>1
  <2> QED BY <1>1, <2>1, <2>2 DEF Versions, Stored
<1> QED BY <1>2, <1>3, <1>4, <1>5

-----------------------------------------------------------------------------
(* Types.                                                                  *)

\* What a worker's state must satisfy beside its type: it has an order while
\* it is busy, and a snapshot when it is about to write one or scale down.
Sound(wk) ==
  /\ wk \in Worker
  /\ wk.pc # "idle" => wk.order \in Orders
  /\ wk.pc \in {"snapPut", "zero"} => wk.copy.saved \in Nat

TypeInv == TypeOK /\ Sound(worker)

LEMMA IdleSound == Sound(Idle)
BY SleepOrderAssumption DEF Sound, Idle, Worker, Steps, Saved

LEMMA ProceedSound ==
  ASSUME NEW wk \in Worker, wk.order \in Orders
  PROVE  Sound(Proceed(wk))
<1> DEFINE stuck == wk.verdict = "Sleeping" /\ wk.copy.saved \in {Garbled, Empty}
<1>1. CASE stuck
  BY <1>1, IdleSound DEF Proceed
<1>2. CASE ~stuck
  BY <1>2 DEF Proceed, Sound, Worker, Steps, Saved
<1> QED BY <1>1, <1>2

LEMMA FailSound ==
  ASSUME NEW wk \in Worker, wk.order \in Orders, NEW err
  PROVE  Sound(Fail(wk, err))
<1>1. CASE wk.path # "finalizer"
  BY <1>1, IdleSound DEF Fail
<1>2. CASE wk.path = "finalizer" /\ err = "Conflict" /\ wk.tries < MaxTries
  <2>1. Fail(wk, err) = [wk EXCEPT !.pc = "finalizer", !.tries = wk.tries + 1]
    BY <1>2 DEF Fail
  <2>2. wk.tries \in 0..MaxTries
    BY DEF Worker
  <2>3. wk.tries + 1 \in 0..MaxTries
    BY <1>2, <2>2, SleepOrderAssumption
  <2> QED BY <2>1, <2>3 DEF Sound, Worker, Steps
<1>3. CASE wk.path = "finalizer" /\ ~(err = "Conflict" /\ wk.tries < MaxTries)
  BY <1>3, ProceedSound DEF Fail
<1> QED BY <1>1, <1>2, <1>3

\* An update of an order keeps the types if both ways on do.
LEMMA PutOrderTypes ==
  ASSUME TypeInv, worker.order \in Orders, NEW v \in Order,
         NEW onOK, NEW onNotFound, Sound(onOK), Sound(onNotFound),
         PutOrder(v, onOK, onNotFound)
  PROVE  TypeInv'
<1>1. worker \in Worker
  BY DEF TypeInv, TypeOK
<1>2. Sound(worker')
  BY <1>1, FailSound DEF PutOrder, Answer
<1>3. Settle(v) \in Order
  BY DEF Settle, GoneOrder, Order
<1>4. order' \in [Orders -> Versions(Order)]
  BY <1>3, PublishVersions DEF PutOrder, TypeInv, TypeOK
<1> QED BY <1>2, <1>4 DEF TypeInv, TypeOK, PutOrder, Sound

LEMMA PutTargetTypes ==
  ASSUME TypeInv, worker.order \in Orders,
         NEW c \in [replicas : Nat, saved : Saved],
         NEW onOK, NEW onNotFound, Sound(onOK), Sound(onNotFound),
         PutTarget(c, onOK, onNotFound)
  PROVE  TypeInv'
<1>1. worker \in Worker
  BY DEF TypeInv, TypeOK
<1>2. Sound(worker')
  BY <1>1, FailSound DEF PutTarget, Answer
<1>3. [exists |-> TRUE, replicas |-> c.replicas, saved |-> c.saved] \in Target
  BY DEF Target
<1>4. target' \in Versions(Target)
  BY <1>3, PublishVersions DEF PutTarget, TypeInv, TypeOK
<1> QED BY <1>2, <1>4 DEF TypeInv, TypeOK, PutTarget, Sound

\* A step that only reads keeps the types if the worker's new state is sound.
LEMMA ReadOnlyTypes ==
  ASSUME TypeInv, ReadOnly, Sound(worker')
  PROVE  TypeInv'
BY DEF TypeInv, TypeOK, ReadOnly, Sound

\* The same of restoreReplicas, which may spoil the count besides.
LEMMA RestoreGetTypes ==
  ASSUME TypeInv, RestoreGet, Sound(worker')
  PROVE  TypeInv'
BY DEF TypeInv, TypeOK, RestoreGet, Spoils, Sound

\* So does a write of the workload, or of an order, by anybody else.
LEMMA WriteTargetTypes ==
  ASSUME TypeInv, NEW v \in Target, WriteTarget(v), spoilt' \in BOOLEAN
  PROVE  TypeInv'
<1>1. target' \in Versions(Target)
  BY PublishVersions DEF WriteTarget, TypeInv, TypeOK
<1>2. Sound(worker')
  BY DEF WriteTarget, TypeInv, Sound, Worker
<1> QED BY <1>1, <1>2 DEF WriteTarget, TypeInv, TypeOK, Sound

LEMMA WriteOrderTypes ==
  ASSUME TypeInv, NEW o \in Orders, NEW v \in Order, WriteOrder(o, v),
         phase' \in [Orders -> Phases]
  PROVE  TypeInv'
<1>1. order' \in [Orders -> Versions(Order)]
  BY PublishVersions DEF WriteOrder, TypeInv, TypeOK
<1>2. Sound(worker')
  BY DEF WriteOrder, TypeInv, Sound, Worker
<1> QED BY <1>1, <1>2 DEF WriteOrder, TypeInv, TypeOK, Sound

\* The worker's steps, one by one.
LEMMA ControllerTypes ==
  ASSUME TypeInv, Controller
  PROVE  TypeInv'
<1> USE DEF At, Goto
<1>1. worker \in Worker /\ (worker.pc # "idle" => worker.order \in Orders)
  BY DEF TypeInv, Sound
<1>2. /\ Cached(target) \in Target
      /\ \A o \in Orders : Cached(order[o]) \in Order /\ Stored(order[o]) \in Order
  BY VersionsSeen DEF TypeInv, TypeOK
<1>3. worker.copy \in [replicas : Nat, saved : Saved]
  BY <1>1 DEF Worker
<1>4. \A o \in Orders, b \in BOOLEAN :
        [Stored(order[o]) EXCEPT !.fin = b] \in Order
  BY <1>2 DEF Order
<1>5. ASSUME NEW o \in Orders, Reconcile(o)
      PROVE  TypeInv'
  <2>1. Idle \in Worker
    BY IdleSound DEF Sound
  <2>2. Sound([Idle EXCEPT !.pc = "target", !.order = o,
                           !.ofresh = Synced(order[o])])
    BY <2>1 DEF Sound, Worker, Steps, Synced
  <2> QED BY <1>5, <2>2, ReadOnlyTypes DEF Reconcile
<1>6. CASE GetTargetObject
  <2>1. phase[worker.order] \in Phases
    BY <1>1, <1>6 DEF GetTargetObject, TypeInv, TypeOK
  <2>2. CopyOf(Cached(target)) \in [replicas : Nat, saved : Saved]
        /\ Cached(target).replicas \in Nat
    BY <1>2 DEF CopyOf, Target
  <2>3. Sound(worker')
    <3>1. CASE ~Cached(target).exists
      BY <1>1, <1>6, <3>1 DEF GetTargetObject, Sound, Worker, Steps
    <3>2. CASE Cached(target).exists /\ phase[worker.order] = "invalid"
      BY <1>6, <3>2, IdleSound DEF GetTargetObject
    <3>3. CASE Cached(target).exists /\ phase[worker.order] # "invalid"
      BY <1>1, <1>6, <2>1, <2>2, <3>3
         DEF GetTargetObject, Sound, Worker, Steps, Phases, Synced
    <3> QED BY <3>1, <3>2, <3>3
  <2> QED BY <1>6, <2>3, ReadOnlyTypes DEF GetTargetObject
<1>7. CASE RemoveFinalizerTargetMissing
  <2>1. worker.order \in Orders
    BY <1>1, <1>7 DEF RemoveFinalizerTargetMissing
  <2>2. Sound([worker EXCEPT !.pc = "status",
                             !.verdict = "Error TargetNotFound"])
    BY <1>1, <2>1 DEF Sound, Worker, Steps
  <2> QED BY <1>4, <1>7, <2>1, <2>2, IdleSound, PutOrderTypes
          DEF RemoveFinalizerTargetMissing
<1>8. CASE HandleFinalizer
  <2> DEFINE wk == [worker EXCEPT !.ofresh = Synced(order[worker.order])]
  <2>1. wk \in Worker /\ wk.order \in Orders
    BY <1>1, <1>8 DEF HandleFinalizer, Worker, Synced
  <2>2. \A step \in {"addFin", "restoreGet", "dropFin"} :
          Sound([wk EXCEPT !.pc = step])
    BY <2>1 DEF Sound, Worker, Steps
  <2>3. Sound(worker')
    BY <1>8, <2>1, <2>2, IdleSound, ProceedSound
       DEF HandleFinalizer, Needs
  <2> QED BY <1>8, <2>3, ReadOnlyTypes DEF HandleFinalizer
<1>9. CASE AddFinalizer
  <2>1. worker.order \in Orders
    BY <1>1, <1>9 DEF AddFinalizer
  <2> QED BY <1>1, <1>4, <1>9, <2>1, ProceedSound, PutOrderTypes
          DEF AddFinalizer
<1>10. CASE DropFinalizer
  <2>1. worker.order \in Orders
    BY <1>1, <1>10 DEF DropFinalizer
  <2> QED BY <1>1, <1>4, <1>10, <2>1, IdleSound, ProceedSound, PutOrderTypes
          DEF DropFinalizer
<1>11. CASE RestoreGet
  <2> DEFINE seen == Cached(target)
             wk == [worker EXCEPT !.copy = CopyOf(seen),
                                  !.tfresh = Synced(target)]
  <2>1. /\ wk \in Worker /\ wk.order \in Orders /\ worker.order \in Orders
        /\ seen.saved \in Saved
        /\ wk.copy \in [replicas : Nat, saved : Saved]
    BY <1>1, <1>2, <1>11 DEF RestoreGet, Worker, Synced, CopyOf, Target
  <2>2. Sound([wk EXCEPT !.pc = "rewrite", !.copy.replicas = 0])
    BY <2>1 DEF Sound, Worker, Steps
  <2>3. ASSUME seen.saved \in Nat
        PROVE  Sound([wk EXCEPT !.pc = "restorePut",
                        !.copy = [replicas |-> seen.saved, saved |-> None]])
    BY <2>1, <2>3 DEF Sound, Worker, Steps, Saved
  <2>4. Sound(worker')
    BY <1>1, <1>11, <2>1, <2>2, <2>3, FailSound DEF RestoreGet
  <2> QED BY <1>11, <2>4, RestoreGetTypes
<1>12. CASE RestorePut
  <2>1. worker.order \in Orders /\ Sound([worker EXCEPT !.pc = "rewrite"])
    BY <1>1, <1>12 DEF RestorePut, Sound, Worker, Steps
  <2> QED BY <1>1, <1>3, <1>12, <2>1, FailSound, PutTargetTypes DEF RestorePut
<1>13. CASE Rewrite
  <2>1. /\ worker.order \in Orders
        /\ Sound([worker EXCEPT !.pc = "dropFin"])
        /\ Sound([worker EXCEPT !.pc = "status",
                                !.count = worker.copy.replicas])
    BY <1>1, <1>3, <1>13 DEF Rewrite, Sound, Worker, Steps
  <2> QED BY <1>1, <1>3, <1>13, <2>1, IdleSound, ProceedSound, PutTargetTypes
          DEF Rewrite
<1>14. CASE SnapshotGet
  <2>1. /\ worker.order \in Orders
        /\ Cached(target).replicas \in Nat /\ worker.copy.replicas \in Saved
        /\ worker.copy.replicas \in Nat
    BY <1>1, <1>2, <1>3, <1>14 DEF SnapshotGet, Target, Saved
  <2>2. Sound([worker EXCEPT !.pc = "snapPut",
                 !.copy = [replicas |-> Cached(target).replicas,
                           saved |-> worker.copy.replicas],
                 !.tfresh = Synced(target)])
    BY <1>1, <2>1 DEF Sound, Worker, Steps, Synced
  <2> QED BY <1>14, <2>2, IdleSound, ReadOnlyTypes DEF SnapshotGet
<1>15. CASE SnapshotPut
  <2>1. worker.order \in Orders /\ Sound([worker EXCEPT !.pc = "zero"])
    BY <1>1, <1>15 DEF SnapshotPut, TypeInv, Sound, Worker, Steps
  <2> QED BY <1>3, <1>15, <2>1, IdleSound, PutTargetTypes DEF SnapshotPut
<1>16. CASE ScaleToZero
  <2>1. worker.order \in Orders /\ worker.copy.saved \in Nat
    BY <1>1, <1>16 DEF ScaleToZero, TypeInv, Sound
  <2>2. /\ Sound([worker EXCEPT !.pc = "status", !.count = worker.copy.saved])
        /\ [worker.copy EXCEPT !.replicas = 0]
             \in [replicas : Nat, saved : Saved]
    BY <1>1, <1>3, <2>1 DEF Sound, Worker, Steps
  <2> QED BY <1>16, <2>1, <2>2, IdleSound, PutTargetTypes DEF ScaleToZero
<1>17. CASE UpdateStatus
  <2>1. Sound([worker EXCEPT !.pc = "statusPut",
                 !.ofresh = Synced(order[worker.order])])
    BY <1>1, <1>17 DEF UpdateStatus, Sound, Worker, Steps, Synced
  <2> QED BY <1>17, <2>1, IdleSound, ReadOnlyTypes DEF UpdateStatus
<1>18. CASE StatusPut
  <2>1. worker.order \in Orders /\ Original \in Nat \cup {None}
    BY <1>1, <1>18 DEF StatusPut, Original, Worker
  <2>2. [Stored(order[worker.order]) EXCEPT !.state = worker.verdict,
                                            !.original = Original] \in Order
    <3>1. /\ worker.verdict \in {"Sleeping", "Awake", "Error TargetNotFound"}
          /\ Stored(order[worker.order]) \in Order
      BY <1>1, <1>2, <2>1 DEF Worker
    <3> QED BY <2>1, <3>1 DEF Order
  <2>3. order' \in [Orders -> Versions(Order)]
    BY <1>18, <2>1, <2>2, PublishVersions DEF StatusPut, TypeInv, TypeOK
  <2> QED BY <1>18, <2>3, IdleSound DEF StatusPut, TypeInv, TypeOK, Sound
<1> QED BY <1>5, <1>6, <1>7, <1>8, <1>9, <1>10, <1>11, <1>12, <1>13, <1>14,
           <1>15, <1>16, <1>17, <1>18 DEF Controller, WorkerStep

\* The rest of the cluster.
LEMMA EnvironmentTypes ==
  ASSUME TypeInv, Environment
  PROVE  TypeInv'
<1>1. /\ worker \in Worker /\ spoilt \in BOOLEAN /\ phase \in [Orders -> Phases]
      /\ worker.pc # "idle" => worker.order \in Orders
      /\ target \in Versions(Target) /\ order \in [Orders -> Versions(Order)]
  BY DEF TypeInv, TypeOK, Sound
<1>2. /\ Stored(target) \in Target
      /\ <<Stored(target)>> \in Versions(Target)
      /\ \A o \in Orders : /\ Stored(order[o]) \in Order
                           /\ <<Stored(order[o])>> \in Versions(Order)
  BY <1>1, VersionsSeen
<1>3. /\ GoneTarget \in Target /\ NewTarget \in Target
      /\ GoneOrder \in Order /\ NewOrder \in Order
  BY SleepOrderAssumption
     DEF GoneTarget, NewTarget, GoneOrder, NewOrder, Target, Order, Saved
<1>4. \A v \in Order : Settle(v) \in Order
  BY <1>3 DEF Settle
<1>5. \A o \in Orders, p \in Phases :
        [phase EXCEPT ![o] = p] \in [Orders -> Phases]
  BY <1>1
<1>6. CASE Touch
  BY <1>1, <1>2, <1>6, WriteTargetTypes DEF Touch
<1>7. ASSUME NEW n \in Counts, Scale(n) PROVE TypeInv'
  <2>1. n \in Nat
    BY SleepOrderAssumption
  <2>2. [Stored(target) EXCEPT !.replicas = n] \in Target
    BY <1>2, <2>1 DEF Target
  <2> QED BY <1>7, <2>2, WriteTargetTypes DEF Scale, Spoils
<1>8. CASE DeleteTarget
  BY <1>1, <1>3, <1>8, WriteTargetTypes DEF DeleteTarget
<1>9. CASE CreateTarget
  BY <1>1, <1>3, <1>9, WriteTargetTypes DEF CreateTarget
<1>10. CASE Garble
  <2>1. \A text \in {Garbled, Empty} :
          [Stored(target) EXCEPT !.saved = text] \in Target
    BY <1>2 DEF Target, Saved
  <2> QED BY <1>10, <2>1, WriteTargetTypes DEF Garble, Spoils
<1>11. ASSUME NEW o \in Orders, CreateOrder(o) PROVE TypeInv'
  <2>1. phase' \in [Orders -> Phases]
    BY <1>5, <1>11 DEF CreateOrder, Phases
  <2> QED BY <1>3, <1>11, <2>1, WriteOrderTypes DEF CreateOrder
<1>12. ASSUME NEW o \in Orders, DeleteOrder(o) PROVE TypeInv'
  <2>1. [Stored(order[o]) EXCEPT !.deleting = TRUE] \in Order
    BY <1>2 DEF Order
  <2> QED BY <1>1, <1>4, <1>12, <2>1, WriteOrderTypes DEF DeleteOrder
<1>13. ASSUME NEW o \in Orders, PolicyUpdate(o) PROVE TypeInv'
  <2>1. [Stored(order[o]) EXCEPT !.fin = FALSE] \in Order
    BY <1>2 DEF Order
  <2>2. phase' \in [Orders -> Phases]
    BY <1>5, <1>13 DEF PolicyUpdate
  <2> QED BY <1>4, <1>13, <2>1, <2>2, WriteOrderTypes DEF PolicyUpdate
<1>14. ASSUME NEW o \in Orders, EditSchedule(o) PROVE TypeInv'
  <2>1. phase' \in [Orders -> Phases]
    BY <1>5, <1>14 DEF EditSchedule
  <2> QED BY <1>2, <1>14, <2>1, WriteOrderTypes DEF EditSchedule
<1>15. ASSUME NEW o \in Orders, Tick(o) PROVE TypeInv'
  <2>1. phase' \in [Orders -> Phases]
    BY <1>1, <1>15 DEF Tick, Phases
  <2> QED BY <1>15, <2>1 DEF Tick, TypeInv, TypeOK, Sound
<1>16. CASE DeliverTarget
  <2>1. target' \in Versions(Target)
    BY <1>1, <1>16, VersionsSeen DEF DeliverTarget
  <2> QED BY <1>16, <2>1 DEF DeliverTarget, TypeInv, TypeOK, Sound
<1>17. ASSUME NEW o \in Orders, DeliverOrder(o) PROVE TypeInv'
  <2>1. Tail(order[o]) \in Versions(Order)
    BY <1>1, <1>17, VersionsSeen DEF DeliverOrder
  <2>2. order' \in [Orders -> Versions(Order)]
    BY <1>1, <1>17, <2>1 DEF DeliverOrder
  <2> QED BY <1>17, <2>2 DEF DeliverOrder, TypeInv, TypeOK, Sound
<1>18. CASE ApiError
  <2>1. worker.order \in Orders
    BY <1>1, <1>18 DEF ApiError
  <2> QED BY <1>1, <1>18, <2>1, FailSound, ReadOnlyTypes DEF ApiError
<1>19. CASE Crash
  <2>1. order' \in [Orders -> Versions(Order)]
    BY <1>2, <1>19 DEF Crash
  <2> QED BY <1>2, <1>19, <2>1, IdleSound
          DEF Crash, TypeInv, TypeOK, Sound
<1> QED BY <1>6, <1>7, <1>8, <1>9, <1>10, <1>11, <1>12, <1>13, <1>14, <1>15,
           <1>16, <1>17, <1>18, <1>19 DEF Environment

LEMMA InitTypes == Init => TypeInv
<1> SUFFICES ASSUME Init PROVE TypeInv
  OBVIOUS
<1>1. NewTarget \in Target /\ GoneOrder \in Order
  BY SleepOrderAssumption DEF NewTarget, GoneOrder, Target, Order, Saved
<1>2. <<NewTarget>> \in Versions(Target) /\ <<GoneOrder>> \in Versions(Order)
  BY <1>1, SleepOrderAssumption DEF Versions
<1>3. phase \in [Orders -> Phases] /\ order \in [Orders -> Versions(Order)]
  BY <1>2 DEF Init, Phases
<1> QED BY <1>2, <1>3, IdleSound, SleepOrderAssumption
        DEF Init, TypeInv, TypeOK, Sound

LEMMA NextTypes == TypeInv /\ [Next]_vars => TypeInv'
<1>1. ASSUME TypeInv, UNCHANGED vars PROVE TypeInv'
  BY <1>1 DEF vars, TypeInv, TypeOK, Sound
<1> QED BY <1>1, ControllerTypes, EnvironmentTypes DEF Next

(***************************************************************************)
(* Every object, cached or stored, and the worker keep their types; the    *)
(* worker has a snapshot whenever it is about to scale down.               *)
(***************************************************************************)
THEOREM TypesHold == Spec => []TypeInv
BY InitTypes, NextTypes, PTL DEF Spec

THEOREM TypeCorrect == Spec => []TypeOK
<1>1. TypeInv => TypeOK
  BY DEF TypeInv
<1> QED BY <1>1, TypesHold, PTL

-----------------------------------------------------------------------------
(* The annotation and the count.                                           *)

\* A worker about to restore from a copy the API server would accept has the
\* stored annotation in hand; about to write again, it has left none behind.
FreshInv ==
  /\ worker.pc = "restorePut" =>
       /\ worker.copy.saved = None
       /\ worker.tfresh => Stored(target).saved = worker.copy.replicas
  /\ worker.pc = "rewrite" /\ worker.tfresh
       => Stored(target).saved \in {None, Empty}

\* What RestoreExact says of one step of the controller.
ExactStep ==
  Stored(target).saved \in Nat /\ Stored(target').saved = None
    => Stored(target').replicas = Stored(target).saved

Restoring == {"restorePut", "rewrite"}

LEMMA OnwardElsewhere ==
  ASSUME NEW wk \in Worker, NEW err
  PROVE  /\ Idle.pc \notin Restoring
         /\ Proceed(wk).pc \notin Restoring
         /\ Fail(wk, err).pc \notin Restoring
<1>1. Idle.pc \notin Restoring
  BY DEF Idle, Restoring
<1>2. Proceed(wk).pc \notin Restoring
  BY <1>1 DEF Proceed, Worker, Restoring
<1>3. Fail(wk, err).pc \notin Restoring
  BY <1>1, <1>2 DEF Fail, Worker, Restoring
<1> QED BY <1>1, <1>2, <1>3

\* An update of the workload either leaves the stored version alone, or was
\* made from a fresh copy and stores exactly what was sent.
LEMMA PutTargetStored ==
  ASSUME TypeInv, NEW c \in [replicas : Nat, saved : Saved],
         NEW onOK, NEW onNotFound, PutTarget(c, onOK, onNotFound)
  PROVE  \/ /\ Stored(target') = Stored(target)
            /\ worker' \in {onNotFound, Fail(worker, "Conflict")}
         \/ /\ Stored(target).exists /\ worker.tfresh
            /\ Stored(target') = [exists |-> TRUE, replicas |-> c.replicas,
                                  saved |-> c.saved]
            /\ worker' = onOK
<1> DEFINE v == [exists |-> TRUE, replicas |-> c.replicas, saved |-> c.saved]
<1>1. v \in Target /\ target \in Versions(Target)
  BY DEF Target, TypeInv, TypeOK
<1>2. Stored(Save(target, v)) = v
  BY <1>1, PublishVersions
<1> QED BY <1>2 DEF PutTarget, Answer

LEMMA ControllerExact ==
  ASSUME TypeInv, FreshInv, Controller
  PROVE  FreshInv' /\ ExactStep
<1> USE DEF At, Goto
<1>1. /\ worker \in Worker /\ target \in Versions(Target)
      /\ worker.copy \in [replicas : Nat, saved : Saved]
      /\ worker.pc \in {"snapPut", "zero"} => worker.copy.saved \in Nat
  BY DEF TypeInv, TypeOK, Sound, Worker
<1>2. ASSUME Stored(target') = Stored(target), worker'.pc \notin Restoring
      PROVE  FreshInv' /\ ExactStep
  <2>1. FreshInv'
    BY <1>2 DEF FreshInv, Restoring
  <2>2. ExactStep
    BY <1>2, SleepOrderAssumption DEF ExactStep
  <2> QED BY <2>1, <2>2
<1>3. ASSUME target' = target, worker'.pc \notin Restoring
      PROVE  FreshInv' /\ ExactStep
  BY <1>2, <1>3
<1>4. ASSUME NEW c \in [replicas : Nat, saved : Saved], c.saved \in Nat,
             NEW onOK, onOK.pc \notin Restoring, PutTarget(c, onOK, Idle)
      PROVE  FreshInv' /\ ExactStep
  <2>1. worker'.pc \notin Restoring
    BY <1>1, <1>4, OnwardElsewhere DEF PutTarget, Answer
  <2>2. Stored(target') = Stored(target) \/ Stored(target').saved = c.saved
    BY <1>4, PutTargetStored
  <2>3. FreshInv'
    BY <2>1 DEF FreshInv, Restoring
  <2>4. ExactStep
    BY <1>4, <2>2, SleepOrderAssumption DEF ExactStep
  <2> QED BY <2>3, <2>4
<1>5. ASSUME NEW o \in Orders, Reconcile(o) PROVE FreshInv' /\ ExactStep
  BY <1>3, <1>5 DEF Reconcile, ReadOnly, Idle, Restoring
<1>6. CASE GetTargetObject
  BY <1>1, <1>3, <1>6, OnwardElsewhere
     DEF GetTargetObject, ReadOnly, Worker, Restoring
<1>7. CASE RemoveFinalizerTargetMissing
  BY <1>1, <1>3, <1>7, OnwardElsewhere
     DEF RemoveFinalizerTargetMissing, PutOrder, Answer, Worker, Restoring
<1>8. CASE HandleFinalizer
  <2> DEFINE wk == [worker EXCEPT !.ofresh = Synced(order[worker.order])]
  <2>1. wk \in Worker
    BY <1>1 DEF Worker, Synced
  <2>2. \A step \in {"addFin", "restoreGet", "dropFin"} :
          [wk EXCEPT !.pc = step].pc \notin Restoring
    BY <2>1 DEF Worker, Restoring
  <2> QED BY <1>3, <1>8, <2>1, <2>2, OnwardElsewhere
          DEF HandleFinalizer, Needs, ReadOnly
<1>9. CASE AddFinalizer
  BY <1>1, <1>3, <1>9, OnwardElsewhere DEF AddFinalizer, PutOrder, Answer
<1>10. CASE DropFinalizer
  BY <1>1, <1>3, <1>10, OnwardElsewhere DEF DropFinalizer, PutOrder, Answer
<1>11. CASE RestoreGet
  <2> DEFINE seen == Cached(target)
             wk == [worker EXCEPT !.copy = CopyOf(seen),
                                  !.tfresh = Synced(target)]
             zero == [wk EXCEPT !.pc = "rewrite", !.copy.replicas = 0]
             back == [wk EXCEPT !.pc = "restorePut",
                        !.copy = [replicas |-> seen.saved, saved |-> None]]
  <2>1. /\ wk \in Worker /\ seen \in Target
        /\ Synced(target) => Stored(target) = seen
    <3>1. seen \in Target /\ (Synced(target) => Stored(target) = seen)
      BY <1>1, VersionsSeen
    <3> QED BY <1>1, <3>1 DEF Worker, Synced, CopyOf, Target
  <2>2. target' = target
    BY <1>11 DEF RestoreGet
  <2>3. \/ worker' = Fail(worker, "NotFound") \/ worker' = Fail(wk, "Error")
        \/ seen.saved \in {None, Empty} /\ worker' = zero
        \/ worker' = back
    BY <1>11 DEF RestoreGet, AnswersZero
  <2>4. CASE worker' = Fail(worker, "NotFound") \/ worker' = Fail(wk, "Error")
    BY <1>1, <1>3, <2>1, <2>2, <2>4, OnwardElsewhere
  <2>5. CASE seen.saved \in {None, Empty} /\ worker' = zero
    <3>1. zero.pc = "rewrite" /\ zero.tfresh = Synced(target)
      BY <1>1 DEF Worker
    <3>2. FreshInv'
      BY <2>1, <2>2, <2>5, <3>1 DEF FreshInv
    <3> QED BY <2>2, <3>2, SleepOrderAssumption DEF ExactStep
  <2>6. CASE worker' = back
    <3>1. /\ back.pc = "restorePut" /\ back.tfresh = Synced(target)
          /\ back.copy = [replicas |-> seen.saved, saved |-> None]
      BY <1>1 DEF Worker
    <3>2. FreshInv'
      BY <2>1, <2>2, <2>6, <3>1 DEF FreshInv
    <3> QED BY <2>2, <3>2, SleepOrderAssumption DEF ExactStep
  <2> QED BY <2>3, <2>4, <2>5, <2>6
<1>12. CASE RestorePut
  <2> DEFINE on == [worker EXCEPT !.pc = "rewrite"]
  <2>1. /\ worker.copy.saved = None
        /\ worker.tfresh => Stored(target).saved = worker.copy.replicas
    BY <1>12 DEF RestorePut, FreshInv
  <2>2. PutTarget(worker.copy, on, Fail(worker, "NotFound"))
    BY <1>12 DEF RestorePut
  <2>3. CASE /\ Stored(target') = Stored(target)
             /\ worker' \in {Fail(worker, "NotFound"), Fail(worker, "Conflict")}
    BY <1>1, <1>2, <2>3, OnwardElsewhere
  <2>4. CASE /\ worker.tfresh /\ worker' = on
             /\ Stored(target') = [exists |-> TRUE,
                                   replicas |-> worker.copy.replicas,
                                   saved |-> worker.copy.saved]
    <3>1. on.pc = "rewrite"
      BY <1>1 DEF Worker
    <3>2. FreshInv'
      BY <2>1, <2>4, <3>1 DEF FreshInv
    <3> QED BY <2>1, <2>4, <3>2 DEF ExactStep
  <2> QED BY <1>1, <2>2, <2>3, <2>4, PutTargetStored
<1>13. CASE Rewrite
  <2>1. worker.tfresh => Stored(target).saved \in {None, Empty}
    BY <1>13 DEF Rewrite, FreshInv
  <2>2. PICK on, off : /\ PutTarget(worker.copy, on, off)
                       /\ on.pc \notin Restoring /\ off.pc \notin Restoring
    BY <1>1, <1>13, OnwardElsewhere DEF Rewrite, Worker, Restoring
  <2>3. worker'.pc \notin Restoring
    BY <1>1, <2>2, OnwardElsewhere DEF PutTarget, Answer
  <2>4. Stored(target') = Stored(target) \/ Stored(target).saved \in {None, Empty}
    BY <1>1, <2>1, <2>2, PutTargetStored
  <2>5. FreshInv'
    BY <2>3 DEF FreshInv, Restoring
  <2> QED BY <2>4, <2>5, SleepOrderAssumption DEF ExactStep
<1>14. CASE SnapshotGet
  BY <1>1, <1>3, <1>14, OnwardElsewhere
     DEF SnapshotGet, ReadOnly, Worker, Restoring
<1>15. CASE SnapshotPut
  <2>1. [worker EXCEPT !.pc = "zero"].pc \notin Restoring
    BY <1>1 DEF Worker, Restoring
  <2> QED BY <1>1, <1>4, <1>15, <2>1 DEF SnapshotPut
<1>16. CASE ScaleToZero
  <2>1. [worker EXCEPT !.pc = "status",
                       !.count = worker.copy.saved].pc \notin Restoring
    BY <1>1 DEF Worker, Restoring
  <2>2. /\ [worker.copy EXCEPT !.replicas = 0]
             \in [replicas : Nat, saved : Saved]
        /\ [worker.copy EXCEPT !.replicas = 0].saved \in Nat
    BY <1>1, <1>16 DEF ScaleToZero
  <2> QED BY <1>4, <1>16, <2>1, <2>2 DEF ScaleToZero
<1>17. CASE UpdateStatus
  BY <1>1, <1>3, <1>17, OnwardElsewhere
     DEF UpdateStatus, ReadOnly, Worker, Restoring
<1>18. CASE StatusPut
  BY <1>1, <1>3, <1>18, OnwardElsewhere DEF StatusPut
<1> QED BY <1>5, <1>6, <1>7, <1>8, <1>9, <1>10, <1>11, <1>12, <1>13, <1>14,
           <1>15, <1>16, <1>17, <1>18 DEF Controller, WorkerStep

LEMMA EnvironmentFresh ==
  ASSUME TypeInv, FreshInv, Environment
  PROVE  FreshInv'
<1>1. worker \in Worker /\ target \in Versions(Target)
  BY DEF TypeInv, TypeOK
<1>2. ASSUME NEW v, WriteTarget(v) PROVE FreshInv'
  <2>1. /\ worker'.pc = worker.pc /\ worker'.copy = worker.copy
        /\ ~worker'.tfresh
    BY <1>1, <1>2 DEF WriteTarget, Worker
  <2> QED BY <2>1 DEF FreshInv
<1>3. ASSUME Stored(target') = Stored(target), worker'.pc = worker.pc,
             worker'.copy = worker.copy, worker'.tfresh = worker.tfresh
      PROVE  FreshInv'
  BY <1>3 DEF FreshInv
<1>4. ASSUME NEW o, NEW v, WriteOrder(o, v) PROVE FreshInv'
  BY <1>1, <1>3, <1>4 DEF WriteOrder, Worker
<1>5. CASE Touch \/ DeleteTarget \/ CreateTarget \/ Garble
           \/ \E n \in Counts : Scale(n)
  BY <1>2, <1>5 DEF Touch, DeleteTarget, CreateTarget, Garble, Scale
<1>6. ASSUME NEW o \in Orders,
             CreateOrder(o) \/ DeleteOrder(o) \/ PolicyUpdate(o)
             \/ EditSchedule(o)
      PROVE  FreshInv'
  BY <1>4, <1>6 DEF CreateOrder, DeleteOrder, PolicyUpdate, EditSchedule
<1>7. ASSUME NEW o \in Orders, Tick(o) \/ DeliverOrder(o) PROVE FreshInv'
  BY <1>3, <1>7 DEF Tick, DeliverOrder
<1>8. CASE DeliverTarget
  BY <1>1, <1>3, <1>8, VersionsSeen DEF DeliverTarget
<1>9. CASE ApiError
  BY <1>1, <1>9, OnwardElsewhere DEF ApiError, FreshInv, Restoring
<1>10. CASE Crash
  BY <1>1, <1>10, OnwardElsewhere DEF Crash, FreshInv, Restoring
<1> QED BY <1>5, <1>6, <1>7, <1>8, <1>9, <1>10 DEF Environment

\* What the worker has in hand is right from the first state on.
LEMMA FreshSteps ==
  /\ Init => FreshInv
  /\ TypeInv /\ FreshInv /\ [Next]_vars => FreshInv'
<1>1. Init => FreshInv
  BY DEF Init, FreshInv, Idle
<1>2. TypeInv /\ FreshInv /\ [Next]_vars => FreshInv'
  <2>1. ASSUME FreshInv, UNCHANGED vars PROVE FreshInv'
    BY <2>1 DEF vars, FreshInv
  <2> QED BY <2>1, ControllerExact, EnvironmentFresh DEF Next
<1> QED BY <1>1, <1>2

(***************************************************************************)
(* In any cluster whatever, the annotation the controller removes from a   *)
(* workload is the count the workload then runs with: restoreReplicas sets *)
(* the one and removes the other in one checked write, and no later write  *)
(* of the same reconcile can remove an annotation it has not read.         *)
(***************************************************************************)
THEOREM RestoresExactly == Spec => RestoreExact
<1>1. TypeInv /\ FreshInv /\ [Next]_vars =>
        [LET old == Stored(target)
             new == Stored(target')
         IN Controller /\ old.saved \in Nat /\ new.saved = None
              => new.replicas = old.saved]_vars
  BY ControllerExact DEF ExactStep
<1> QED BY <1>1, FreshSteps, TypesHold, PTL DEF Spec, RestoreExact

-----------------------------------------------------------------------------
(* As long as the count of the manifest is not spoilt.                     *)

\* Once it is, it stays so.
LEMMA SpoiltStays == spoilt /\ [Next]_vars => spoilt'
<1> SUFFICES ASSUME spoilt, [Next]_vars PROVE spoilt'
  OBVIOUS
<1>1. CASE UNCHANGED vars
  BY <1>1 DEF vars
<1>2. CASE Controller
  BY <1>2 DEF Controller, WorkerStep, Reconcile, GetTargetObject,
     RemoveFinalizerTargetMissing, HandleFinalizer, AddFinalizer,
     DropFinalizer, RestoreGet, RestorePut, Rewrite, SnapshotGet, SnapshotPut,
     ScaleToZero, UpdateStatus, StatusPut, PutOrder, PutTarget, ReadOnly, Spoils
<1>3. CASE Environment
  BY <1>3 DEF Environment, Touch, DeleteTarget, CreateTarget, Garble,
     DeliverTarget, ApiError, Crash, Scale, CreateOrder, DeleteOrder,
     PolicyUpdate, EditSchedule, Tick, DeliverOrder, WriteTarget, WriteOrder,
     ReadOnly, Spoils
<1> QED BY <1>1, <1>2, <1>3 DEF Next

\* The versions of the workload from which the desired count can be read.
Keeping == {v \in Target : RecoverableAs(v, Desired)}
KeepingCopy == {c \in [replicas : Nat, saved : Saved] :
                  \/ c.replicas = Desired /\ c.saved \in {None, Desired}
                  \/ c.replicas = 0 /\ c.saved = Desired}

\* Steps at which the worker's copy is one it has read from the workload.
Holding == {"finalizer", "addFin", "restoreGet", "restorePut", "rewrite",
            "dropFin", "snapGet", "snapPut", "zero"}

\* Steps of handleFinalizer.
Finalizing == {"finalizer", "addFin", "restoreGet", "restorePut", "rewrite",
               "dropFin"}

KeepsCopy(wk) ==
  /\ wk.pc \in Holding => wk.copy \in KeepingCopy
  /\ wk.pc = "snapGet" => wk.copy.saved = None
  /\ wk.path = "finalizer" => wk.pc \in Finalizing

CountInv ==
  target \in Versions(Keeping) /\ KeepsCopy(worker)

LEMMA OnwardKeeps ==
  ASSUME NEW wk \in Worker, NEW err,
         wk.path = "finalizer" => wk.copy \in KeepingCopy
  PROVE  /\ KeepsCopy(Idle)
         /\ wk.copy \in KeepingCopy => KeepsCopy(Proceed(wk))
         /\ KeepsCopy(Fail(wk, err))
<1>1. KeepsCopy(Idle)
  BY DEF KeepsCopy, Holding, Finalizing, Idle
<1>2. ASSUME wk.copy \in KeepingCopy PROVE KeepsCopy(Proceed(wk))
  BY <1>1, <1>2 DEF KeepsCopy, Proceed, Worker, Finalizing
<1>3. KeepsCopy(Fail(wk, err))
  <2>1. CASE wk.path # "finalizer"
    BY <1>1, <2>1 DEF Fail
  <2>2. CASE wk.path = "finalizer"
    BY <1>2, <2>2 DEF KeepsCopy, Fail, Worker, Finalizing
  <2> QED BY <2>1, <2>2
<1> QED BY <1>1, <1>2, <1>3

\* An update with a copy of that kind keeps the count.
LEMMA PutTargetKeeps ==
  ASSUME CountInv, TypeInv, NEW c \in KeepingCopy,
         NEW onOK, NEW onNotFound, KeepsCopy(onOK), KeepsCopy(onNotFound),
         worker.copy \in KeepingCopy, PutTarget(c, onOK, onNotFound)
  PROVE  CountInv'
<1>1. [exists |-> TRUE, replicas |-> c.replicas, saved |-> c.saved] \in Keeping
  BY DEF Keeping, KeepingCopy, RecoverableAs, Target
<1>2. target' \in Versions(Keeping)
  BY <1>1, PublishVersions DEF PutTarget, CountInv
<1>3. KeepsCopy(worker')
  BY OnwardKeeps DEF PutTarget, Answer, TypeInv, TypeOK
<1> QED BY <1>2, <1>3 DEF CountInv, PutTarget

\* Every step of the controller keeps the count.
LEMMA ControllerKeeps ==
  ASSUME TypeInv, CountInv, Controller, ~spoilt'
  PROVE  CountInv'
<1> USE DEF At, Goto
<1>1. /\ worker \in Worker /\ target \in Versions(Keeping)
      /\ KeepsCopy(worker)
      /\ worker.pc \in {"snapPut", "zero"} => worker.copy.saved \in Nat
  BY DEF TypeInv, TypeOK, Sound, CountInv
<1>2. Cached(target) \in Keeping
  BY <1>1, VersionsSeen
<1>3. /\ worker.pc \in Holding => worker.copy \in KeepingCopy
      /\ worker.path = "finalizer" => worker.copy \in KeepingCopy
  BY <1>1 DEF KeepsCopy, Holding, Finalizing
<1>4. ASSUME UNCHANGED target, KeepsCopy(worker')
      PROVE  CountInv'
  BY <1>1, <1>4 DEF CountInv
<1>5. ASSUME Cached(target).exists
      PROVE  CopyOf(Cached(target)) \in KeepingCopy
  BY <1>2, <1>5 DEF CopyOf, Keeping, KeepingCopy, RecoverableAs, Target
<1>6. /\ KeepsCopy(Idle)
      /\ \A err : KeepsCopy(Fail(worker, err))
      /\ worker.pc \in Holding => KeepsCopy(Proceed(worker))
  BY <1>1, <1>3, OnwardKeeps
<1>7. ASSUME NEW o \in Orders, Reconcile(o) PROVE CountInv'
  BY <1>4, <1>7 DEF Reconcile, ReadOnly, KeepsCopy, Holding, Idle
<1>8. CASE GetTargetObject
  <2>1. worker.path # "finalizer"
    BY <1>1, <1>8 DEF GetTargetObject, KeepsCopy, Finalizing
  <2>2. CASE ~Cached(target).exists
    <3>1. worker'.pc = "missing" /\ worker'.path = worker.path
      BY <1>1, <1>8, <2>2 DEF GetTargetObject, Worker
    <3>2. KeepsCopy(worker')
      BY <2>1, <3>1 DEF KeepsCopy, Holding
    <3> QED BY <1>4, <1>8, <3>2 DEF GetTargetObject, ReadOnly
  <2>3. CASE Cached(target).exists
    <3>1. \/ worker' = Idle
          \/ worker'.pc = "finalizer" /\ worker'.copy = CopyOf(Cached(target))
      BY <1>1, <1>8, <2>3 DEF GetTargetObject, Worker
    <3>2. KeepsCopy(worker')
      BY <1>5, <1>6, <2>3, <3>1 DEF KeepsCopy, Finalizing
    <3> QED BY <1>4, <1>8, <3>2 DEF GetTargetObject, ReadOnly
  <2> QED BY <2>2, <2>3
<1>9. CASE RemoveFinalizerTargetMissing
  <2>1. KeepsCopy([worker EXCEPT !.pc = "status",
                                 !.verdict = "Error TargetNotFound"])
    BY <1>1, <1>9
       DEF RemoveFinalizerTargetMissing, KeepsCopy, Holding, Finalizing, Worker
  <2> QED BY <1>4, <1>6, <1>9, <2>1
          DEF RemoveFinalizerTargetMissing, PutOrder, Answer
<1>10. CASE HandleFinalizer
  <2> DEFINE wk == [worker EXCEPT !.ofresh = Synced(order[worker.order])]
  <2>1. wk \in Worker /\ wk.copy \in KeepingCopy
    BY <1>1, <1>3, <1>10 DEF HandleFinalizer, Holding, Worker, Synced
  <2>2. \A step \in {"addFin", "restoreGet", "dropFin"} :
          KeepsCopy([wk EXCEPT !.pc = step])
    BY <2>1 DEF KeepsCopy, Finalizing, Worker
  <2>3. KeepsCopy(worker')
    BY <1>6, <1>10, <2>1, <2>2, OnwardKeeps
       DEF HandleFinalizer, Needs
  <2> QED BY <1>4, <1>10, <2>3 DEF HandleFinalizer, ReadOnly
<1>11. CASE AddFinalizer
  BY <1>4, <1>6, <1>11 DEF AddFinalizer, PutOrder, Answer, Holding
<1>12. CASE DropFinalizer
  BY <1>4, <1>6, <1>12 DEF DropFinalizer, PutOrder, Answer, Holding
<1>13. CASE RestoreGet
  <2> DEFINE seen == Cached(target)
             wk == [worker EXCEPT !.copy = CopyOf(seen),
                                  !.tfresh = Synced(target)]
  <2> ~AnswersZero(seen)
    BY <1>13 DEF RestoreGet, Spoils
  <2>1. CASE ~seen.exists
    BY <1>4, <1>6, <1>13, <2>1 DEF RestoreGet
  <2>2. CASE seen.exists
    <3>1. wk \in Worker /\ wk.copy \in KeepingCopy
      BY <1>1, <1>5, <2>2 DEF Worker, Synced, KeepingCopy
    <3>2. seen.saved \in {None, Desired}
      BY <1>2, <2>2 DEF Keeping, RecoverableAs
    <3>3. KeepsCopy([wk EXCEPT !.pc = "restorePut",
                       !.copy = [replicas |-> Desired, saved |-> None]])
      BY <3>1, SleepOrderAssumption
         DEF KeepsCopy, KeepingCopy, Finalizing, Worker, Saved
    <3>4. KeepsCopy(worker')
      <4>1. KeepsCopy(Fail(wk, "Error"))
        BY <3>1, OnwardKeeps
      <4>2. CASE seen.saved = None
        BY <1>13, <2>2, <4>1, <4>2, SleepOrderAssumption DEF RestoreGet
      <4>3. CASE seen.saved = Desired
        BY <1>13, <2>2, <3>3, <4>3, SleepOrderAssumption DEF RestoreGet
      <4> QED BY <3>2, <4>2, <4>3
    <3> QED BY <1>4, <1>13, <3>4 DEF RestoreGet
  <2> QED BY <2>1, <2>2
<1>14. CASE RestorePut
  <2>1. worker.copy \in KeepingCopy /\ KeepsCopy([worker EXCEPT !.pc = "rewrite"])
    BY <1>1, <1>3, <1>14 DEF RestorePut, KeepsCopy, Holding, Finalizing, Worker
  <2> QED BY <1>6, <1>14, <2>1, PutTargetKeeps DEF RestorePut
<1>15. CASE Rewrite
  <2>1. worker.copy \in KeepingCopy /\ KeepsCopy(Proceed(worker))
    BY <1>3, <1>6, <1>15 DEF Rewrite, Holding
  <2>2. KeepsCopy([worker EXCEPT !.pc = "dropFin"])
    BY <1>1, <2>1 DEF KeepsCopy, Finalizing, Worker
  <2>3. ASSUME worker.path # "finalizer"
        PROVE  KeepsCopy([worker EXCEPT !.pc = "status",
                                        !.count = worker.copy.replicas])
    BY <1>1, <2>3 DEF KeepsCopy, Holding, Worker
  <2> QED BY <1>6, <1>15, <2>1, <2>2, <2>3, PutTargetKeeps DEF Rewrite
<1>16. CASE SnapshotGet
  <2> DEFINE seen == Cached(target)
             c == [replicas |-> seen.replicas, saved |-> worker.copy.replicas]
  <2>1. CASE ~seen.exists
    BY <1>4, <1>6, <1>16, <2>1 DEF SnapshotGet, ReadOnly
  <2>2. CASE seen.exists
    <3>1. worker.copy.replicas = Desired /\ worker.path # "finalizer"
      BY <1>1, <1>3, <1>16, SleepOrderAssumption
         DEF SnapshotGet, KeepsCopy, KeepingCopy, Holding, Finalizing
    <3>2. seen.replicas \in {0, Desired}
      BY <1>2, <2>2 DEF Keeping, RecoverableAs
    <3>3. c \in KeepingCopy
      BY <3>1, <3>2, SleepOrderAssumption DEF KeepingCopy, Saved
    <3>4. KeepsCopy([worker EXCEPT !.pc = "snapPut", !.copy = c,
                                   !.tfresh = Synced(target)])
      BY <1>1, <3>1, <3>3 DEF KeepsCopy, Worker
    <3> QED BY <1>4, <1>16, <2>2, <3>4 DEF SnapshotGet, ReadOnly
  <2> QED BY <2>1, <2>2
<1>17. CASE SnapshotPut
  <2>1. worker.copy \in KeepingCopy /\ worker.path # "finalizer"
    BY <1>1, <1>3, <1>17 DEF SnapshotPut, KeepsCopy, Holding, Finalizing
  <2>2. KeepsCopy([worker EXCEPT !.pc = "zero"])
    BY <1>1, <2>1 DEF KeepsCopy, Worker
  <2> QED BY <1>6, <1>17, <2>1, <2>2, PutTargetKeeps DEF SnapshotPut
<1>18. CASE ScaleToZero
  <2>1. /\ worker.copy \in KeepingCopy /\ worker.path # "finalizer"
        /\ worker.copy.saved \in Nat
    BY <1>1, <1>3, <1>18 DEF ScaleToZero, KeepsCopy, Holding, Finalizing
  <2>2. [worker.copy EXCEPT !.replicas = 0] \in KeepingCopy
    BY <2>1, SleepOrderAssumption DEF KeepingCopy
  <2>3. KeepsCopy([worker EXCEPT !.pc = "status", !.count = worker.copy.saved])
    BY <1>1, <2>1 DEF KeepsCopy, Holding, Worker
  <2> QED BY <1>6, <1>18, <2>1, <2>2, <2>3, PutTargetKeeps DEF ScaleToZero
<1>19. CASE UpdateStatus
  <2>1. KeepsCopy([worker EXCEPT !.pc = "statusPut",
                     !.ofresh = Synced(order[worker.order])])
    BY <1>1, <1>19 DEF UpdateStatus, KeepsCopy, Holding, Finalizing, Worker
  <2> QED BY <1>4, <1>6, <1>19, <2>1 DEF UpdateStatus, ReadOnly
<1>20. CASE StatusPut
  BY <1>4, <1>6, <1>20 DEF StatusPut
<1> QED BY <1>7, <1>8, <1>9, <1>10, <1>11, <1>12, <1>13, <1>14, <1>15, <1>16,
           <1>17, <1>18, <1>19, <1>20 DEF Controller, WorkerStep

\* So does the rest of the cluster.
LEMMA EnvironmentKeeps ==
  ASSUME TypeInv, CountInv, Environment, ~spoilt'
  PROVE  CountInv'
<1>1. /\ worker \in Worker /\ target \in Versions(Keeping)
      /\ KeepsCopy(worker)
  BY DEF TypeInv, TypeOK, CountInv
<1>2. Stored(target) \in Keeping /\ <<Stored(target)>> \in Versions(Keeping)
  BY <1>1, VersionsSeen
<1>3. ASSUME NEW v \in Keeping, WriteTarget(v)
      PROVE  CountInv'
  <2>1. target' \in Versions(Keeping)
    BY <1>1, <1>3, PublishVersions DEF WriteTarget
  <2>2. KeepsCopy(worker')
    BY <1>1, <1>3 DEF WriteTarget, KeepsCopy, Worker
  <2> QED BY <1>3, <2>1, <2>2 DEF CountInv
<1>4. GoneTarget \in Keeping /\ NewTarget \in Keeping
  BY SleepOrderAssumption
     DEF GoneTarget, NewTarget, Keeping, RecoverableAs, Target, Saved
<1>5. CASE Touch
  BY <1>1, <1>2, <1>3, <1>5 DEF Touch
<1>6. CASE DeleteTarget
  BY <1>1, <1>3, <1>4, <1>6 DEF DeleteTarget
<1>7. CASE CreateTarget
  BY <1>3, <1>4, <1>7 DEF CreateTarget
<1>8. ASSUME NEW o \in Orders,
             CreateOrder(o) \/ DeleteOrder(o) \/ PolicyUpdate(o)
             \/ EditSchedule(o)
      PROVE  CountInv'
  <2>1. PICK v : WriteOrder(o, v)
    BY <1>8 DEF CreateOrder, DeleteOrder, PolicyUpdate, EditSchedule
  <2>2. KeepsCopy(worker')
    BY <1>1, <2>1 DEF WriteOrder, KeepsCopy, Worker
  <2> QED BY <1>1, <2>1, <2>2 DEF WriteOrder, CountInv
<1>9. ASSUME NEW o \in Orders, Tick(o) \/ DeliverOrder(o) PROVE CountInv'
  BY <1>1, <1>9 DEF Tick, DeliverOrder, CountInv
<1>10. CASE DeliverTarget
  BY <1>1, <1>10, VersionsSeen DEF DeliverTarget, CountInv
<1>11. CASE ApiError
  <2>1. KeepsCopy(worker')
    BY <1>1, <1>11, OnwardKeeps
       DEF ApiError, KeepsCopy, Holding, Finalizing
  <2> QED BY <1>1, <1>11, <2>1 DEF ApiError, ReadOnly, CountInv
<1>12. CASE Crash
  <2>1. KeepsCopy(Idle)
    BY DEF KeepsCopy, Holding, Finalizing, Idle
  <2> QED BY <1>1, <1>2, <1>12, <2>1 DEF Crash, CountInv
<1>13. ~Garble /\ \A n \in Counts : ~Scale(n)
  BY DEF Garble, Scale, Spoils
<1> QED BY <1>5, <1>6, <1>7, <1>8, <1>9, <1>10, <1>11, <1>12, <1>13
        DEF Environment

\* So from the first state on every copy shows the count, or it is spoilt.
Counted == spoilt \/ CountInv

LEMMA CountSteps ==
  /\ Init => Counted
  /\ TypeInv /\ Counted /\ [Next]_vars => Counted'
  /\ Counted => Recoverable
<1>1. Init => Counted
  <2>1. NewTarget \in Keeping
    BY SleepOrderAssumption
       DEF NewTarget, Keeping, RecoverableAs, Target, Saved
  <2>2. <<NewTarget>> \in Versions(Keeping)
    <3>1. /\ <<NewTarget>> \in Seq(Keeping) /\ Len(<<NewTarget>>) = 1
          /\ 1 \in 1..(MaxLag + 1)
      BY <2>1, SleepOrderAssumption
    <3> QED BY <3>1 DEF Versions
  <2> QED BY <2>2
          DEF Init, Counted, CountInv, KeepsCopy, Holding, Finalizing, Idle
<1>2. TypeInv /\ Counted /\ [Next]_vars => Counted'
  <2>1. ASSUME CountInv, UNCHANGED vars PROVE CountInv'
    BY <2>1 DEF vars, CountInv
  <2> QED BY <2>1, SpoiltStays, ControllerKeeps, EnvironmentKeeps
          DEF Next, Counted
<1>3. Counted => Recoverable
  <2>1. ASSUME CountInv PROVE Stored(target) \in Keeping
    BY <2>1, VersionsSeen DEF CountInv
  <2> QED BY <2>1 DEF Counted, Recoverable, Keeping
<1> QED BY <1>1, <1>2, <1>3

LEMMA CountKept == Spec => []Counted
BY CountSteps, TypesHold, PTL DEF Spec

(***************************************************************************)
(* With any number of orders, any lag of the caches, any retries, updates  *)
(* lost to conflicts, status written by others, failed calls, crashes, and *)
(* the workload deleted and created again, the count of the manifest is    *)
(* the replicas of the workload or its annotation, until somebody else     *)
(* scales it or edits the annotation, or restoreReplicas answers 0.        *)
(***************************************************************************)
THEOREM CountNeverLost == Spec => []Recoverable
BY CountSteps, CountKept, PTL

-----------------------------------------------------------------------------
(* What the status reports.                                                *)

Reporting == {v \in Order : v.original \in {None, Desired}}

Reports(wk) ==
  /\ wk.count \in {None, 0, Desired}
  /\ wk.pc \in {"restorePut", "rewrite"} => wk.copy.replicas = Desired
  /\ wk.pc \in {"status", "statusPut"}
       => wk.verdict = "Error TargetNotFound" \/ wk.count # 0

StatusInv == order \in [Orders -> Versions(Reporting)] /\ Reports(worker)

LEMMA OnwardReports ==
  ASSUME NEW wk \in Worker, Reports(wk), NEW err
  PROVE  Reports(Idle) /\ Reports(Proceed(wk)) /\ Reports(Fail(wk, err))
<1>1. Reports(Idle)
  BY DEF Reports, Idle
<1>2. Reports(Proceed(wk))
  BY <1>1 DEF Reports, Proceed, Worker
<1>3. CASE wk.path = "finalizer" /\ err = "Conflict" /\ wk.tries < MaxTries
  BY <1>1, <1>2, <1>3 DEF Reports, Fail, Worker
<1>4. CASE ~(wk.path = "finalizer" /\ err = "Conflict" /\ wk.tries < MaxTries)
  BY <1>1, <1>2, <1>4 DEF Fail
<1> QED BY <1>1, <1>2, <1>3, <1>4

\* An update of the order that leaves its status alone.
LEMMA PutOrderReports ==
  ASSUME TypeInv, StatusInv, worker.order \in Orders, NEW b \in BOOLEAN,
         NEW onOK, NEW onNotFound, Reports(onOK), Reports(onNotFound),
         PutOrder([Stored(order[worker.order]) EXCEPT !.fin = b],
                  onOK, onNotFound)
  PROVE  StatusInv'
<1> DEFINE w == Stored(order[worker.order])
           u == [w EXCEPT !.fin = b]
<1>1. w \in Reporting
  BY VersionsSeen DEF StatusInv
<1>2. u \in Reporting
  BY <1>1 DEF Reporting, Order
<1>3. Settle(u) \in Reporting
  BY <1>2 DEF Settle, GoneOrder, Reporting, Order
<1> HIDE DEF u
<1>4. order' \in [Orders -> Versions(Reporting)]
  BY <1>3, PublishVersions DEF PutOrder, StatusInv, u
<1>5. Reports(worker')
  BY OnwardReports DEF PutOrder, Answer, StatusInv, TypeInv, TypeOK
<1> QED BY <1>4, <1>5 DEF StatusInv

LEMMA PutTargetReports ==
  ASSUME TypeInv, StatusInv, NEW c, NEW onOK, NEW onNotFound,
         Reports(onOK), Reports(onNotFound), PutTarget(c, onOK, onNotFound)
  PROVE  StatusInv'
<1>1. Reports(worker')
  BY OnwardReports DEF PutTarget, Answer, StatusInv, TypeInv, TypeOK
<1> QED BY <1>1 DEF PutTarget, StatusInv

LEMMA ControllerReports ==
  ASSUME TypeInv, CountInv, StatusInv, Controller, ~spoilt'
  PROVE  StatusInv'
<1> USE DEF At, Goto
<1>1. /\ worker \in Worker /\ Reports(worker) /\ KeepsCopy(worker)
      /\ worker.pc # "idle" => worker.order \in Orders
      /\ worker.pc \in {"snapPut", "zero"} => worker.copy.saved \in Nat
  BY DEF TypeInv, Sound, CountInv, StatusInv
<1>2. Cached(target) \in Keeping
  BY VersionsSeen DEF CountInv
<1>3. Cached(target).exists
      => /\ Cached(target).replicas \in {0, Desired}
         /\ Cached(target).saved \in {None, Desired}
  BY <1>2 DEF Keeping, RecoverableAs
<1>4. /\ Reports(Idle) /\ Reports(Proceed(worker))
      /\ \A err : Reports(Fail(worker, err))
  BY <1>1, OnwardReports
<1>5. ASSUME ReadOnly, Reports(worker') PROVE StatusInv'
  BY <1>5 DEF ReadOnly, StatusInv
<1>6. \A step \in Steps \ {"restorePut", "rewrite", "status", "statusPut"} :
        Reports([worker EXCEPT !.pc = step])
  BY <1>1 DEF Reports, Worker
<1>7. ASSUME NEW o \in Orders, Reconcile(o) PROVE StatusInv'
  BY <1>5, <1>7 DEF Reconcile, Reports, Idle
<1>8. CASE GetTargetObject
  <2>1. Reports(worker')
    BY <1>1, <1>3, <1>4, <1>8 DEF GetTargetObject, Reports, Worker
  <2> QED BY <1>5, <1>8, <2>1 DEF GetTargetObject
<1>9. CASE RemoveFinalizerTargetMissing
  <2>1. Reports([worker EXCEPT !.pc = "status",
                               !.verdict = "Error TargetNotFound"])
    BY <1>1 DEF Reports, Worker
  <2> QED BY <1>1, <1>4, <1>9, <2>1, PutOrderReports
          DEF RemoveFinalizerTargetMissing
<1>10. CASE HandleFinalizer
  <2> DEFINE wk == [worker EXCEPT !.ofresh = Synced(order[worker.order])]
  <2>1. wk \in Worker /\ Reports(wk)
    BY <1>1, <1>10 DEF HandleFinalizer, Reports, Worker, Synced
  <2>2. \A step \in {"addFin", "restoreGet", "dropFin"} :
          Reports([wk EXCEPT !.pc = step])
    BY <2>1 DEF Reports, Worker
  <2>3. Reports(worker')
    BY <1>4, <1>10, <2>1, <2>2, OnwardReports DEF HandleFinalizer, Needs
  <2> QED BY <1>5, <1>10, <2>3 DEF HandleFinalizer
<1>11. CASE AddFinalizer
  BY <1>1, <1>4, <1>11, PutOrderReports DEF AddFinalizer
<1>12. CASE DropFinalizer
  BY <1>1, <1>4, <1>12, PutOrderReports DEF DropFinalizer
<1>13. CASE RestoreGet
  <2> DEFINE seen == Cached(target)
             wk == [worker EXCEPT !.copy = CopyOf(seen),
                                  !.tfresh = Synced(target)]
  <2> ~AnswersZero(seen)
    BY <1>13 DEF RestoreGet, Spoils
  <2>1. CASE ~seen.exists
    BY <1>4, <1>13, <2>1 DEF RestoreGet, StatusInv
  <2>2. CASE seen.exists /\ seen.saved = None
    <3>1. wk \in Worker /\ Reports(wk)
      <4>1. CopyOf(seen) \in [replicas : Nat, saved : Saved]
        BY <1>2 DEF CopyOf, Keeping, Target
      <4> QED BY <1>1, <1>13, <4>1 DEF RestoreGet, Reports, Worker, Synced
    <3>2. Reports(Fail(wk, "Error"))
      BY <3>1, OnwardReports
    <3> QED BY <1>13, <2>2, <3>2, SleepOrderAssumption DEF RestoreGet, StatusInv
  <2>3. CASE seen.exists /\ seen.saved = Desired
    <3>1. Reports([wk EXCEPT !.pc = "restorePut",
                     !.copy = [replicas |-> Desired, saved |-> None]])
      BY <1>1 DEF Reports, Worker
    <3> QED BY <1>13, <2>3, <3>1, SleepOrderAssumption DEF RestoreGet, StatusInv
  <2> QED BY <1>3, <2>1, <2>2, <2>3
<1>14. CASE RestorePut
  <2>1. Reports([worker EXCEPT !.pc = "rewrite"])
    BY <1>1, <1>14 DEF RestorePut, Reports, Worker
  <2> QED BY <1>4, <1>14, <2>1, PutTargetReports DEF RestorePut
<1>15. CASE Rewrite
  <2>1. Reports([worker EXCEPT !.pc = "status",
                               !.count = worker.copy.replicas])
    BY <1>1, <1>15, SleepOrderAssumption DEF Rewrite, Reports, Worker
  <2>2. Reports([worker EXCEPT !.pc = "dropFin"])
    BY <1>6 DEF Steps
  <2> QED BY <1>4, <1>15, <2>1, <2>2, PutTargetReports DEF Rewrite
<1>16. CASE SnapshotGet
  <2>1. Reports(worker')
    BY <1>1, <1>4, <1>16 DEF SnapshotGet, Reports, Worker
  <2> QED BY <1>5, <1>16, <2>1 DEF SnapshotGet
<1>17. CASE SnapshotPut
  <2>1. Reports([worker EXCEPT !.pc = "zero"])
    BY <1>6 DEF Steps
  <2> QED BY <1>4, <1>17, <2>1, PutTargetReports DEF SnapshotPut
<1>18. CASE ScaleToZero
  <2>1. worker.copy.saved = Desired
    BY <1>1, <1>18, SleepOrderAssumption
       DEF ScaleToZero, KeepsCopy, Holding, KeepingCopy
  <2>2. Reports([worker EXCEPT !.pc = "status", !.count = worker.copy.saved])
    BY <1>1, <2>1, SleepOrderAssumption DEF Reports, Worker
  <2> QED BY <1>4, <1>18, <2>2, PutTargetReports DEF ScaleToZero
<1>19. CASE UpdateStatus
  <2>1. Reports([worker EXCEPT !.pc = "statusPut",
                   !.ofresh = Synced(order[worker.order])])
    BY <1>1, <1>19 DEF UpdateStatus, Reports, Worker
  <2> QED BY <1>4, <1>5, <1>19, <2>1 DEF UpdateStatus
<1>20. CASE StatusPut
  <2> DEFINE w == Stored(order[worker.order])
             u == [w EXCEPT !.state = worker.verdict, !.original = Original]
  <2>1. worker.order \in Orders /\ Original \in {None, Desired}
    BY <1>1, <1>20 DEF StatusPut, Reports, Original
  <2>2. w \in Reporting
    BY <2>1, VersionsSeen DEF StatusInv
  <2>3. u \in Reporting
    BY <1>1, <2>1, <2>2, SleepOrderAssumption DEF Reporting, Order, Worker
  <2> HIDE DEF u
  <2>4. order' \in [Orders -> Versions(Reporting)]
    BY <1>20, <2>3, PublishVersions DEF StatusPut, StatusInv, u
  <2> QED BY <1>4, <1>20, <2>4 DEF StatusPut, StatusInv
<1> QED BY <1>7, <1>8, <1>9, <1>10, <1>11, <1>12, <1>13, <1>14, <1>15, <1>16,
           <1>17, <1>18, <1>19, <1>20 DEF Controller, WorkerStep

LEMMA EnvironmentReports ==
  ASSUME TypeInv, StatusInv, Environment
  PROVE  StatusInv'
<1>1. /\ worker \in Worker /\ Reports(worker)
      /\ order \in [Orders -> Versions(Reporting)]
      /\ \A o \in Orders : Stored(order[o]) \in Reporting
  BY VersionsSeen DEF TypeInv, Sound, StatusInv
<1>2. ASSUME NEW v, WriteTarget(v) PROVE StatusInv'
  BY <1>1, <1>2 DEF WriteTarget, StatusInv, Reports, Worker
<1>3. ASSUME NEW o \in Orders, NEW v \in Reporting, WriteOrder(o, v)
      PROVE  StatusInv'
  <2>1. order' \in [Orders -> Versions(Reporting)]
    BY <1>1, <1>3, PublishVersions DEF WriteOrder
  <2> QED BY <1>1, <1>3, <2>1 DEF WriteOrder, StatusInv, Reports, Worker
<1>4. ASSUME NEW v \in Reporting PROVE Settle(v) \in Reporting
  BY <1>4 DEF Settle, GoneOrder, Reporting, Order
<1>5. CASE Touch \/ DeleteTarget \/ CreateTarget \/ Garble
           \/ \E n \in Counts : Scale(n)
  BY <1>2, <1>5 DEF Touch, DeleteTarget, CreateTarget, Garble, Scale
<1>6. ASSUME NEW o \in Orders,
             CreateOrder(o) \/ DeleteOrder(o) \/ PolicyUpdate(o)
             \/ EditSchedule(o)
      PROVE  StatusInv'
  <2> DEFINE w == Stored(order[o])
  <2>1. /\ w \in Reporting /\ NewOrder \in Reporting
        /\ [w EXCEPT !.deleting = TRUE] \in Reporting
        /\ [w EXCEPT !.fin = FALSE] \in Reporting
    BY <1>1 DEF Reporting, Order, NewOrder, GoneOrder
  <2> QED BY <1>3, <1>4, <1>6, <2>1
          DEF CreateOrder, DeleteOrder, PolicyUpdate, EditSchedule
<1>7. ASSUME NEW o \in Orders, Tick(o) PROVE StatusInv'
  BY <1>7 DEF Tick, StatusInv
<1>8. ASSUME NEW o \in Orders, DeliverOrder(o) PROVE StatusInv'
  <2>1. Tail(order[o]) \in Versions(Reporting)
    BY <1>1, <1>8, VersionsSeen DEF DeliverOrder
  <2> QED BY <1>1, <1>8, <2>1 DEF DeliverOrder, StatusInv
<1>9. CASE DeliverTarget
  BY <1>9 DEF DeliverTarget, StatusInv
<1>10. CASE ApiError
  BY <1>1, <1>10, OnwardReports DEF ApiError, ReadOnly, StatusInv
<1>11. CASE Crash
  <2>1. \A o \in Orders : <<Stored(order[o])>> \in Versions(Reporting)
    BY <1>1, VersionsSeen
  <2> QED BY <1>1, <1>11, <2>1, OnwardReports DEF Crash, StatusInv
<1> QED BY <1>5, <1>6, <1>7, <1>8, <1>9, <1>10, <1>11 DEF Environment

\* What the statuses report, and the worker is about to, is the count.
Reported == spoilt \/ StatusInv

LEMMA StatusSteps ==
  /\ Init => Reported
  /\ TypeInv /\ Counted /\ Reported /\ [Next]_vars => Reported'
  /\ Reported => StatusOriginal
<1>1. Init => Reported
  <2>1. GoneOrder \in Reporting
    BY DEF GoneOrder, Reporting, Order
  <2>2. <<GoneOrder>> \in Versions(Reporting)
    <3>1. /\ <<GoneOrder>> \in Seq(Reporting) /\ Len(<<GoneOrder>>) = 1
          /\ 1 \in 1..(MaxLag + 1)
      BY <2>1, SleepOrderAssumption
    <3> QED BY <3>1 DEF Versions
  <2> QED BY <2>2 DEF Init, Reported, StatusInv, Reports, Idle
<1>2. TypeInv /\ Counted /\ Reported /\ [Next]_vars => Reported'
  <2>1. ASSUME StatusInv, UNCHANGED vars PROVE StatusInv'
    BY <2>1 DEF vars, StatusInv
  <2> QED BY <2>1, SpoiltStays, ControllerReports, EnvironmentReports
          DEF Next, Counted, Reported
<1>3. Reported => StatusOriginal
  <2>1. ASSUME StatusInv, NEW o \in Orders
        PROVE  Stored(order[o]) \in Reporting
    BY <2>1, VersionsSeen DEF StatusInv
  <2> QED BY <2>1 DEF Reported, StatusOriginal, Reporting
<1> QED BY <1>1, <1>2, <1>3

(***************************************************************************)
(* Under the conditions of CountNeverLost the count a status reports is    *)
(* that of the manifest, however old the copies it was taken from, and     *)
(* although the workload may be at zero by then.                           *)
(***************************************************************************)
THEOREM StatusReportsCount == Spec => []StatusOriginal
BY StatusSteps, CountKept, TypesHold, PTL DEF Spec
=============================================================================
