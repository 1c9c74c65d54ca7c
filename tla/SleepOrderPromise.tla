-------------------------- MODULE SleepOrderPromise --------------------------
(***************************************************************************)
(* What the SleepOrder controller does to a workload it sees as it is: it  *)
(* keeps the promise of Workload, and lets none of its orders go of a      *)
(* workload that sleeps, for every set of orders and any number of         *)
(* retries, whoever else writes the workload, until its count is spoilt.   *)
(* That the controller itself spoils it only on a retry ends the module.   *)
(***************************************************************************)
EXTENDS SleepOrderProofs

\* What a workload whose count is not spoilt can look like.
Remembered == [exists |-> TRUE, replicas |-> Desired, saved |-> Desired]
Down == [exists |-> TRUE, replicas |-> 0, saved |-> Desired]
Shapes == {GoneTarget, NewTarget, Remembered, Down}
Untouched == {GoneTarget, NewTarget}

Acting == {"finalizer", "addFin", "restoreGet", "restorePut", "rewrite",
           "dropFin", "snapGet", "snapPut", "zero"}

\* A worker has read one of these; nobody has written the workload since if
\* its copy is fresh.
Current(wk, v) ==
  /\ wk.copy \in {CopyOf(NewTarget), CopyOf(Remembered), CopyOf(Down)}
  /\ wk.tfresh => v.exists

\* The count getReplicas returned still tells whether the workload sleeps,
\* or the controller woke it since.
Bound(wk, v) ==
  /\ wk.count = 0 => v # Remembered
  /\ wk.count # 0 => v # Down

\* What a worker may think of the stored workload v, step by step.
Knows(wk, v) ==
  /\ wk.pc \in {"finalizer", "addFin", "dropFin"} => wk.path = "finalizer"
  /\ wk.pc \in {"target", "missing", "snapGet", "snapPut", "zero", "status",
               "statusPut"} => wk.path = "act"
  /\ wk.pc = "missing" => v \in Untouched
  /\ wk.pc \in Acting => Current(wk, v)
  /\ wk.pc \in Acting /\ wk.path = "finalizer" => Bound(wk, v)
  /\ wk.pc \in {"finalizer", "addFin", "dropFin"} /\ wk.tfresh
       => wk.copy = CopyOf(v)
  /\ wk.pc = "restoreGet" => v # Remembered
  /\ wk.pc \in {"restorePut", "rewrite", "snapGet"}
       => wk.copy = CopyOf(NewTarget)
  /\ wk.pc = "restorePut" /\ wk.tfresh => v = Down
  /\ wk.pc = "rewrite" => v \in Untouched
  /\ wk.pc = "dropFin" => v # Down
  /\ wk.pc \in {"snapPut", "zero"} => wk.copy.saved = Desired
  /\ wk.pc \in {"snapPut", "zero"} /\ wk.tfresh
       => wk.copy.replicas = v.replicas
  /\ wk.pc = "zero" /\ wk.tfresh => v.saved = Desired

TargetInv == Stored(target) \in Shapes /\ Knows(worker, Stored(target))

TargetKnown == spoilt \/ TargetInv

\* The worker looks at the workload, through a cache of it.
Looks == GetTargetObject \/ RestoreGet \/ SnapshotGet

\* What a step may do to a workload, and who takes its two steps to sleep.
Moves ==
  LET v == Stored(target)
      u == Stored(target')
  IN \/ u = v
     \/ worker.pc = "snapPut" /\ v = NewTarget /\ u = Remembered
     \/ worker.pc = "zero" /\ v = Remembered /\ u = Down
     \/ v = Down /\ u = NewTarget
     \/ v.exists /\ u = GoneTarget
     \/ v = GoneTarget /\ u = NewTarget

\* The orders that go, or lose their finalizer, leave a workload that runs.
LetsGoAwake ==
  \A o \in Orders :
    /\ \/ Stored(order[o]).exists /\ ~Stored(order'[o]).exists
       \/ Stored(order[o]).fin /\ ~Stored(order'[o]).fin
    /\ Stored(target').exists
    => Stored(target').replicas = Desired

-----------------------------------------------------------------------------
(* What is known of the workload.                                          *)

\* The shapes are told apart by their fields.
LEMMA ShapesDiffer ==
  /\ GoneTarget = [exists |-> FALSE, replicas |-> 0, saved |-> None]
  /\ NewTarget = [exists |-> TRUE, replicas |-> Desired, saved |-> None]
  /\ Remembered = [exists |-> TRUE, replicas |-> Desired, saved |-> Desired]
  /\ Down = [exists |-> TRUE, replicas |-> 0, saved |-> Desired]
  /\ Desired \in Nat /\ Desired # 0 /\ Desired # None /\ None \notin Nat
  /\ Garbled # Desired /\ Garbled # None /\ Empty # Desired /\ Empty # None
<1>1. NewTarget = [exists |-> TRUE, replicas |-> Desired, saved |-> None]
  BY DEF NewTarget
<1>2. Remembered = [exists |-> TRUE, replicas |-> Desired, saved |-> Desired]
  BY DEF Remembered
<1>3. Down = [exists |-> TRUE, replicas |-> 0, saved |-> Desired]
  BY DEF Down
<1>4. GoneTarget = [exists |-> FALSE, replicas |-> 0, saved |-> None]
  BY DEF GoneTarget
<1>5. /\ Desired \in Nat /\ Desired # 0 /\ Desired # None /\ None \notin Nat
      /\ Garbled # Desired /\ Garbled # None
      /\ Empty # Desired /\ Empty # None
  BY SleepOrderAssumption
<1> QED BY <1>1, <1>2, <1>3, <1>4, <1>5

\* With no lag the cache returns what is stored.
LEMMA NoLag ==
  ASSUME MaxLag = 0, TypeInv
  PROVE  /\ Cached(target) = Stored(target) /\ Synced(target)
         /\ \A o \in Orders : /\ Cached(order[o]) = Stored(order[o])
                              /\ Synced(order[o])
                              /\ Stored(order[o]) \in Order
<1>1. ASSUME NEW S, NEW vs \in Versions(S) PROVE Synced(vs)
  <2>1. Len(vs) \in 1..1
    BY DEF Versions
  <2> QED BY <2>1 DEF Synced
<1> QED BY <1>1, VersionsSeen DEF TypeInv, TypeOK

LEMMA IdleKnows == ASSUME NEW v PROVE Knows(Idle, v)
BY DEF Knows, Idle, Acting

\* A worker that knows what is so may act on its verdict.
LEMMA ProceedKnows ==
  ASSUME NEW wk \in Worker, NEW v \in Shapes, Current(wk, v),
         wk.tfresh => wk.copy = CopyOf(v) \/ wk.copy.saved = None,
         wk.count = 0 => v # Remembered
  PROVE  Knows(Proceed(wk), v)
<1>1. /\ wk.copy.saved \in {None, Desired}
      /\ wk.copy.saved = None => wk.copy = CopyOf(NewTarget)
      /\ wk.tfresh => v.exists
  BY ShapesDiffer DEF Current, CopyOf
<1>2. wk.tfresh /\ wk.copy.saved = Desired
      => wk.copy.replicas = v.replicas /\ v.saved = Desired
  BY <1>1, ShapesDiffer DEF CopyOf
<1>3. CASE wk.verdict = "Sleeping" /\ wk.copy.saved \in {Garbled, Empty}
  BY <1>3, IdleKnows DEF Proceed
<1> DEFINE Goes(step) == Proceed(wk) = [wk EXCEPT !.path = "act", !.pc = step]
<1>4. ASSUME wk.verdict = "Sleeping", wk.copy.saved = None
      PROVE  Knows(Proceed(wk), v)
  <2>1. Goes("snapGet")
    BY <1>4, ShapesDiffer DEF Proceed
  <2> QED BY <1>1, <1>4, <2>1 DEF Knows, Acting, Current, Worker
<1>5. ASSUME wk.verdict = "Sleeping", wk.copy.saved = Desired
      PROVE  Knows(Proceed(wk), v)
  <2>1. Goes("zero")
    BY <1>5, ShapesDiffer DEF Proceed
  <2> QED BY <1>1, <1>2, <1>5, <2>1 DEF Knows, Acting, Current, Worker
<1>6. ASSUME wk.verdict # "Sleeping", wk.count = 0
      PROVE  Knows(Proceed(wk), v)
  <2>1. Goes("restoreGet")
    BY <1>6 DEF Proceed
  <2> QED BY <1>1, <1>6, <2>1 DEF Knows, Acting, Current, Worker
<1>7. ASSUME wk.verdict # "Sleeping", wk.count # 0
      PROVE  Knows(Proceed(wk), v)
  <2>1. Goes("status")
    BY <1>7 DEF Proceed
  <2> QED BY <2>1 DEF Knows, Acting, Worker
<1> QED BY <1>1, <1>3, <1>4, <1>5, <1>6, <1>7

\* So may one whose call has failed, of whichever object the conflict was,
LEMMA FailKnows ==
  ASSUME NEW wk \in Worker, NEW v \in Shapes, NEW err,
         wk.path = "finalizer"
         => /\ Current(wk, v) /\ Bound(wk, v)
            /\ wk.tfresh => \/ wk.copy = CopyOf(v)
                            \/ wk.copy.saved = None /\ err # "Conflict"
  PROVE  Knows(Fail(wk, err), v)
<1>1. CASE wk.path # "finalizer"
  BY <1>1, IdleKnows DEF Fail
<1>2. CASE wk.path = "finalizer" /\ err = "Conflict" /\ wk.tries < MaxTries
  <2>1. Fail(wk, err) = [wk EXCEPT !.pc = "finalizer", !.tries = wk.tries + 1]
    BY <1>2 DEF Fail
  <2> QED BY <1>2, <2>1 DEF Knows, Acting, Current, Bound, Worker
<1>3. CASE wk.path = "finalizer" /\ ~(err = "Conflict" /\ wk.tries < MaxTries)
  <2>1. Fail(wk, err) = Proceed(wk)
    BY <1>3 DEF Fail
  <2> QED BY <1>3, <2>1, ProceedKnows DEF Bound
<1> QED BY <1>1, <1>2, <1>3

\* or whose write failed and was not made.
LEMMA ErrorKnows ==
  ASSUME NEW wk \in Worker, NEW v \in Shapes, Knows(wk, v),
         wk.pc \in {"missing", "addFin", "restorePut", "rewrite", "dropFin",
                    "snapPut", "zero", "statusPut"}
  PROVE  Knows(Fail(wk, "Error"), v)
<1>1. CASE wk.path # "finalizer"
  BY <1>1, IdleKnows DEF Fail
<1>2. CASE wk.path = "finalizer"
  <2>1. wk.pc \in {"addFin", "dropFin", "restorePut", "rewrite"}
    BY <1>2 DEF Knows
  <2>2. Current(wk, v) /\ Bound(wk, v)
    BY <1>2, <2>1 DEF Knows, Acting
  <2>3. wk.tfresh => wk.copy = CopyOf(v) \/ wk.copy.saved = None
    BY <2>1, ShapesDiffer DEF Knows, CopyOf
  <2> QED BY <2>2, <2>3, FailKnows
<1> QED BY <1>1, <1>2

LEMMA TargetReads ==
  ASSUME TypeInv, TargetInv
  PROVE  LET v == Stored(target)
             w == Stored(order[worker.order])
         IN /\ worker \in Worker /\ v \in Shapes /\ v \in Target
            /\ Synced(target) => Cached(target) = v
            /\ v \in {GoneTarget, NewTarget, Remembered, Down}
            /\ Knows(worker, v)
            /\ worker.pc # "idle" => worker.order \in Orders /\ w \in Order
<1>1. worker \in Worker
  BY DEF TypeInv, TypeOK
<1>2. /\ Stored(target) \in Target
      /\ Synced(target) => Cached(target) = Stored(target)
  BY VersionsSeen DEF TypeInv, TypeOK
<1>3. worker.pc # "idle"
      => /\ worker.order \in Orders
         /\ Stored(order[worker.order]) \in Order
  BY VersionsSeen DEF TypeInv, TypeOK, Sound
<1> QED BY <1>1, <1>2, <1>3 DEF TargetInv, Shapes

\* A write of the workload, by the worker.
LEMMA PutTargetKnown ==
  ASSUME TypeInv, TargetInv,
         NEW c \in [replicas : Nat, saved : Saved], NEW onOK, NEW onNotFound,
         PutTarget(c, onOK, onNotFound),
         NEW v, v = Stored(target),
         NEW n, n = [exists |-> TRUE, replicas |-> c.replicas,
                     saved |-> c.saved],
         worker.tfresh /\ v.exists
         => /\ n \in Shapes /\ Knows(onOK, n)
            /\ \/ n = v
               \/ worker.pc = "snapPut" /\ v = NewTarget /\ n = Remembered
               \/ worker.pc = "zero" /\ v = Remembered /\ n = Down
               \/ v = Down /\ n = NewTarget,
         ~v.exists => Knows(onNotFound, v),
         v.exists /\ ~worker.tfresh => Knows(Fail(worker, "Conflict"), v)
  PROVE  TargetInv' /\ Moves /\ LetsGoAwake
<1>1. order' = order
  BY DEF PutTarget
<1>2. n \in Target /\ target \in Versions(Target)
  BY DEF Target, TypeInv, TypeOK
<1>3. LetsGoAwake
  BY <1>1 DEF LetsGoAwake
<1>4. CASE worker.tfresh /\ v.exists
  <2>1. target' = Save(target, n) /\ worker' = onOK
    BY <1>4 DEF PutTarget, Answer
  <2>2. Stored(target') = n
    BY <1>2, <2>1, PublishVersions
  <2> QED BY <1>3, <1>4, <2>1, <2>2 DEF TargetInv, Moves
<1>5. CASE ~(worker.tfresh /\ v.exists)
  <2>1. target' = target /\ Knows(worker', v)
    BY <1>5 DEF PutTarget, Answer
  <2> QED BY <1>3, <2>1 DEF TargetInv, Moves
<1> QED BY <1>4, <1>5

\* A write of the worker's order: one that may let it go is of a workload
\* that runs.
LEMMA PutOrderKnown ==
  ASSUME TypeInv, TargetInv, worker.order \in Orders, NEW u \in Order,
         NEW onOK, NEW onNotFound, PutOrder(u, onOK, onNotFound),
         NEW v, v = Stored(target),
         NEW w, w = Stored(order[worker.order]),
         \/ /\ w.exists => Settle(u).exists
            /\ w.fin => Settle(u).fin
         \/ v.exists => v.replicas = Desired,
         Knows(onOK, v), Knows(onNotFound, v),
         Knows(Fail(worker, "Conflict"), v)
  PROVE  TargetInv' /\ Moves /\ LetsGoAwake
<1>1. target' = target
  BY DEF PutOrder
<1>2. worker' \in {onOK, onNotFound, Fail(worker, "Conflict")}
  BY DEF PutOrder, Answer
<1>3. TargetInv' /\ Moves
  BY <1>1, <1>2 DEF TargetInv, Moves
<1>4. CASE v.exists => v.replicas = Desired
  BY <1>1, <1>3, <1>4 DEF LetsGoAwake
<1>5. CASE (w.exists => Settle(u).exists) /\ (w.fin => Settle(u).fin)
  <2>1. /\ Settle(u) \in Order /\ order[worker.order] \in Versions(Order)
        /\ order \in [Orders -> Versions(Order)]
    BY DEF Settle, GoneOrder, Order, TypeInv, TypeOK
  <2>2. \/ order' = order
        \/ order' = [order EXCEPT ![worker.order] =
                       Save(order[worker.order], Settle(u))]
    BY DEF PutOrder, Answer
  <2>3. Stored(Save(order[worker.order], Settle(u))) = Settle(u)
    BY <2>1, PublishVersions
  <2>4. ASSUME NEW o \in Orders
        PROVE  /\ Stored(order[o]).exists => Stored(order'[o]).exists
               /\ Stored(order[o]).fin => Stored(order'[o]).fin
    <3>1. CASE order' = order
      BY <3>1
    <3>2. CASE order' # order /\ o = worker.order
      BY <1>5, <2>1, <2>2, <2>3, <3>2
    <3>3. CASE order' # order /\ o # worker.order
      BY <2>1, <2>2, <3>3
    <3> QED BY <3>1, <3>2, <3>3
  <2> QED BY <1>3, <2>4 DEF LetsGoAwake
<1> QED BY <1>4, <1>5

\* The steps that only read; restoreReplicas may spoil the count besides.
LEMMA KnownReading ==
  ASSUME TypeInv, TargetInv, ~spoilt',
         \/ \E o \in Orders : Reconcile(o)
         \/ GetTargetObject \/ HandleFinalizer \/ RestoreGet \/ SnapshotGet
         \/ UpdateStatus,
         Looks => Synced(target)
  PROVE  TargetInv' /\ Moves /\ LetsGoAwake
<1> USE DEF At, Goto
<1> DEFINE v == Stored(target)
<1>1. /\ worker \in Worker /\ v \in Shapes /\ v \in Target
      /\ Looks => Cached(target) = v /\ Synced(target)
      /\ v \in {GoneTarget, NewTarget, Remembered, Down}
      /\ Knows(worker, v)
  BY TargetReads
<1>2. UNCHANGED <<target, order>>
  BY DEF Reconcile, GetTargetObject, HandleFinalizer, RestoreGet, SnapshotGet,
         UpdateStatus, ReadOnly
<1>3. SUFFICES Knows(worker', v)
  BY <1>2 DEF TargetInv, Moves, LetsGoAwake
<1> HIDE DEF v
<1>4. ASSUME NEW o \in Orders, Reconcile(o) PROVE Knows(worker', v)
  BY <1>4 DEF Reconcile, Knows, Acting, Idle
<1>5. CASE GetTargetObject
  <2>1. worker.path = "act"
    BY <1>1, <1>5 DEF GetTargetObject, Knows
  <2>2. CASE ~v.exists
    <3>1. worker' = [worker EXCEPT !.pc = "missing"]
      BY <1>1, <1>5, <2>2 DEF GetTargetObject, Looks
    <3>2. v \in Untouched
      BY <1>1, <2>2, ShapesDiffer DEF Untouched
    <3> QED BY <1>1, <2>1, <3>1, <3>2 DEF Knows, Acting, Worker
  <2>3. CASE v.exists /\ phase[worker.order] = "invalid"
    BY <1>1, <1>5, <2>3, IdleKnows DEF GetTargetObject, Looks
  <2>4. CASE v.exists /\ phase[worker.order] # "invalid"
    <3>1. worker' = [worker EXCEPT !.pc = "finalizer", !.path = "finalizer",
                       !.verdict = phase[worker.order],
                       !.count = v.replicas, !.copy = CopyOf(v),
                       !.tfresh = TRUE]
      BY <1>1, <1>5, <2>4 DEF GetTargetObject, Looks
    <3>2. v \in {NewTarget, Remembered, Down}
      BY <1>1, <2>4, ShapesDiffer
    <3>3. (v.replicas = 0 => v # Remembered) /\ (v.replicas # 0 => v # Down)
      BY ShapesDiffer
    <3> QED BY <1>1, <2>4, <3>1, <3>2, <3>3
            DEF Knows, Acting, Current, Bound, Worker
  <2> QED BY <2>2, <2>3, <2>4
<1>6. CASE HandleFinalizer
  <2> DEFINE fresh == Synced(order[worker.order])
             wk == [worker EXCEPT !.ofresh = fresh]
             needs == Needs(Cached(order[worker.order]), worker.count)
  <2>1. worker.pc = "finalizer"
    BY <1>6 DEF HandleFinalizer
  <2>2. fresh \in BOOLEAN
    BY DEF Synced
  <2>3. worker' = CASE needs = "stop" -> Idle
                    [] needs = "act" -> Proceed(wk)
                    [] OTHER -> [wk EXCEPT !.pc = needs]
    BY <1>6 DEF HandleFinalizer
  <2> HIDE DEF fresh
  <2>4. /\ worker.path = "finalizer"
        /\ Current(worker, v) /\ Bound(worker, v)
        /\ worker.tfresh => worker.copy = CopyOf(v)
    BY <1>1, <2>1 DEF Knows, Acting
  <2>5. /\ wk \in Worker /\ wk.tfresh = worker.tfresh
        /\ wk.copy = worker.copy /\ wk.count = worker.count
        /\ wk.path = "finalizer"
    BY <1>1, <2>2, <2>4 DEF Worker
  <2>6. CASE needs = "stop"
    BY <2>3, <2>6, IdleKnows
  <2>7. CASE needs = "act"
    <3>1. worker' = Proceed(wk)
      BY <2>3, <2>7
    <3>2. Current(wk, v) /\ (wk.count = 0 => v # Remembered)
      BY <2>4, <2>5 DEF Current, Bound
    <3> HIDE DEF wk
    <3> QED BY <1>1, <2>4, <2>5, <3>1, <3>2, ProceedKnows
  <2>8. CASE needs \in {"restoreGet", "dropFin", "addFin"}
    <3>1. worker' = [wk EXCEPT !.pc = needs]
      BY <2>3, <2>8
    <3>2. /\ worker'.pc = needs /\ worker'.path = "finalizer"
          /\ worker'.copy = worker.copy /\ worker'.count = worker.count
          /\ worker'.tfresh = worker.tfresh
      BY <1>1, <2>4, <2>5, <3>1 DEF Worker
    <3>3. Current(worker', v) /\ Bound(worker', v)
      BY <2>4, <3>2 DEF Current, Bound
    <3>4. /\ needs = "restoreGet" => v # Remembered
          /\ needs = "dropFin" => v # Down
      BY <2>4 DEF Needs, Bound
    <3> HIDE DEF needs
    <3> QED BY <2>4, <2>8, <3>2, <3>3, <3>4 DEF Knows, Acting
  <2> QED BY <2>6, <2>7, <2>8 DEF Needs
<1>7. CASE RestoreGet
  <2> DEFINE wk == [worker EXCEPT !.copy = CopyOf(v), !.tfresh = TRUE]
  <2> ~AnswersZero(v)
    BY <1>1, <1>7 DEF RestoreGet, Spoils, Looks
  <2>1. /\ worker.pc = "restoreGet"
        /\ worker' = IF ~v.exists THEN Fail(worker, "NotFound")
                     ELSE IF v.saved \notin Nat THEN Fail(wk, "Error")
                     ELSE [wk EXCEPT !.pc = "restorePut",
                             !.copy = [replicas |-> v.saved, saved |-> None]]
    BY <1>1, <1>7 DEF RestoreGet, Looks
  <2>2. /\ Current(worker, v) /\ v # Remembered
        /\ worker.path = "finalizer" => Bound(worker, v)
    BY <1>1, <2>1 DEF Knows, Acting
  <2>3. CASE ~v.exists
    <3>1. ~worker.tfresh
      BY <2>2, <2>3 DEF Current
    <3>2. Knows(Fail(worker, "NotFound"), v)
      BY <1>1, <2>2, <3>1, FailKnows
    <3> QED BY <2>1, <2>3, <3>2
  <2>4. CASE v = NewTarget
    <3>1. v.exists /\ v.saved \notin Nat
      BY <2>4, ShapesDiffer
    <3>2. /\ wk \in Worker /\ Current(wk, v) /\ wk.tfresh = TRUE
          /\ wk.copy = CopyOf(v) /\ wk.path = worker.path
          /\ wk.count = worker.count
      BY <1>1, <2>4, <3>1 DEF Worker, Current, CopyOf, Target
    <3>3. wk.path = "finalizer" => Bound(wk, v)
      BY <2>2, <3>2 DEF Bound
    <3> HIDE DEF wk
    <3>4. Knows(Fail(wk, "Error"), v)
      BY <1>1, <3>2, <3>3, FailKnows
    <3> QED BY <2>1, <3>1, <3>4
  <2>5. CASE v = Down
    <3>1. worker' = [wk EXCEPT !.pc = "restorePut",
                       !.copy = [replicas |-> Desired, saved |-> None]]
      BY <2>1, <2>5, ShapesDiffer
    <3>2. [replicas |-> Desired, saved |-> None] = CopyOf(NewTarget)
      BY ShapesDiffer DEF CopyOf
    <3>3. v.exists
      BY <2>5, ShapesDiffer
    <3> QED BY <1>1, <2>2, <2>5, <3>1, <3>2, <3>3
            DEF Knows, Acting, Current, Bound, Worker
  <2> QED BY <1>1, <2>2, <2>3, <2>4, <2>5, ShapesDiffer
<1>8. CASE SnapshotGet
  <2>1. /\ worker.pc = "snapGet"
        /\ worker' = IF ~v.exists THEN Idle
                     ELSE [worker EXCEPT !.pc = "snapPut",
                             !.copy = [replicas |-> v.replicas,
                                       saved |-> worker.copy.replicas],
                             !.tfresh = TRUE]
    BY <1>1, <1>8 DEF SnapshotGet, Looks
  <2>2. worker.path = "act" /\ worker.copy = CopyOf(NewTarget)
    BY <1>1, <2>1 DEF Knows
  <2>3. CASE ~v.exists
    BY <2>1, <2>3, IdleKnows
  <2>4. CASE v.exists
    <3>1. v \in {NewTarget, Remembered, Down}
      BY <1>1, <2>4, ShapesDiffer
    <3> DEFINE copy == [replicas |-> v.replicas,
                        saved |-> worker.copy.replicas]
    <3>2. /\ copy \in {CopyOf(Remembered), CopyOf(Down)}
          /\ copy.saved = Desired /\ copy.replicas = v.replicas
      BY <2>2, <3>1, ShapesDiffer DEF CopyOf
    <3>3. worker' = [worker EXCEPT !.pc = "snapPut", !.copy = copy,
                                   !.tfresh = TRUE]
      BY <2>1, <2>4
    <3> HIDE DEF copy
    <3> QED BY <1>1, <2>2, <2>4, <3>2, <3>3 DEF Knows, Acting, Current, Worker
  <2> QED BY <2>3, <2>4
<1>9. CASE UpdateStatus
  <2>1. CASE worker' = Idle
    BY <2>1, IdleKnows
  <2>2. CASE worker' # Idle
    <3>1. worker'.pc = "statusPut" /\ worker'.path = worker.path
      BY <1>1, <1>9, <2>2 DEF UpdateStatus, Worker
    <3>2. worker.path = "act"
      BY <1>1, <1>9 DEF UpdateStatus, Knows
    <3> QED BY <3>1, <3>2 DEF Knows, Acting
  <2> QED BY <2>1, <2>2
<1> QED BY <1>4, <1>5, <1>6, <1>7, <1>8, <1>9

\* The steps that write.
LEMMA KnownWriting ==
  ASSUME TypeInv, TargetInv,
         \/ RemoveFinalizerTargetMissing \/ AddFinalizer \/ DropFinalizer
         \/ RestorePut \/ Rewrite \/ SnapshotPut \/ ScaleToZero \/ StatusPut
  PROVE  TargetInv' /\ Moves /\ LetsGoAwake
<1> USE DEF At, Goto
<1> DEFINE v == Stored(target)
           w == Stored(order[worker.order])
<1>1. /\ worker \in Worker /\ v \in Shapes /\ v \in Target
      /\ Knows(worker, v)
      /\ v \in {GoneTarget, NewTarget, Remembered, Down}
      /\ worker.copy \in [replicas : Nat, saved : Saved]
  BY TargetReads DEF Worker
<1>2. worker.order \in Orders /\ w \in Order
  BY TargetReads
     DEF RemoveFinalizerTargetMissing, AddFinalizer, DropFinalizer,
         RestorePut, Rewrite, SnapshotPut, ScaleToZero, StatusPut
<1>3. v # Down => (v.exists => v.replicas = Desired)
  BY <1>1, ShapesDiffer
<1> HIDE DEF v, w
<1>4. \A b \in BOOLEAN : [w EXCEPT !.fin = b] \in Order
  BY <1>2 DEF Order
<1>5. CASE RemoveFinalizerTargetMissing
  <2> DEFINE u == [w EXCEPT !.fin = FALSE]
             onOK == [worker EXCEPT !.pc = "status",
                                    !.verdict = "Error TargetNotFound"]
  <2>1. worker.path = "act" /\ v \in Untouched
    BY <1>1, <1>5 DEF RemoveFinalizerTargetMissing, Knows
  <2>2. v # Down
    BY <2>1, ShapesDiffer DEF Untouched
  <2>3. Knows(onOK, v)
    BY <1>1, <2>1 DEF Knows, Acting, Worker
  <2>4. Knows(Idle, v) /\ Knows(Fail(worker, "Conflict"), v)
    BY <2>1, IdleKnows DEF Fail
  <2>5. PutOrder(u, onOK, Idle)
    BY <1>5 DEF RemoveFinalizerTargetMissing, w
  <2> HIDE DEF u, onOK
  <2>6. u \in Order
    BY <1>4 DEF u
  <2> QED BY <1>2, <1>3, <2>2, <2>3, <2>4, <2>5, <2>6, PutOrderKnown
          DEF v, w
<1>6. CASE AddFinalizer
  <2> DEFINE u == [w EXCEPT !.fin = TRUE]
  <2>1. /\ Current(worker, v) /\ Bound(worker, v)
        /\ worker.tfresh => worker.copy = CopyOf(v)
    BY <1>1, <1>6 DEF AddFinalizer, Knows, Acting
  <2>2. (w.exists => Settle(u).exists) /\ Settle(u).fin
    BY <1>2 DEF Settle, Order
  <2>3. /\ Knows(Proceed(worker), v)
        /\ Knows(Fail(worker, "Conflict"), v)
    BY <1>1, <2>1, ProceedKnows, FailKnows DEF Bound
  <2>4. PutOrder(u, Proceed(worker), Proceed(worker))
    BY <1>6 DEF AddFinalizer, w
  <2> HIDE DEF u
  <2>5. u \in Order
    BY <1>4 DEF u
  <2> QED BY <1>2, <2>2, <2>3, <2>4, <2>5, PutOrderKnown DEF v, w
<1>7. CASE DropFinalizer
  <2> DEFINE u == [w EXCEPT !.fin = FALSE]
  <2>1. /\ Current(worker, v) /\ Bound(worker, v) /\ v # Down
        /\ worker.tfresh => worker.copy = CopyOf(v)
    BY <1>1, <1>7 DEF DropFinalizer, Knows, Acting
  <2>2. /\ Knows(Idle, v) /\ Knows(Proceed(worker), v)
        /\ Knows(Fail(worker, "Conflict"), v)
    BY <1>1, <2>1, IdleKnows, ProceedKnows, FailKnows DEF Bound
  <2>3. PutOrder(u, Idle, Proceed(worker))
    BY <1>7 DEF DropFinalizer, w
  <2> HIDE DEF u
  <2>4. u \in Order
    BY <1>4 DEF u
  <2> QED BY <1>2, <1>3, <2>1, <2>2, <2>3, <2>4, PutOrderKnown DEF v, w
<1>8. CASE RestorePut
  <2> DEFINE onOK == [worker EXCEPT !.pc = "rewrite"]
             n == [exists |-> TRUE, replicas |-> worker.copy.replicas,
                   saved |-> worker.copy.saved]
  <2>1. /\ Current(worker, v) /\ worker.copy = CopyOf(NewTarget)
        /\ worker.tfresh => v = Down
        /\ worker.path = "finalizer" => Bound(worker, v)
    BY <1>1, <1>8 DEF RestorePut, Knows, Acting
  <2>2. n = NewTarget /\ n \in Shapes /\ n \in Untouched
    BY <2>1, ShapesDiffer DEF CopyOf, Untouched, Shapes
  <2>3. worker.tfresh => Knows(onOK, n)
    <3>1. n.exists /\ n # Remembered /\ n # Down
      BY <2>2, ShapesDiffer
    <3> HIDE DEF n
    <3> QED BY <1>1, <2>1, <2>2, <3>1
            DEF Knows, Acting, Current, Bound, Worker
  <2>4. ~v.exists => Knows(Fail(worker, "NotFound"), v)
    BY <1>1, <2>1, FailKnows DEF Current
  <2>5. ~worker.tfresh => Knows(Fail(worker, "Conflict"), v)
    BY <1>1, <2>1, FailKnows
  <2>6. PutTarget(worker.copy, onOK, Fail(worker, "NotFound"))
    BY <1>8 DEF RestorePut
  <2> HIDE DEF onOK, n
  <2> QED BY <1>1, <2>1, <2>2, <2>3, <2>4, <2>5, <2>6, PutTargetKnown
          DEF v, n
<1>9. CASE Rewrite
  <2> DEFINE n == [exists |-> TRUE, replicas |-> worker.copy.replicas,
                   saved |-> worker.copy.saved]
  <2>1. /\ Current(worker, v) /\ v \in Untouched
        /\ worker.copy = CopyOf(NewTarget)
        /\ worker.path = "finalizer" => Bound(worker, v)
    BY <1>1, <1>9 DEF Rewrite, Knows, Acting
  <2>2. n = NewTarget /\ n \in Shapes /\ n.exists /\ n # Down
        /\ n # Remembered
    BY <2>1, ShapesDiffer DEF CopyOf, Shapes
  <2>3. v.exists => n = v
    BY <2>1, <2>2, ShapesDiffer DEF Untouched
  <2>4. CASE worker.path = "finalizer"
    <3> DEFINE onOK == [worker EXCEPT !.pc = "dropFin"]
    <3>1. ASSUME worker.tfresh PROVE Knows(onOK, n)
      <4>1. worker.copy = CopyOf(n)
        BY <2>1, <2>2
      <4> HIDE DEF n
      <4> QED BY <1>1, <2>1, <2>2, <2>4, <3>1, <4>1
              DEF Knows, Acting, Current, Bound, Worker
    <3>2. ~v.exists => Knows(Proceed(worker), v)
      BY <1>1, <2>1, <2>4, ProceedKnows DEF Current, Bound
    <3>3. ~worker.tfresh => Knows(Fail(worker, "Conflict"), v)
      BY <1>1, <2>1, FailKnows
    <3>4. PutTarget(worker.copy, onOK, Proceed(worker))
      BY <1>9, <2>4 DEF Rewrite
    <3> HIDE DEF onOK, n
    <3> QED BY <1>1, <2>2, <2>3, <3>1, <3>2, <3>3, <3>4, PutTargetKnown
            DEF v, n
  <2>5. CASE worker.path # "finalizer"
    <3> DEFINE onOK == [worker EXCEPT !.pc = "status",
                                      !.count = worker.copy.replicas]
    <3>1. Knows(onOK, n)
      BY <1>1, <2>5 DEF Knows, Acting, Worker
    <3>2. Knows(Idle, v) /\ Knows(Fail(worker, "Conflict"), v)
      BY <2>5, IdleKnows DEF Fail
    <3>3. PutTarget(worker.copy, onOK, Idle)
      BY <1>9, <2>5 DEF Rewrite
    <3> HIDE DEF onOK, n
    <3> QED BY <1>1, <2>2, <2>3, <3>1, <3>2, <3>3, PutTargetKnown DEF v, n
  <2> QED BY <2>4, <2>5
<1>10. CASE SnapshotPut
  <2> DEFINE onOK == [worker EXCEPT !.pc = "zero"]
             n == [exists |-> TRUE, replicas |-> worker.copy.replicas,
                   saved |-> worker.copy.saved]
  <2>1. /\ worker.path = "act" /\ worker.pc = "snapPut"
        /\ Current(worker, v) /\ worker.copy.saved = Desired
        /\ worker.tfresh => worker.copy.replicas = v.replicas
    BY <1>1, <1>10 DEF SnapshotPut, Knows, Acting
  <2>2. /\ n \in {Remembered, Down} /\ n \in Shapes
        /\ n.exists /\ worker.copy = CopyOf(n) /\ n.saved = Desired
    <3>1. n = Remembered \/ n = Down
      <4>1. worker.copy.replicas \in {0, Desired}
        BY <2>1, ShapesDiffer DEF CopyOf, Current
      <4>2. CASE worker.copy.replicas = 0
        BY <2>1, <4>2, ShapesDiffer
      <4>3. CASE worker.copy.replicas = Desired
        BY <2>1, <4>3, ShapesDiffer
      <4> QED BY <4>1, <4>2, <4>3
    <3>2. worker.copy = CopyOf(n)
      BY <1>1 DEF CopyOf
    <3> HIDE DEF n
    <3> QED BY <3>1, <3>2, ShapesDiffer DEF Shapes
  <2>3. ASSUME worker.tfresh PROVE Knows(onOK, n)
    <3>1. /\ onOK.copy = worker.copy /\ onOK.pc = "zero"
          /\ onOK.path = "act" /\ onOK.tfresh = TRUE
      BY <1>1, <2>1, <2>3 DEF Worker
    <3>2. worker.copy.replicas = n.replicas
      OBVIOUS
    <3> HIDE DEF n, onOK
    <3> QED BY <2>1, <2>2, <3>1, <3>2 DEF Knows, Acting, Current
  <2>4. worker.tfresh /\ v.exists
        => n = v \/ (v = NewTarget /\ n = Remembered)
    <3>1. worker.tfresh => n.replicas = v.replicas
      BY <2>1
    <3>2. v \in {GoneTarget, NewTarget, Remembered, Down}
      BY <1>1
    <3>3. n \in {Remembered, Down}
      BY <2>2
    <3> HIDE DEF n
    <3>4. CASE n = Remembered
      <4>1. worker.tfresh => v.replicas # 0
        BY <3>1, <3>4, ShapesDiffer
      <4> QED BY <3>2, <3>4, <4>1, ShapesDiffer
    <3>5. CASE n = Down
      <4>1. worker.tfresh => v.replicas = 0
        BY <3>1, <3>5, ShapesDiffer
      <4> QED BY <3>2, <3>5, <4>1, ShapesDiffer
    <3> QED BY <3>3, <3>4, <3>5
  <2>5. Knows(Idle, v) /\ Knows(Fail(worker, "Conflict"), v)
    BY <2>1, IdleKnows DEF Fail
  <2>6. PutTarget(worker.copy, onOK, Idle)
    BY <1>10 DEF SnapshotPut
  <2>7. n = [exists |-> TRUE, replicas |-> worker.copy.replicas,
             saved |-> worker.copy.saved]
    OBVIOUS
  <2>8. v = Stored(target)
    BY DEF v
  <2> HIDE DEF onOK, n
  <2>9. worker.tfresh /\ v.exists
        => /\ n \in Shapes /\ Knows(onOK, n)
           /\ n = v \/ (worker.pc = "snapPut" /\ v = NewTarget
                        /\ n = Remembered)
    BY <2>1, <2>2, <2>3, <2>4
  <2> QED BY <1>1, <2>5, <2>6, <2>7, <2>8, <2>9, PutTargetKnown
<1>11. CASE ScaleToZero
  <2> DEFINE onOK == [worker EXCEPT !.pc = "status",
                                    !.count = worker.copy.saved]
             c == [worker.copy EXCEPT !.replicas = 0]
             n == [exists |-> TRUE, replicas |-> c.replicas,
                   saved |-> c.saved]
  <2>1. /\ worker.path = "act" /\ worker.pc = "zero"
        /\ worker.copy.saved = Desired
        /\ worker.tfresh => v.saved = Desired
    BY <1>1, <1>11 DEF ScaleToZero, Knows
  <2>2. n = Down /\ n \in Shapes /\ c \in [replicas : Nat, saved : Saved]
    BY <1>1, <2>1, ShapesDiffer DEF Shapes
  <2>3. worker.tfresh => v = Remembered \/ v = Down
    BY <1>1, <2>1, ShapesDiffer
  <2>4. Knows(onOK, n)
    BY <1>1, <2>1 DEF Knows, Acting, Worker
  <2>5. Knows(Idle, v) /\ Knows(Fail(worker, "Conflict"), v)
    BY <2>1, IdleKnows DEF Fail
  <2>6. PutTarget(c, onOK, Idle)
    BY <1>11 DEF ScaleToZero
  <2> HIDE DEF onOK, c, n
  <2> QED BY <1>1, <2>1, <2>2, <2>3, <2>4, <2>5, <2>6, PutTargetKnown
          DEF v, n
<1>12. CASE StatusPut
  <2> DEFINE u == [w EXCEPT !.state = worker.verdict, !.original = Original]
  <2>1. u \in Order /\ u.exists = w.exists /\ u.fin = w.fin
    BY <1>1, <1>2 DEF Order, Worker, Original
  <2>2. /\ order' = IF Answer(order[worker.order], worker.ofresh) = "OK"
                    THEN [order EXCEPT ![worker.order] =
                            Publish(order[worker.order], u)]
                    ELSE order
        /\ worker' = Idle /\ target' = target
    BY <1>12 DEF StatusPut, w
  <2> HIDE DEF u
  <2>3. order \in [Orders -> Versions(Order)]
    BY DEF TypeInv, TypeOK
  <2>4. /\ \A o \in Orders \ {worker.order} : order'[o] = order[o]
        /\ Stored(order'[worker.order]) \in {u, w}
    BY <1>2, <2>1, <2>2, <2>3, PublishVersions DEF w
  <2>5. \A o \in Orders : /\ Stored(order'[o]).exists = Stored(order[o]).exists
                          /\ Stored(order'[o]).fin = Stored(order[o]).fin
    BY <2>1, <2>4 DEF w
  <2> QED BY <2>2, <2>5, IdleKnows DEF TargetInv, Moves, LetsGoAwake
<1> QED BY <1>5, <1>6, <1>7, <1>8, <1>9, <1>10, <1>11, <1>12

\* Somebody else writes the workload, deletes it, or creates it as its
\* manifest says: whatever the worker holds of it is outdated.
LEMMA ForeignWriteKnown ==
  ASSUME TypeInv, TargetInv, NEW u, WriteTarget(u),
         \/ u = Stored(target)
         \/ Stored(target).exists /\ u = GoneTarget
         \/ ~Stored(target).exists /\ u = NewTarget
  PROVE  TargetInv' /\ Moves
<1> DEFINE v == Stored(target)
<1>1. /\ worker' = [worker EXCEPT !.tfresh = FALSE]
      /\ worker \in Worker /\ v \in Target /\ Knows(worker, v)
      /\ v \in {GoneTarget, NewTarget, Remembered, Down}
  BY TargetReads DEF WriteTarget
<1>2. ~v.exists => v = GoneTarget
  BY <1>1, ShapesDiffer
<1>3. Stored(target') = u
  <2>1. GoneTarget \in Target /\ NewTarget \in Target
    BY SleepOrderAssumption DEF GoneTarget, NewTarget, Target, Saved
  <2>2. u \in Target
    BY <1>1, <2>1
  <2> QED BY <2>2, PublishVersions DEF WriteTarget, TypeInv, TypeOK
<1>4. u \in Shapes /\ Moves
  BY <1>1, <1>2, <1>3 DEF Moves, Shapes
<1>5. u = v \/ (u \in Untouched /\ u # Down /\ u # Remembered)
  BY ShapesDiffer DEF Untouched
<1> HIDE DEF v
<1>6. Knows(worker', u)
  BY <1>1, <1>5 DEF Knows, Acting, Current, Bound, Worker
<1> QED BY <1>3, <1>4, <1>6 DEF TargetInv

\* The rest of the cluster.
LEMMA KnownEnvironment ==
  ASSUME TypeInv, TargetInv, ~spoilt', Environment
  PROVE  TargetInv' /\ Moves
<1>1. worker \in Worker
  BY TargetReads
<1>2. ~Garble /\ \A n \in Counts : ~Scale(n)
  BY DEF Garble, Scale, Spoils
<1>3. CASE Touch \/ DeleteTarget \/ CreateTarget
  BY <1>3, ForeignWriteKnown DEF Touch, DeleteTarget, CreateTarget
<1>4. CASE Crash
  <2>1. Stored(target') = Stored(target) /\ worker' = Idle
    BY <1>4, VersionsSeen DEF Crash, TypeInv, TypeOK
  <2> QED BY <2>1, IdleKnows DEF TargetInv, Moves
<1>5. ASSUME target' = target,
             worker' \in {worker, [worker EXCEPT !.ofresh = FALSE]}
      PROVE  TargetInv' /\ Moves
  <2>1. Knows(worker', Stored(target))
    BY <1>1, <1>5 DEF TargetInv, Knows, Acting, Current, Bound, Worker
  <2> QED BY <1>5, <2>1 DEF TargetInv, Moves
<1>6. ASSUME NEW o \in Orders,
             \/ CreateOrder(o) \/ DeleteOrder(o) \/ PolicyUpdate(o)
             \/ EditSchedule(o) \/ Tick(o) \/ DeliverOrder(o)
      PROVE  TargetInv' /\ Moves
  BY <1>5, <1>6 DEF CreateOrder, DeleteOrder, PolicyUpdate, EditSchedule,
                    WriteOrder, Tick, DeliverOrder
<1>7. CASE ApiError
  <2>1. target' = target /\ worker' = Fail(worker, "Error")
    BY <1>7 DEF ApiError, ReadOnly
  <2>2. Knows(worker', Stored(target))
    BY <1>1, <1>7, <2>1, ErrorKnows DEF ApiError, TargetInv
  <2> QED BY <2>1, <2>2 DEF TargetInv, Moves
<1>8. CASE DeliverTarget
  <2>1. Stored(target') = Stored(target) /\ worker' = worker
    BY <1>8, VersionsSeen DEF DeliverTarget, TypeInv, TypeOK
  <2> QED BY <2>1 DEF TargetInv, Moves
<1> QED BY <1>2, <1>3, <1>4, <1>6, <1>7, <1>8 DEF Environment

\* Every step that does not spoil the count keeps what is known of the
\* workload; those of the controller let no order go before it runs.
LEMMA KnownSteps ==
  ASSUME TypeInv, TargetInv, ~spoilt', [Next]_vars, Looks => Synced(target)
  PROVE  TargetInv' /\ Moves /\ (Controller => LetsGoAwake)
<1>1. CASE UNCHANGED vars
  BY <1>1 DEF vars, TargetInv, Moves, LetsGoAwake
<1>2. CASE Controller
  BY <1>2, KnownReading, KnownWriting DEF Controller, WorkerStep
<1>3. CASE Environment /\ ~Controller
  BY <1>3, KnownEnvironment
<1> QED BY <1>1, <1>2, <1>3 DEF Next

\* One that does is no write of an order.
LEMMA SpoilingSteps ==
  ASSUME ~spoilt, spoilt', [Next]_vars
  PROVE  /\ order' = order
         /\ Controller => RestoreGet
<1> USE DEF ReadOnly
<1>1. CASE UNCHANGED vars
  BY <1>1 DEF vars
<1>2. ASSUME Controller PROVE RestoreGet
  BY <1>2 DEF Controller, Reconcile, WorkerStep, GetTargetObject,
         RemoveFinalizerTargetMissing, HandleFinalizer, AddFinalizer,
         DropFinalizer, RestorePut, Rewrite, SnapshotGet, SnapshotPut,
         ScaleToZero, UpdateStatus, StatusPut, PutOrder, PutTarget
<1>3. CASE Environment
  <2>1. Garble \/ \E n \in Counts : Scale(n)
    BY <1>3 DEF Environment, Touch, DeleteTarget, CreateTarget,
           DeliverTarget, ApiError, Crash, CreateOrder, DeleteOrder,
           PolicyUpdate, EditSchedule, Tick, DeliverOrder, WriteOrder
  <2> QED BY <1>2, <2>1 DEF Garble, Scale, WriteTarget
<1> QED BY <1>1, <1>2, <1>3 DEF Next, RestoreGet

LEMMA KnownStart == Init => TargetInv
<1> SUFFICES ASSUME Init PROVE TargetInv
  OBVIOUS
<1>1. Stored(target) = NewTarget
  BY DEF Init, Stored
<1> QED BY <1>1, IdleKnows, ShapesDiffer DEF Init, TargetInv, Shapes

\* So it stays known, or is spoilt, and no order is let go of too early.
LEMMA KnownNext ==
  ASSUME TypeInv, TargetKnown, [Next]_vars, Looks => Synced(target)
  PROVE  TargetKnown' /\ (Controller /\ ~spoilt => LetsGoAwake)
<1>1. CASE spoilt
  BY <1>1, SpoiltStays DEF TargetKnown
<1>2. CASE ~spoilt /\ spoilt'
  BY <1>2, SpoilingSteps DEF TargetKnown, LetsGoAwake
<1>3. CASE ~spoilt /\ ~spoilt'
  BY <1>3, KnownSteps DEF TargetKnown
<1> QED BY <1>1, <1>2, <1>3

(***************************************************************************)
(* Whoever writes the orders and the workload, whichever calls fail, and   *)
(* however old the copies of the orders are: the controller lets an order  *)
(* go, or takes its finalizer, only when its workload, if it is there,     *)
(* runs with the count of its manifest, until that count is spoilt, as     *)
(* long as the controller looks at no outdated copy of the workload.       *)
(***************************************************************************)
THEOREM NobodyLeftAsleep ==
  Spec /\ [][Looks => Synced(target)]_vars
  => [][Controller /\ ~spoilt => LetsGoAwake]_vars
<1> DEFINE Inv == TypeInv /\ TargetKnown
<1>1. Init => Inv
  BY InitTypes, KnownStart DEF TargetKnown
<1>2. Inv /\ [Next]_vars /\ [Looks => Synced(target)]_vars
      => Inv' /\ [Controller /\ ~spoilt => LetsGoAwake]_vars
  <2> SUFFICES ASSUME Inv, [Next]_vars, [Looks => Synced(target)]_vars
               PROVE  Inv' /\ [Controller /\ ~spoilt => LetsGoAwake]_vars
    OBVIOUS
  <2>1. CASE UNCHANGED vars
    BY <2>1, NextTypes DEF vars, TargetKnown, TargetInv
  <2>2. CASE Looks => Synced(target)
    BY <2>2, NextTypes, KnownNext
  <2> QED BY <2>1, <2>2
<1> QED BY <1>1, <1>2, PTL DEF Spec

-----------------------------------------------------------------------------
(* Orders that keep their finalizer until they are deleted.                *)

Holds(v) == v.exists /\ v.fin

\* Whatever has a finalizer is there.
HeldExist == \A o \in Orders : Stored(order[o]).fin => Stored(order[o]).exists

\* A write of order p.
LEMMA OrderWritten ==
  ASSUME TypeInv, HeldExist, NEW p \in Orders, NEW u \in Order,
         u.fin => u.exists,
         \/ order' = order
         \/ order' = [order EXCEPT ![p] = Save(order[p], u)]
         \/ order' = [order EXCEPT ![p] = Publish(order[p], u)]
  PROVE  /\ HeldExist'
         /\ \A o \in Orders : Stored(order'[o]) = Stored(order[o])
                              \/ (o = p /\ Stored(order'[o]) = u)
<1>1. order \in [Orders -> Versions(Order)] /\ order[p] \in Versions(Order)
  BY DEF TypeInv, TypeOK
<1>2. /\ Stored(Save(order[p], u)) = u
      /\ Stored(Publish(order[p], u)) = u
  BY <1>1, PublishVersions
<1>3. \A o \in Orders : Stored(order'[o]) = Stored(order[o])
                        \/ (o = p /\ Stored(order'[o]) = u)
  BY <1>1, <1>2
<1> QED BY <1>3 DEF HeldExist

\* The controller leaves a finalizer on nothing it takes away.
LEMMA HeldByController ==
  ASSUME TypeInv, HeldExist, Controller PROVE HeldExist'
<1> DEFINE w == Stored(order[worker.order])
<1>1. worker.pc # "idle" => worker.order \in Orders /\ w \in Order
  BY VersionsSeen DEF TypeInv, TypeOK, Sound
<1>2. ASSUME order' = order PROVE HeldExist'
  BY <1>2 DEF HeldExist
<1>3. ASSUME worker.pc # "idle", NEW b \in BOOLEAN, NEW onOK, NEW onNotFound,
             PutOrder([w EXCEPT !.fin = b], onOK, onNotFound)
      PROVE  HeldExist'
  <2> DEFINE u == Settle([w EXCEPT !.fin = b])
  <2>1. \/ order' = order
        \/ /\ w.exists
           /\ order' = [order EXCEPT ![worker.order] =
                          Save(order[worker.order], u)]
    BY <1>3 DEF PutOrder, Answer
  <2>2. CASE order' = order
    BY <1>2, <2>2
  <2>3. CASE order' # order
    <3>1. u \in Order /\ (u.fin => u.exists)
      BY <1>1, <1>3, <2>1, <2>3 DEF Settle, GoneOrder, Order
    <3> HIDE DEF u
    <3> QED BY <1>1, <1>3, <2>1, <3>1, OrderWritten
  <2> QED BY <2>2, <2>3
<1>4. CASE StatusPut
  <2> DEFINE u == [w EXCEPT !.state = worker.verdict, !.original = Original]
  <2>1. worker.pc # "idle"
    BY <1>4 DEF StatusPut, At
  <2>2. u \in Order /\ u.fin = w.fin /\ u.exists = w.exists
    BY <1>1, <2>1 DEF Order, Worker, Original, TypeInv, TypeOK
  <2>3. \/ order' = order
        \/ order' = [order EXCEPT ![worker.order] =
                       Publish(order[worker.order], u)]
    BY <1>4 DEF StatusPut
  <2>4. u.fin => u.exists
    BY <1>1, <2>1, <2>2 DEF HeldExist
  <2> HIDE DEF u
  <2> QED BY <1>1, <2>1, <2>2, <2>3, <2>4, OrderWritten
<1>5. CASE RemoveFinalizerTargetMissing
  BY <1>3, <1>5 DEF RemoveFinalizerTargetMissing, At
<1>6. CASE AddFinalizer
  BY <1>3, <1>6 DEF AddFinalizer, At
<1>7. CASE DropFinalizer
  BY <1>3, <1>7 DEF DropFinalizer, At
<1>8. CASE \/ \E o \in Orders : Reconcile(o)
           \/ GetTargetObject \/ HandleFinalizer \/ RestoreGet \/ SnapshotGet
           \/ UpdateStatus \/ RestorePut \/ Rewrite \/ SnapshotPut
           \/ ScaleToZero
  BY <1>2, <1>8 DEF Reconcile, GetTargetObject, HandleFinalizer, RestoreGet,
         SnapshotGet, UpdateStatus, RestorePut, Rewrite, SnapshotPut,
         ScaleToZero, PutTarget, ReadOnly
<1> QED BY <1>4, <1>5, <1>6, <1>7, <1>8 DEF Controller, WorkerStep

\* Nor does anybody else; but for an update that drops the finalizer, an
\* order that has one keeps it.
LEMMA HeldByOthers ==
  ASSUME TypeInv, HeldExist, Environment
  PROVE  /\ HeldExist'
         /\ "policy" \notin Env
            => \A o \in Orders : Stored(order[o]).fin => Holds(Stored(order'[o]))
<1>1. order \in [Orders -> Versions(Order)]
  BY DEF TypeInv, TypeOK
<1>2. ASSUME \A o \in Orders : Stored(order'[o]) = Stored(order[o])
      PROVE  /\ HeldExist'
             /\ \A o \in Orders : Stored(order[o]).fin
                                  => Holds(Stored(order'[o]))
  BY <1>2 DEF HeldExist, Holds
<1>3. ASSUME NEW p \in Orders, NEW u \in Order, WriteOrder(p, u),
             u.fin => u.exists
      PROVE  /\ HeldExist'
             /\ (Stored(order[p]).fin => u.fin)
                => \A o \in Orders : Stored(order[o]).fin
                                     => Holds(Stored(order'[o]))
  <2>1. order' = [order EXCEPT ![p] = Publish(order[p], u)]
    BY <1>3 DEF WriteOrder
  <2> QED BY <1>3, <2>1, OrderWritten DEF HeldExist, Holds
<1>4. \A o \in Orders : Stored(order[o]) \in Order
  BY <1>1, VersionsSeen
<1>5. ASSUME NEW o \in Orders, CreateOrder(o)
      PROVE  /\ HeldExist'
             /\ \A q \in Orders : Stored(order[q]).fin
                                  => Holds(Stored(order'[q]))
  <2>1. NewOrder \in Order /\ NewOrder.exists
    BY DEF NewOrder, GoneOrder, Order
  <2> QED BY <1>3, <1>5, <2>1 DEF CreateOrder, HeldExist
<1>6. ASSUME NEW o \in Orders, DeleteOrder(o)
      PROVE  /\ HeldExist'
             /\ \A q \in Orders : Stored(order[q]).fin
                                  => Holds(Stored(order'[q]))
  <2> DEFINE u == Settle([Stored(order[o]) EXCEPT !.deleting = TRUE])
  <2>1. /\ u \in Order /\ (u.fin => u.exists)
        /\ Stored(order[o]).fin => u.fin
    BY <1>4, <1>6 DEF DeleteOrder, Settle, GoneOrder, Order
  <2>2. WriteOrder(o, u)
    BY <1>6 DEF DeleteOrder
  <2> HIDE DEF u
  <2> QED BY <1>3, <2>1, <2>2
<1>7. ASSUME NEW o \in Orders, PolicyUpdate(o)
      PROVE  HeldExist' /\ "policy" \in Env
  <2> DEFINE u == Settle([Stored(order[o]) EXCEPT !.fin = FALSE])
  <2>1. u \in Order /\ (u.fin => u.exists)
    BY <1>4 DEF Settle, GoneOrder, Order
  <2>2. WriteOrder(o, u)
    BY <1>7 DEF PolicyUpdate
  <2> HIDE DEF u
  <2> QED BY <1>3, <1>7, <2>1, <2>2 DEF PolicyUpdate
<1>8. ASSUME NEW o \in Orders, EditSchedule(o)
      PROVE  /\ HeldExist'
             /\ \A q \in Orders : Stored(order[q]).fin
                                  => Holds(Stored(order'[q]))
  BY <1>3, <1>4, <1>8 DEF EditSchedule
<1>9. CASE \E o \in Orders : DeliverOrder(o)
  <2>1. PICK p \in Orders : DeliverOrder(p)
    BY <1>9
  <2>2. \A o \in Orders : Stored(order'[o]) = Stored(order[o])
    BY <1>1, <2>1, VersionsSeen DEF DeliverOrder
  <2> QED BY <1>2, <2>2
<1>10. CASE Crash
  <2>1. \A o \in Orders : Stored(order'[o]) = Stored(order[o])
    BY <1>1, <1>10, VersionsSeen DEF Crash
  <2> QED BY <1>2, <2>1
<1>11. CASE \/ Touch \/ DeleteTarget \/ CreateTarget \/ Garble
            \/ DeliverTarget \/ ApiError \/ (\E n \in Counts : Scale(n))
            \/ \E o \in Orders : Tick(o)
  BY <1>2, <1>11 DEF Touch, DeleteTarget, CreateTarget, Garble, DeliverTarget,
         ApiError, Scale, Tick, WriteTarget, ReadOnly
<1> QED BY <1>5, <1>6, <1>7, <1>8, <1>9, <1>10, <1>11 DEF Environment

LEMMA HeldExistAlways ==
  /\ Init => HeldExist
  /\ TypeInv /\ HeldExist /\ [Next]_vars => HeldExist'
<1>1. Init => HeldExist
  BY DEF Init, HeldExist, Stored, GoneOrder
<1>2. ASSUME HeldExist, UNCHANGED vars PROVE HeldExist'
  BY <1>2 DEF HeldExist, vars
<1> QED BY <1>1, <1>2, HeldByController, HeldByOthers DEF Next

(***************************************************************************)
(* What follows for deletions: with no outdated copy of the workload, an   *)
(* order that held it goes only when the workload, if it is there, runs    *)
(* with the count of its manifest, until the count is spoilt.  Schedules   *)
(* edited, deletions that come before the finalizer, calls that fail,      *)
(* others who write the workload, and copies of the orders however old do  *)
(* not matter; updates that drop the finalizer do.                         *)
(***************************************************************************)
THEOREM DeletionsRestoreBehind ==
  ASSUME "policy" \notin Env
  PROVE  Spec /\ [][Looks => Synced(target)]_vars
         => DeletionRestoresUnspoilt
<1> DEFINE Step == TypeInv /\ HeldExist /\ [Next]_vars
                   /\ [Controller /\ ~spoilt => LetsGoAwake]_vars
<1>1. Step => [~spoilt => RestoresAtDeletion]_vars
  <2> SUFFICES ASSUME Step, ~UNCHANGED vars, ~spoilt PROVE RestoresAtDeletion
    OBVIOUS
  <2>1. CASE Controller
    BY <2>1 DEF LetsGoAwake, HeldExist, RestoresAtDeletion
  <2>2. CASE Environment
    BY <2>2, HeldByOthers DEF RestoresAtDeletion, Holds
  <2> QED BY <2>1, <2>2 DEF Next
<1>2. Spec => []HeldExist
  BY HeldExistAlways, TypesHold, PTL DEF Spec
<1>3. Spec => []TypeInv
  BY TypesHold
<1> QED BY <1>1, <1>2, <1>3, NobodyLeftAsleep, PTL
        DEF Spec, DeletionRestoresUnspoilt

\* With no lag no copy is ever outdated.
LEMMA NothingOutdated ==
  ASSUME MaxLag = 0
  PROVE  Spec => [][Looks => Synced(target)]_vars
<1>1. TypeInv => Synced(target)
  BY NoLag
<1> QED BY <1>1, TypesHold, PTL

THEOREM DeletionsRestore ==
  ASSUME MaxLag = 0, "policy" \notin Env
  PROVE  Spec => DeletionRestoresUnspoilt
BY NothingOutdated, DeletionsRestoreBehind, PTL

-----------------------------------------------------------------------------
(* The promise.  It needs orders that nobody updates and calls that fail   *)
(* of conflicts only; the workload anybody may write.                      *)

Calm ==
  /\ MaxLag = 0
  /\ Env \subseteq {"touch", "scale", "garble", "delete", "crash", "recreate"}

\* The order a worker acts for holds the workload, and cannot go meanwhile.
Secured(wk, w) ==
  /\ wk.pc \in {"target", "missing", "snapGet", "snapPut", "zero"}
       => wk.path = "act"
  /\ wk.pc \in {"restoreGet", "restorePut", "rewrite", "dropFin", "snapGet",
                "snapPut", "zero"} => Holds(w)
  /\ wk.pc = "addFin" => w.exists /\ ~w.fin /\ ~w.deleting /\ wk.ofresh
  /\ wk.pc \in {"finalizer", "addFin", "dropFin"} => wk.path = "finalizer"
  /\ wk.path = "finalizer"
     /\ wk.pc \in {"restoreGet", "restorePut", "rewrite", "dropFin"}
       => w.deleting /\ wk.ofresh

SecuredInv ==
  worker.pc # "idle" => Secured(worker, Stored(order[worker.order]))

\* A worker for order o, stored as w, that may go on from here.
Fits(wk, o, w) == Secured(wk, w) /\ (wk.pc = "idle" \/ wk.order = o)

LEMMA IdleFits == ASSUME NEW o, NEW w PROVE Fits(Idle, o, w)
BY DEF Fits, Secured, Idle

LEMMA ProceedFits ==
  ASSUME NEW wk \in Worker, NEW w, Holds(w)
  PROVE  Fits(Proceed(wk), wk.order, w)
<1>1. CASE Proceed(wk) = Idle
  BY <1>1, IdleFits
<1>2. CASE \E step \in {"snapGet", "zero", "restoreGet", "status"} :
             Proceed(wk) = [wk EXCEPT !.path = "act", !.pc = step]
  BY <1>2 DEF Fits, Secured, Worker
<1> QED BY <1>1, <1>2 DEF Proceed

LEMMA FailFits ==
  ASSUME NEW wk \in Worker, NEW w, NEW err, wk.path = "finalizer" => Holds(w)
  PROVE  Fits(Fail(wk, err), wk.order, w)
<1>1. CASE Fail(wk, err) = Idle
  BY <1>1, IdleFits
<1>2. CASE wk.path = "finalizer" /\ Fail(wk, err) = Proceed(wk)
  BY <1>2, ProceedFits
<1>3. CASE /\ wk.path = "finalizer"
           /\ Fail(wk, err) = [wk EXCEPT !.pc = "finalizer",
                                         !.tries = wk.tries + 1]
  BY <1>3 DEF Fits, Secured, Worker
<1> QED BY <1>1, <1>2, <1>3 DEF Fail

\* What the worker's steps have in common.
LEMMA SecuredReads ==
  ASSUME Calm, TypeInv, SecuredInv, worker.pc # "idle"
  PROVE  LET w == Stored(order[worker.order])
         IN /\ worker \in Worker /\ worker.order \in Orders /\ w \in Order
            /\ Cached(order[worker.order]) = w /\ Synced(order[worker.order])
            /\ Secured(worker, w)
BY NoLag DEF Calm, SecuredInv, TypeInv, TypeOK, Sound

\* The steps that leave the orders alone.
LEMMA SecuredElsewhere ==
  ASSUME Calm, TypeInv, SecuredInv,
         \/ \E o \in Orders : Reconcile(o)
         \/ GetTargetObject \/ HandleFinalizer \/ RestoreGet \/ RestorePut
         \/ Rewrite \/ SnapshotGet \/ SnapshotPut \/ ScaleToZero
         \/ UpdateStatus
  PROVE  SecuredInv'
<1> USE DEF At, Goto
<1> DEFINE w == Stored(order[worker.order])
<1>1. order' = order
  BY DEF Reconcile, GetTargetObject, HandleFinalizer, RestoreGet, RestorePut,
         Rewrite, SnapshotGet, SnapshotPut, ScaleToZero, UpdateStatus,
         PutTarget, ReadOnly
<1>2. ASSUME NEW o \in Orders, Reconcile(o) PROVE SecuredInv'
  BY <1>1, <1>2 DEF Reconcile, SecuredInv, Secured, Idle
<1>3. Fits(worker', worker.order, w) => SecuredInv'
  BY <1>1 DEF SecuredInv, Fits
<1>4. ASSUME worker.pc # "idle"
      PROVE  /\ worker \in Worker /\ worker.order \in Orders /\ w \in Order
             /\ Cached(order[worker.order]) = w
             /\ Synced(order[worker.order])
             /\ Secured(worker, w)
  BY <1>4, SecuredReads
<1> HIDE DEF w
<1>5. CASE GetTargetObject
  <2>1. CASE worker' = Idle
    BY <1>3, <2>1, IdleFits
  <2>2. CASE worker' # Idle
    BY <1>3, <1>4, <1>5, <2>2 DEF GetTargetObject, Fits, Secured, Worker
  <2> QED BY <2>1, <2>2
<1>6. CASE HandleFinalizer
  <2> DEFINE wk == [worker EXCEPT !.ofresh = TRUE]
             needs == Needs(w, worker.count)
  <2>1. /\ worker.pc = "finalizer" /\ worker.path = "finalizer"
        /\ worker' = CASE needs = "stop" -> Idle
                       [] needs = "act" -> Proceed(wk)
                       [] OTHER -> [wk EXCEPT !.pc = needs]
    BY <1>4, <1>6 DEF HandleFinalizer, Secured
  <2>2. /\ wk \in Worker /\ wk.order = worker.order
        /\ wk.path = "finalizer" /\ wk.ofresh = TRUE
    BY <1>4, <2>1 DEF Worker
  <2>3. CASE needs = "stop"
    BY <1>3, <2>1, <2>3, IdleFits
  <2>4. CASE needs = "act"
    <3>1. Holds(w)
      BY <2>4 DEF Needs, Holds
    <3>2. worker' = Proceed(wk)
      BY <2>1, <2>4
    <3> HIDE DEF wk
    <3> QED BY <1>3, <2>2, <3>1, <3>2, ProceedFits
  <2>5. CASE needs \in {"restoreGet", "dropFin"}
    <3>1. Holds(w) /\ w.deleting
      BY <2>5 DEF Needs, Holds
    <3>2. worker' = [wk EXCEPT !.pc = needs]
      BY <2>1, <2>5
    <3>3. /\ worker'.pc = needs /\ worker'.order = worker.order
          /\ worker'.path = "finalizer" /\ worker'.ofresh = TRUE
      BY <1>4, <2>1, <2>2, <3>2 DEF Worker
    <3> HIDE DEF needs
    <3> QED BY <1>3, <2>5, <3>1, <3>3 DEF Fits, Secured
  <2>6. CASE needs = "addFin"
    <3>1. w.exists /\ ~w.fin /\ ~w.deleting
      BY <2>6 DEF Needs
    <3>2. /\ worker'.pc = "addFin" /\ worker'.order = worker.order
          /\ worker'.path = "finalizer" /\ worker'.ofresh = TRUE
      BY <1>4, <2>1, <2>2, <2>6 DEF Worker
    <3> QED BY <1>3, <3>1, <3>2 DEF Fits, Secured
  <2> QED BY <2>3, <2>4, <2>5, <2>6 DEF Needs
<1>7. CASE RestoreGet
  <2>1. worker.pc = "restoreGet" /\ Holds(w)
    BY <1>4, <1>7 DEF RestoreGet, Secured
  <2> DEFINE wk == [worker EXCEPT !.copy = CopyOf(Cached(target)),
                                  !.tfresh = Synced(target)]
  <2>2. wk \in Worker /\ wk.order = worker.order
    <3>1. CopyOf(Cached(target)) \in [replicas : Nat, saved : Saved]
      <4>1. Cached(target) \in Target
        BY VersionsSeen DEF TypeInv, TypeOK
      <4> QED BY <4>1 DEF CopyOf, Target
    <3>2. Synced(target) \in BOOLEAN
      BY DEF Synced
    <3> QED BY <1>4, <2>1, <3>1, <3>2 DEF Worker
  <2>3. /\ Fits(Fail(worker, "NotFound"), worker.order, w)
        /\ Fits(Fail(wk, "Error"), worker.order, w)
    <3> HIDE DEF wk
    <3> QED BY <1>4, <2>1, <2>2, FailFits
  <2>4. CASE worker' \in {Fail(worker, "NotFound"), Fail(wk, "Error")}
    BY <1>3, <2>3, <2>4
  <2>5. CASE worker' \notin {Fail(worker, "NotFound"), Fail(wk, "Error")}
    <3>1. /\ worker'.pc \in {"rewrite", "restorePut"}
          /\ worker'.path = worker.path /\ worker'.order = worker.order
          /\ worker'.ofresh = worker.ofresh
      BY <1>4, <1>7, <2>1, <2>5 DEF RestoreGet, Worker
    <3> QED BY <1>3, <1>4, <2>1, <3>1 DEF Fits, Secured
  <2> QED BY <2>4, <2>5
<1>8. CASE RestorePut
  <2>1. worker.pc = "restorePut" /\ Holds(w)
    BY <1>4, <1>8 DEF RestorePut, Secured
  <2>2. worker' \in {[worker EXCEPT !.pc = "rewrite"],
                     Fail(worker, "NotFound"), Fail(worker, "Conflict")}
    BY <1>8 DEF RestorePut, PutTarget, Answer
  <2>3. Fits([worker EXCEPT !.pc = "rewrite"], worker.order, w)
    BY <1>4, <2>1 DEF Fits, Secured, Worker
  <2> QED BY <1>3, <1>4, <2>1, <2>2, <2>3, FailFits
<1>9. CASE Rewrite
  <2>1. worker.pc = "rewrite" /\ Holds(w)
    BY <1>4, <1>9 DEF Rewrite, Secured
  <2>2. \/ worker.path = "finalizer"
           /\ worker' \in {[worker EXCEPT !.pc = "dropFin"], Proceed(worker)}
        \/ worker' = [worker EXCEPT !.pc = "status",
                                    !.count = worker.copy.replicas]
           /\ worker.path # "finalizer"
        \/ worker' \in {Idle, Fail(worker, "Conflict")}
    BY <1>9 DEF Rewrite, PutTarget, Answer
  <2>3. worker.path = "finalizer"
        => Fits([worker EXCEPT !.pc = "dropFin"], worker.order, w)
    BY <1>4, <2>1 DEF Fits, Secured, Worker
  <2>4. Fits([worker EXCEPT !.pc = "status", !.count = worker.copy.replicas],
             worker.order, w)
    BY <1>4, <2>1 DEF Fits, Secured, Worker
  <2> QED BY <1>3, <1>4, <2>1, <2>2, <2>3, <2>4, IdleFits, ProceedFits,
             FailFits
<1>10. CASE SnapshotGet
  <2>1. CASE worker' = Idle
    BY <1>3, <2>1, IdleFits
  <2>2. CASE worker' # Idle
    BY <1>3, <1>4, <1>10, <2>2 DEF SnapshotGet, Fits, Secured, Worker
  <2> QED BY <2>1, <2>2
<1>11. CASE SnapshotPut
  <2>1. worker.pc = "snapPut" /\ Holds(w) /\ worker.path = "act"
    BY <1>4, <1>11 DEF SnapshotPut, Secured
  <2>2. worker' \in {[worker EXCEPT !.pc = "zero"], Idle,
                     Fail(worker, "Conflict")}
    BY <1>11 DEF SnapshotPut, PutTarget, Answer
  <2>3. Fits([worker EXCEPT !.pc = "zero"], worker.order, w)
    BY <1>4, <2>1 DEF Fits, Secured, Worker
  <2> QED BY <1>3, <1>4, <2>1, <2>2, <2>3, IdleFits, FailFits
<1>12. CASE ScaleToZero
  <2>1. worker.pc = "zero" /\ Holds(w) /\ worker.path = "act"
    BY <1>4, <1>12 DEF ScaleToZero, Secured
  <2>2. worker' \in {[worker EXCEPT !.pc = "status",
                                    !.count = worker.copy.saved],
                     Idle, Fail(worker, "Conflict")}
    BY <1>12 DEF ScaleToZero, PutTarget, Answer
  <2>3. Fits([worker EXCEPT !.pc = "status", !.count = worker.copy.saved],
             worker.order, w)
    BY <1>4, <2>1 DEF Fits, Secured, Worker
  <2> QED BY <1>3, <1>4, <2>1, <2>2, <2>3, IdleFits, FailFits
<1>13. CASE UpdateStatus
  <2>1. CASE worker' = Idle
    BY <1>3, <2>1, IdleFits
  <2>2. CASE worker' # Idle
    BY <1>3, <1>4, <1>13, <2>2 DEF UpdateStatus, Fits, Secured, Worker
  <2> QED BY <2>1, <2>2
<1> QED BY <1>2, <1>5, <1>6, <1>7, <1>8, <1>9, <1>10, <1>11, <1>12, <1>13

\* The steps that write the order the worker acts for.
LEMMA SecuredWriting ==
  ASSUME Calm, TypeInv, SecuredInv,
         \/ RemoveFinalizerTargetMissing \/ AddFinalizer \/ DropFinalizer
         \/ StatusPut
  PROVE  SecuredInv'
<1> USE DEF At, Goto
<1> DEFINE w == Stored(order[worker.order])
<1>1. /\ worker \in Worker /\ worker.order \in Orders /\ w \in Order
      /\ Secured(worker, w)
  BY SecuredReads
     DEF RemoveFinalizerTargetMissing, AddFinalizer, DropFinalizer, StatusPut
<1>2. /\ order \in [Orders -> Versions(Order)]
      /\ order[worker.order] \in Versions(Order)
  BY <1>1 DEF TypeInv, TypeOK
<1>3. ASSUME NEW u \in Order, NEW onOK, NEW onNotFound,
             PutOrder(u, onOK, onNotFound),
             Fits(onOK, worker.order, Settle(u)),
             ~w.exists => Fits(onNotFound, worker.order, w),
             w.exists /\ ~worker.ofresh
             => Fits(Fail(worker, "Conflict"), worker.order, w)
      PROVE  SecuredInv'
  <2>1. CASE w.exists /\ worker.ofresh
    <3>1. /\ order' = [order EXCEPT ![worker.order] =
                         Save(order[worker.order], Settle(u))]
          /\ worker' = onOK
      BY <1>3, <2>1 DEF PutOrder, Answer
    <3>2. Settle(u) \in Order
      BY <1>3 DEF Settle, GoneOrder, Order
    <3>3. Stored(order'[worker.order]) = Settle(u)
      BY <1>1, <1>2, <3>1, <3>2, PublishVersions
    <3> QED BY <1>3, <3>1, <3>3 DEF SecuredInv, Fits
  <2>2. CASE ~(w.exists /\ worker.ofresh)
    <3>1. order' = order /\ Fits(worker', worker.order, w)
      BY <1>3, <2>2 DEF PutOrder, Answer
    <3> QED BY <3>1 DEF SecuredInv, Fits
  <2> QED BY <2>1, <2>2
<1>4. CASE RemoveFinalizerTargetMissing
  <2> DEFINE u == [w EXCEPT !.fin = FALSE]
             onOK == [worker EXCEPT !.pc = "status",
                                    !.verdict = "Error TargetNotFound"]
  <2>1. worker.path # "finalizer" /\ PutOrder(u, onOK, Idle)
    BY <1>1, <1>4 DEF RemoveFinalizerTargetMissing, Secured
  <2>2. u \in Order
    BY <1>1 DEF Order
  <2>3. Fits(onOK, worker.order, Settle(u))
    BY <1>1, <2>1 DEF Fits, Secured, Worker
  <2> HIDE DEF u, onOK
  <2> QED BY <1>1, <1>3, <2>1, <2>2, <2>3, IdleFits, FailFits
<1>5. CASE AddFinalizer
  <2> DEFINE u == [w EXCEPT !.fin = TRUE]
  <2>1. w.exists /\ worker.ofresh
    BY <1>1, <1>5 DEF AddFinalizer, Secured
  <2>2. PutOrder(u, Proceed(worker), Proceed(worker))
    BY <1>5 DEF AddFinalizer
  <2>3. u \in Order /\ Holds(Settle(u))
    BY <1>1, <2>1 DEF Order, Settle, Holds
  <2> HIDE DEF u
  <2> QED BY <1>1, <1>3, <2>1, <2>2, <2>3, ProceedFits
<1>6. CASE DropFinalizer
  <2> DEFINE u == [w EXCEPT !.fin = FALSE]
  <2>1. Holds(w) /\ PutOrder(u, Idle, Proceed(worker))
    BY <1>1, <1>6 DEF DropFinalizer, Secured
  <2>2. u \in Order
    BY <1>1 DEF Order
  <2> HIDE DEF u
  <2> QED BY <1>1, <1>3, <2>1, <2>2, IdleFits, ProceedFits, FailFits
<1>7. CASE StatusPut
  BY <1>7 DEF StatusPut, SecuredInv, Idle
<1> QED BY <1>4, <1>5, <1>6, <1>7

\* The rest of a calm cluster: a deletion waits for the worker, and no order
\* is written while the worker is at it.
LEMMA SecuredEnvironment ==
  ASSUME Calm, TypeInv, HeldExist, SecuredInv, Environment
  PROVE  SecuredInv'
<1>1. /\ Synced(target)
      /\ \A o \in Orders : Synced(order[o]) /\ Stored(order[o]) \in Order
      /\ order \in [Orders -> Versions(Order)] /\ worker \in Worker
      /\ worker.pc # "idle" => worker.order \in Orders
  BY NoLag DEF Calm, TypeInv, TypeOK, Sound
<1>2. /\ ~DeliverTarget /\ \A o \in Orders : ~DeliverOrder(o)
      /\ ~ApiError /\ \A o \in Orders : ~PolicyUpdate(o) /\ ~EditSchedule(o)
  BY <1>1 DEF Calm, DeliverTarget, DeliverOrder, ApiError, PolicyUpdate,
              EditSchedule
<1>3. ASSUME order' = order,
             worker' \in {worker, Idle, [worker EXCEPT !.tfresh = FALSE]}
      PROVE  SecuredInv'
  <2>1. CASE worker' = Idle
    BY <2>1 DEF SecuredInv, Idle
  <2>2. CASE worker' = worker
    BY <1>3, <2>2 DEF SecuredInv
  <2>3. CASE worker' = [worker EXCEPT !.tfresh = FALSE]
    <3>1. /\ worker'.pc = worker.pc /\ worker'.path = worker.path
          /\ worker'.order = worker.order /\ worker'.ofresh = worker.ofresh
      BY <1>1, <2>3 DEF Worker
    <3> QED BY <1>3, <3>1 DEF SecuredInv, Secured
  <2> QED BY <1>3, <2>1, <2>2, <2>3
<1>4. CASE \/ Touch \/ DeleteTarget \/ CreateTarget \/ Garble
           \/ (\E n \in Counts : Scale(n)) \/ \E o \in Orders : Tick(o)
  BY <1>3, <1>4 DEF Touch, DeleteTarget, CreateTarget, Garble, Scale, Tick,
                    WriteTarget
<1>5. CASE Crash
  BY <1>5 DEF Crash, SecuredInv, Idle
<1>6. ASSUME NEW p \in Orders, NEW u \in Order, WriteOrder(p, u),
             LET w == Stored(order[p])
             IN ~w.exists \/ (Holds(w) /\ ~w.deleting /\ Holds(u))
      PROVE  SecuredInv'
  <2>1. /\ order' = [order EXCEPT ![p] = Publish(order[p], u)]
        /\ worker' = IF worker.order = p
                     THEN [worker EXCEPT !.ofresh = FALSE] ELSE worker
    BY <1>6 DEF WriteOrder
  <2>2. /\ Stored(order'[p]) = u
        /\ \A o \in Orders \ {p} : order'[o] = order[o]
    BY <1>1, <2>1, PublishVersions
  <2>3. CASE worker.order = p /\ worker.pc # "idle"
    <3>1. worker' = [worker EXCEPT !.ofresh = FALSE]
      BY <2>1, <2>3
    <3>2. Secured(worker, Stored(order[p]))
      BY <2>3 DEF SecuredInv
    <3>3. Secured(worker', u)
      BY <1>1, <1>6, <3>1, <3>2 DEF Secured, Holds, Worker
    <3>4. worker'.order = p
      BY <1>1, <2>3, <3>1 DEF Worker
    <3> QED BY <2>2, <3>3, <3>4 DEF SecuredInv
  <2>4. CASE ~(worker.order = p /\ worker.pc # "idle")
    BY <1>1, <2>1, <2>2, <2>4 DEF SecuredInv, Worker
  <2> QED BY <2>3, <2>4
<1>7. ASSUME NEW o \in Orders, CreateOrder(o) PROVE SecuredInv'
  <2>1. NewOrder \in Order
    BY DEF NewOrder, GoneOrder, Order
  <2> QED BY <1>6, <1>7, <2>1 DEF CreateOrder
<1>8. ASSUME NEW o \in Orders, DeleteOrder(o) PROVE SecuredInv'
  <2> DEFINE w == Stored(order[o])
             u == [w EXCEPT !.deleting = TRUE]
  <2>1. w.exists /\ ~w.deleting /\ w.fin /\ WriteOrder(o, Settle(u))
    BY <1>8 DEF DeleteOrder, Calm
  <2>2. u \in Order /\ Settle(u) = u /\ Holds(u)
    BY <1>1, <2>1 DEF Order, Settle, Holds
  <2> QED BY <1>6, <2>1, <2>2 DEF Holds
<1> QED BY <1>2, <1>4, <1>5, <1>7, <1>8 DEF Environment

LEMMA SecuredSteps ==
  ASSUME Calm, TypeInv, HeldExist, SecuredInv, [Next]_vars
  PROVE  SecuredInv'
<1>1. CASE UNCHANGED vars
  BY <1>1 DEF vars, SecuredInv
<1> QED BY <1>1, SecuredElsewhere, SecuredWriting, SecuredEnvironment
        DEF Next, Controller, WorkerStep

\* No step writes the workload, or spoils its count, and an order as well.
LEMMA OneAtATime ==
  ASSUME TypeInv, [Next]_vars
  PROVE  \/ \A o \in Orders : Stored(order'[o]) = Stored(order[o])
         \/ /\ UNCHANGED <<target, spoilt>>
            /\ \E p \in Orders : \A o \in Orders \ {p} :
                 Stored(order'[o]) = Stored(order[o])
<1> DEFINE Same == \A o \in Orders : Stored(order'[o]) = Stored(order[o])
           One == /\ UNCHANGED <<target, spoilt>>
                  /\ \E p \in Orders : \A o \in Orders \ {p} :
                       Stored(order'[o]) = Stored(order[o])
<1>1. /\ order \in [Orders -> Versions(Order)]
      /\ worker.pc # "idle" => worker.order \in Orders
  BY DEF TypeInv, TypeOK, Sound
<1>2. order' = order => Same
  OBVIOUS
<1>3. ASSUME UNCHANGED <<target, spoilt>>, NEW p \in Orders,
             \A o \in Orders \ {p} : order'[o] = order[o]
      PROVE  One
  BY <1>3
<1>4. CASE RemoveFinalizerTargetMissing \/ AddFinalizer \/ DropFinalizer
           \/ StatusPut
  <2>1. UNCHANGED <<target, spoilt>> /\ worker.order \in Orders
    BY <1>1, <1>4 DEF RemoveFinalizerTargetMissing, AddFinalizer,
       DropFinalizer, StatusPut, PutOrder, At
  <2>2. \/ order' = order
        \/ \E vs : order' = [order EXCEPT ![worker.order] = vs]
    BY <1>4 DEF RemoveFinalizerTargetMissing, AddFinalizer,
       DropFinalizer, StatusPut, PutOrder
  <2>3. \A o \in Orders \ {worker.order} : order'[o] = order[o]
    BY <1>1, <2>2
  <2> QED BY <1>3, <2>1, <2>3
<1>5. ASSUME NEW p \in Orders,
             \/ CreateOrder(p) \/ DeleteOrder(p) \/ PolicyUpdate(p)
             \/ EditSchedule(p) \/ DeliverOrder(p)
      PROVE  One
  <2>1. UNCHANGED <<target, spoilt>>
    BY <1>5 DEF CreateOrder, DeleteOrder, PolicyUpdate, EditSchedule,
                DeliverOrder, WriteOrder
  <2>2. \A o \in Orders \ {p} : order'[o] = order[o]
    BY <1>1, <1>5 DEF CreateOrder, DeleteOrder, PolicyUpdate, EditSchedule,
                DeliverOrder, WriteOrder
  <2> QED BY <1>3, <2>1, <2>2
<1>6. CASE Crash
  BY <1>1, <1>6, VersionsSeen DEF Crash
<1>7. CASE \/ \E o \in Orders : Reconcile(o)
           \/ GetTargetObject \/ HandleFinalizer \/ RestoreGet \/ RestorePut
           \/ Rewrite \/ SnapshotGet \/ SnapshotPut \/ ScaleToZero
           \/ UpdateStatus
  BY <1>2, <1>7 DEF Reconcile, GetTargetObject, HandleFinalizer, RestoreGet,
         RestorePut, Rewrite, SnapshotGet, SnapshotPut, ScaleToZero,
         UpdateStatus, PutTarget, ReadOnly
<1>8. CASE \/ Touch \/ DeleteTarget \/ CreateTarget \/ Garble
           \/ DeliverTarget \/ ApiError \/ (\E n \in Counts : Scale(n))
           \/ \E o \in Orders : Tick(o)
  BY <1>2, <1>8 DEF Touch, DeleteTarget, CreateTarget, Garble, DeliverTarget,
         ApiError, Scale, Tick, WriteTarget, ReadOnly
<1>9. CASE UNCHANGED vars
  BY <1>2, <1>9 DEF vars
<1> QED BY <1>4, <1>5, <1>6, <1>7, <1>8, <1>9
        DEF Next, Controller, WorkerStep, Environment

(***************************************************************************)
(* Why the promise is kept: what the worker knows of the workload is so,   *)
(* or the write it leads to is refused; it scales down only for an order   *)
(* that holds the workload, and lets an order go only of a workload that   *)
(* runs.                                                                   *)
(***************************************************************************)
Watched ==
  ~spoilt /\ Stored(target) = Down => \E o \in Orders : Holds(Stored(order[o]))

CalmInv == TypeInv /\ HeldExist /\ SecuredInv /\ TargetKnown /\ Watched

Holders == {o \in Orders : Stored(order[o]).exists /\ Stored(order[o]).fin}

\* A step that leaves the orders alone is one the promise knows.
LEMMA TargetKeeps ==
  ASSUME Holders' = Holders,
         \/ spoilt'
         \/ ~spoilt /\ ~spoilt' /\ Moves,
         spoilt => spoilt',
         worker.pc \in {"snapPut", "zero"} => Holders # {}
  PROVE  [Promise!Next]_(Promise!vars)
<1> USE DEF Holders
<1>1. CASE spoilt
  BY <1>1 DEF Kept, Promise!vars
<1>2. CASE ~spoilt /\ spoilt'
  <2>1. CASE Stored(target).exists
    <3>1. Promise!Remove
      BY <1>2, <2>1 DEF Kept, Promise!Remove
    <3> QED BY <3>1 DEF Promise!Next
  <2>2. CASE ~Stored(target).exists
    BY <1>2, <2>2 DEF Kept, Promise!vars
  <2> QED BY <2>1, <2>2
<1> DEFINE v == Stored(target)
           u == Stored(target')
<1>3. ASSUME ~spoilt, ~spoilt', Moves PROVE [Promise!Next]_(Promise!vars)
  <2>1. u = v => (Kept' <=> Kept) /\ Kept' = Kept
    BY <1>3 DEF Kept
  <2>2. CASE u = v
    BY <2>1, <2>2 DEF Promise!vars
  <2>3. CASE worker.pc = "snapPut" /\ v = NewTarget /\ u = Remembered
    <3>1. Promise!Remember
      BY <1>3, <2>3, ShapesDiffer DEF Kept, Promise!Remember
    <3> QED BY <3>1 DEF Promise!Next
  <2>4. CASE worker.pc = "zero" /\ v = Remembered /\ u = Down
    <3>1. Promise!Sleep
      BY <1>3, <2>4, ShapesDiffer DEF Kept, Promise!Sleep
    <3> QED BY <3>1 DEF Promise!Next
  <2>5. CASE v = Down /\ u = NewTarget
    <3>1. Promise!Wake
      BY <1>3, <2>5, ShapesDiffer
      DEF Kept, Promise!Wake, Promise!AsleepNow
    <3> QED BY <3>1 DEF Promise!Next
  <2>6. CASE v.exists /\ u = GoneTarget
    <3>1. Promise!Remove
      BY <1>3, <2>6, ShapesDiffer DEF Kept, Promise!Remove
    <3> QED BY <3>1 DEF Promise!Next
  <2>7. CASE v = GoneTarget /\ u = NewTarget
    <3>1. Promise!Recreate
      BY <1>3, <2>7, ShapesDiffer DEF Kept, Promise!Recreate, Promise!Fresh
    <3> QED BY <3>1 DEF Promise!Next
  <2> QED BY <1>3, <2>2, <2>3, <2>4, <2>5, <2>6, <2>7 DEF Moves
<1> QED BY <1>1, <1>2, <1>3

\* So is one that writes one order, unless it lets go of a sleeping workload.
LEMMA OrderKeeps ==
  ASSUME UNCHANGED <<target, spoilt>>, NEW p \in Orders,
         \A o \in Orders \ {p} : Stored(order'[o]) = Stored(order[o]),
         Holds(Stored(order[p])) => \/ Holds(Stored(order'[p]))
                                    \/ ~(Kept /\ Stored(target).replicas = 0)
  PROVE  [Promise!Next]_(Promise!vars)
<1>1. \A o \in Orders : (o \in Holders <=> Holds(Stored(order[o])))
                        /\ (o \in Holders' <=> Holds(Stored(order'[o])))
  BY DEF Holders, Holds
<1>2. Holders \subseteq Orders /\ Holders' \subseteq Orders
  BY DEF Holders
<1>3. \A o \in Orders \ {p} : o \in Holders' <=> o \in Holders
  BY <1>1
<1>4. Kept' = Kept
  BY DEF Kept
<1>5. CASE p \in Holders' <=> p \in Holders
  <2>1. Holders' = Holders
    BY <1>2, <1>3, <1>5
  <2> QED BY <1>4, <2>1 DEF Promise!vars, Holders
<1>6. CASE p \in Holders' /\ p \notin Holders
  <2>1. Holders' = Holders \cup {p}
    BY <1>2, <1>3, <1>6
  <2>2. Promise!Hold(p)
    BY <1>4, <2>1 DEF Promise!Hold, Holders
  <2> QED BY <2>2 DEF Promise!Next
<1>7. CASE p \notin Holders' /\ p \in Holders
  <2>1. Holders' = Holders \ {p}
    BY <1>2, <1>3, <1>7
  <2>2. ~(Kept /\ Stored(target).replicas = 0)
    BY <1>1, <1>7
  <2>3. Promise!Release(p)
    BY <1>4, <1>7, <2>1, <2>2
    DEF Promise!Release, Promise!AsleepNow, Holders
  <2> QED BY <2>3 DEF Promise!Next
<1> QED BY <1>5, <1>6, <1>7

\* Nobody lets go of a workload that sleeps.
LEMMA HeldWhileDown ==
  ASSUME Calm, CalmInv, [Next]_vars, ~spoilt,
         Stored(target') = Down, NEW o \in Orders, Holds(Stored(order[o]))
  PROVE  Holds(Stored(order'[o]))
<1>1. TypeInv /\ HeldExist /\ HeldExist' /\ TargetKnown
  BY HeldExistAlways DEF CalmInv
<1>2. CASE UNCHANGED vars
  BY <1>2 DEF vars
<1>3. CASE Environment
  BY <1>1, <1>3, HeldByOthers DEF Calm, Holds
<1>4. CASE Controller
  <2>1. LetsGoAwake
    BY <1>1, <1>4, KnownNext, NoLag DEF Calm
  <2>2. Stored(target').exists /\ Stored(target').replicas # Desired
    BY ShapesDiffer
  <2> QED BY <1>1, <2>1, <2>2 DEF LetsGoAwake, HeldExist, Holds
<1> QED BY <1>2, <1>3, <1>4 DEF Next

\* Every step of a calm cluster keeps the invariant and the promise.
LEMMA CalmSteps ==
  ASSUME Calm, CalmInv, [Next]_vars
  PROVE  CalmInv' /\ [Promise!Next]_(Promise!vars)
<1>1. /\ TypeInv /\ HeldExist /\ SecuredInv /\ TargetKnown /\ Watched
      /\ Synced(target)
  BY NoLag DEF Calm, CalmInv
<1>2. TypeInv' /\ HeldExist' /\ SecuredInv' /\ TargetKnown'
  BY <1>1, NextTypes, HeldExistAlways, SecuredSteps, KnownNext
<1>3. spoilt => spoilt'
  BY SpoiltStays
<1>4. ~spoilt /\ ~spoilt' => TargetInv /\ Moves
  BY <1>1, KnownSteps DEF TargetKnown
<1>5. worker.pc \in {"snapPut", "zero"}
      => /\ worker.order \in Orders
         /\ Holds(Stored(order[worker.order]))
  BY <1>1 DEF SecuredInv, Secured, TypeInv, Sound
<1>6. Watched'
  <2> SUFFICES ASSUME ~spoilt', Stored(target') = Down
               PROVE  \E o \in Orders : Holds(Stored(order'[o]))
    BY DEF Watched
  <2>1. ~spoilt /\ Moves
    BY <1>3, <1>4
  <2>2. Stored(target) = Down \/ worker.pc = "zero"
    BY <2>1, ShapesDiffer DEF Moves
  <2>3. PICK o \in Orders : Holds(Stored(order[o]))
    BY <1>1, <1>5, <2>1, <2>2 DEF Watched
  <2> QED BY <2>1, <2>3, HeldWhileDown
<1>7. [Promise!Next]_(Promise!vars)
  <2>1. CASE \A o \in Orders : Stored(order'[o]) = Stored(order[o])
    <3>1. Holders' = Holders
      BY <2>1 DEF Holders
    <3>2. worker.pc \in {"snapPut", "zero"} => Holders # {}
      BY <1>5 DEF Holders, Holds
    <3> QED BY <1>3, <1>4, <3>1, <3>2, TargetKeeps DEF TypeInv, TypeOK
  <2>2. ASSUME UNCHANGED <<target, spoilt>>, NEW p \in Orders,
               \A o \in Orders \ {p} : Stored(order'[o]) = Stored(order[o])
        PROVE  [Promise!Next]_(Promise!vars)
    <3>1. ASSUME Holds(Stored(order[p])), Kept, Stored(target).replicas = 0
          PROVE  Holds(Stored(order'[p]))
      <4>1. ~spoilt /\ ~spoilt' /\ Stored(target) \in Shapes
        BY <1>1, <2>2, <3>1 DEF Kept, TargetKnown, TargetInv
      <4>2. Stored(target') = Down
        BY <2>2, <3>1, <4>1, ShapesDiffer DEF Kept, Shapes
      <4> QED BY <3>1, <4>1, <4>2, HeldWhileDown
    <3> QED BY <2>2, <3>1, OrderKeeps
  <2> QED BY <1>1, <2>1, <2>2, OneAtATime
<1> QED BY <1>2, <1>6, <1>7 DEF CalmInv

LEMMA CalmStart == Init => CalmInv /\ Promise!Init
<1> SUFFICES ASSUME Init PROVE CalmInv /\ Promise!Init
  OBVIOUS
<1>1. /\ Stored(target) = NewTarget /\ spoilt = FALSE
      /\ \A o \in Orders : Stored(order[o]) = GoneOrder
  BY DEF Init, Stored
<1>2. NewTarget # Down /\ ~GoneOrder.fin /\ NewTarget.exists
  BY ShapesDiffer DEF GoneOrder
<1>3. SecuredInv /\ HeldExist /\ Watched
  BY <1>1, <1>2 DEF Init, SecuredInv, Idle, HeldExist, Watched
<1>4. CalmInv
  BY <1>3, InitTypes, KnownStart DEF CalmInv, TargetKnown
<1>5. Holders = {}
  BY <1>1, <1>2 DEF Holders
<1> QED BY <1>1, <1>4, <1>5, ShapesDiffer DEF Promise!Init, Kept, Holders

(***************************************************************************)
(* With up-to-date copies, orders that nobody updates and calls that fail  *)
(* of conflicts only, the controller keeps the promise of Workload until   *)
(* the count is spoilt, whoever else writes the workload: it remembers the *)
(* count before it scales to zero, wakes with the count it remembered, and *)
(* removes no finalizer while the workload sleeps.                         *)
(***************************************************************************)
THEOREM KeepsPromise == ASSUME Calm PROVE Spec => ImplementsWorkload
<1>1. CalmInv /\ [Next]_vars => CalmInv' /\ [Promise!Next]_(Promise!vars)
  BY CalmSteps
<1> QED BY <1>1, CalmStart, PTL DEF Spec, ImplementsWorkload, Promise!Spec

(***************************************************************************)
(* Then, too, a workload at zero is held by the finalizer of an order, so  *)
(* the order's deletion will find it and wake it, unless its count was     *)
(* spoilt.                                                                 *)
(***************************************************************************)
THEOREM AlwaysGuarded == ASSUME Calm PROVE Spec => []Guarded
<1>1. CalmInv /\ [Next]_vars => CalmInv'
  BY CalmSteps
<1>2. CalmInv => Guarded
  <2> SUFFICES ASSUME CalmInv, ~spoilt, Asleep
               PROVE  \E o \in Orders : Holds(Stored(order[o]))
    BY DEF Guarded, Holds
  <2>1. Stored(target) = Down
    BY ShapesDiffer DEF CalmInv, TargetKnown, TargetInv, Shapes, Asleep
  <2> QED BY <2>1 DEF CalmInv, Watched
<1> QED BY <1>1, <1>2, CalmStart, PTL DEF Spec

-----------------------------------------------------------------------------
(* Who spoils the count.                                                   *)

Retrying ==
  /\ MaxLag = 0 /\ MaxTries > 0
  /\ Env \cap {"recreate", "apierror", "policy"} = {}

\* Before the first conflict a count of zero is that of a sleeping workload.
FirstTry(wk, v) ==
  wk.tries = 0
  => /\ wk.pc \in {"finalizer", "addFin"} /\ wk.count = 0 => v = Down
     /\ wk.pc = "restoreGet" => v = Down

RetryInv ==
  \/ spoilt
  \/ Stored(target).exists /\ FirstTry(worker, Stored(target))

\* An order whose deletion waits for this worker is there until it is done.
Committed(wk, w) ==
  wk.path = "finalizer"
  /\ wk.pc \in {"restoreGet", "restorePut", "rewrite", "dropFin"}
  => Holds(w) /\ w.deleting

CommittedInv ==
  worker.pc # "idle" => Committed(worker, Stored(order[worker.order]))

LEMMA IdleFirst == ASSUME NEW v PROVE FirstTry(Idle, v)
BY DEF FirstTry, Idle

\* A conflict ends the first try, one way or the other.
LEMMA ConflictFirst ==
  ASSUME Retrying, NEW wk \in Worker, NEW v
  PROVE  FirstTry(Fail(wk, "Conflict"), v)
<1>1. wk.tries \in Nat /\ MaxTries \in Nat /\ MaxTries > 0
  <2>1. MaxTries \in Nat
    BY SleepOrderAssumption
  <2>2. MaxTries > 0
    BY DEF Retrying
  <2>3. wk.tries \in 0..MaxTries
    BY DEF Worker
  <2> QED BY <2>1, <2>2, <2>3
<1>2. CASE Fail(wk, "Conflict") = Idle
  BY <1>2, IdleFirst
<1>3. CASE /\ wk.tries < MaxTries
           /\ Fail(wk, "Conflict") = [wk EXCEPT !.pc = "finalizer",
                                                !.tries = wk.tries + 1]
  <2>1. Fail(wk, "Conflict").tries = wk.tries + 1
    BY <1>3 DEF Worker
  <2>2. wk.tries + 1 # 0
    BY <1>1
  <2> QED BY <2>1, <2>2 DEF FirstTry
<1>4. CASE ~(wk.tries < MaxTries) /\ Fail(wk, "Conflict") = Proceed(wk)
  <2>1. wk.tries # 0
    BY <1>1, <1>4
  <2>2. CASE Proceed(wk) = Idle
    BY <1>4, <2>2, IdleFirst
  <2>3. CASE Proceed(wk) # Idle
    <3>1. Proceed(wk).tries = wk.tries
      BY <2>3 DEF Proceed, Worker
    <3> QED BY <1>4, <2>1, <3>1 DEF FirstTry
  <2> QED BY <2>2, <2>3
<1> QED BY <1>2, <1>3, <1>4 DEF Fail

LEMMA ProceedFirst ==
  ASSUME NEW wk \in Worker, NEW v, wk.tries = 0 /\ wk.count = 0 => v = Down
  PROVE  FirstTry(Proceed(wk), v)
<1>1. CASE Proceed(wk) = Idle
  BY <1>1, IdleFirst
<1>2. CASE Proceed(wk) # Idle
  <2>1. /\ Proceed(wk).tries = wk.tries
        /\ Proceed(wk).pc \in {"snapGet", "zero", "restoreGet", "status"}
        /\ Proceed(wk).pc = "restoreGet" => wk.count = 0
    BY <1>2 DEF Proceed, Worker
  <2> QED BY <2>1 DEF FirstTry
<1> QED BY <1>1, <1>2

\* The controller's steps that do not spoil the count.
LEMMA FirstController ==
  ASSUME Retrying, TypeInv, TargetInv, CommittedInv, ~spoilt',
         Stored(target).exists, FirstTry(worker, Stored(target)), Controller
  PROVE  FirstTry(worker', Stored(target')) /\ Stored(target').exists
<1> USE DEF At, Goto
<1> DEFINE v == Stored(target)
           w == Stored(order[worker.order])
<1>1. /\ worker \in Worker /\ v \in {NewTarget, Remembered, Down}
      /\ v.exists /\ Cached(target) = v /\ Knows(worker, v)
      /\ target \in Versions(Target)
      /\ worker.pc # "idle" => Committed(worker, w)
  BY TargetReads, NoLag, ShapesDiffer
     DEF Retrying, CommittedInv, TypeInv, TypeOK
<1>2. \A wk : wk.pc \notin {"finalizer", "addFin", "restoreGet"}
              => \A u : FirstTry(wk, u)
  BY DEF FirstTry
<1>3. ASSUME NEW c \in [replicas : Nat, saved : Saved], NEW onOK,
             NEW onNotFound, PutTarget(c, onOK, onNotFound),
             onOK.pc \notin {"finalizer", "addFin", "restoreGet"}
      PROVE  FirstTry(worker', Stored(target')) /\ Stored(target').exists
  <2> DEFINE n == [exists |-> TRUE, replicas |-> c.replicas,
                   saved |-> c.saved]
  <2>1. CASE worker.tfresh
    <3>1. worker' = onOK /\ target' = Save(target, n)
      BY <1>1, <1>3, <2>1 DEF PutTarget, Answer
    <3>2. n \in Target
      BY DEF Target
    <3>3. Stored(target') = n
      BY <1>1, <3>1, <3>2, PublishVersions
    <3> QED BY <1>2, <1>3, <3>1, <3>3
  <2>2. CASE ~worker.tfresh
    <3>1. worker' = Fail(worker, "Conflict") /\ target' = target
      BY <1>1, <1>3, <2>2 DEF PutTarget, Answer
    <3> QED BY <1>1, <3>1, ConflictFirst
  <2> QED BY <2>1, <2>2
<1>4. ASSUME target' = target, FirstTry(worker', v)
      PROVE  FirstTry(worker', Stored(target')) /\ Stored(target').exists
  BY <1>1, <1>4
<1> HIDE DEF v, w
<1>5. ASSUME NEW o \in Orders, Reconcile(o)
      PROVE  target' = target /\ FirstTry(worker', v)
  BY <1>2, <1>5 DEF Reconcile, ReadOnly, Idle
<1>6. ASSUME GetTargetObject PROVE target' = target /\ FirstTry(worker', v)
  <2>1. CASE worker' = Idle
    BY <1>6, <2>1, IdleFirst DEF GetTargetObject, ReadOnly
  <2>2. CASE worker' # Idle
    <3>1. worker'.count = v.replicas /\ worker'.pc = "finalizer"
      BY <1>1, <1>6, <2>2 DEF GetTargetObject, Worker
    <3>2. v.replicas = 0 => v = Down
      BY <1>1, ShapesDiffer
    <3> QED BY <1>6, <3>1, <3>2 DEF FirstTry, GetTargetObject, ReadOnly
  <2> QED BY <2>1, <2>2
<1>7. ASSUME HandleFinalizer PROVE target' = target /\ FirstTry(worker', v)
  <2> DEFINE fresh == Synced(order[worker.order])
             wk == [worker EXCEPT !.ofresh = fresh]
             needs == Needs(Cached(order[worker.order]), worker.count)
  <2>1. /\ worker.pc = "finalizer" /\ target' = target
        /\ worker' = CASE needs = "stop" -> Idle
                       [] needs = "act" -> Proceed(wk)
                       [] OTHER -> [wk EXCEPT !.pc = needs]
    BY <1>7 DEF HandleFinalizer, ReadOnly
  <2>2. worker.tries = 0 /\ worker.count = 0 => v = Down
    BY <2>1 DEF FirstTry, v
  <2>3. fresh \in BOOLEAN
    BY DEF Synced
  <2> HIDE DEF fresh
  <2>4. /\ wk \in Worker /\ wk.tries = worker.tries
        /\ wk.count = worker.count
    BY <1>1, <2>3 DEF Worker
  <2>5. CASE needs = "stop"
    BY <2>1, <2>5, IdleFirst
  <2>6. CASE needs = "act"
    <3> HIDE DEF wk
    <3> QED BY <2>1, <2>2, <2>4, <2>6, ProceedFirst
  <2>7. CASE needs \in {"restoreGet", "dropFin", "addFin"}
    <3>1. worker' = [wk EXCEPT !.pc = needs]
      BY <2>1, <2>7
    <3>2. /\ worker'.pc = needs /\ worker'.tries = worker.tries
          /\ worker'.count = worker.count
      BY <1>1, <2>4, <3>1 DEF Worker
    <3>3. needs = "restoreGet" => worker.count = 0
      BY DEF Needs
    <3> HIDE DEF needs
    <3> QED BY <2>1, <2>2, <2>7, <3>2, <3>3 DEF FirstTry
  <2> QED BY <2>5, <2>6, <2>7 DEF Needs
<1>8. ASSUME NEW u, NEW onOK, NEW onNotFound, PutOrder(u, onOK, onNotFound),
             FirstTry(onOK, v), ~w.exists => FirstTry(onNotFound, v)
      PROVE  target' = target /\ FirstTry(worker', v)
  <2>1. \/ worker' \in {onOK, Fail(worker, "Conflict")}
        \/ worker' = onNotFound /\ ~w.exists
    BY <1>8 DEF PutOrder, Answer, w
  <2> QED BY <1>1, <1>8, <2>1, ConflictFirst DEF PutOrder
<1>9. ASSUME RemoveFinalizerTargetMissing
      PROVE  target' = target /\ FirstTry(worker', v)
  <2> DEFINE onOK == [worker EXCEPT !.pc = "status",
                                    !.verdict = "Error TargetNotFound"]
  <2>1. FirstTry(onOK, v)
    BY <1>1, <1>2 DEF Worker
  <2>2. PutOrder([w EXCEPT !.fin = FALSE], onOK, Idle)
    BY <1>9 DEF RemoveFinalizerTargetMissing, w
  <2> HIDE DEF onOK
  <2> QED BY <1>8, <2>1, <2>2, IdleFirst
<1>10. ASSUME AddFinalizer PROVE target' = target /\ FirstTry(worker', v)
  <2>1. worker.tries = 0 /\ worker.count = 0 => v = Down
    BY <1>10 DEF AddFinalizer, FirstTry, v
  <2>2. PutOrder([w EXCEPT !.fin = TRUE], Proceed(worker), Proceed(worker))
    BY <1>10 DEF AddFinalizer, w
  <2> QED BY <1>1, <1>8, <2>1, <2>2, ProceedFirst
<1>11. ASSUME DropFinalizer PROVE target' = target /\ FirstTry(worker', v)
  <2>1. w.exists
    BY <1>1, <1>11 DEF DropFinalizer, Knows, Committed, Holds
  <2>2. PutOrder([w EXCEPT !.fin = FALSE], Idle, Proceed(worker))
    BY <1>11 DEF DropFinalizer, w
  <2> QED BY <1>8, <2>1, <2>2, IdleFirst
<1>12. ASSUME RestoreGet PROVE target' = target /\ FirstTry(worker', v)
  <2> DEFINE fresh == Synced(target)
             wk == [worker EXCEPT !.copy = CopyOf(v), !.tfresh = fresh]
  <2>1. /\ worker.pc = "restoreGet" /\ ~AnswersZero(v) /\ target' = target
        /\ worker' = IF v.saved \notin Nat THEN Fail(wk, "Error")
                     ELSE [wk EXCEPT !.pc = "restorePut",
                             !.copy = [replicas |-> v.saved, saved |-> None]]
    BY <1>1, <1>12 DEF RestoreGet, Spoils
  <2>2. wk \in Worker /\ wk.tries = worker.tries /\ wk.path = worker.path
    <3>1. CopyOf(v) \in [replicas : Nat, saved : Saved] /\ fresh \in BOOLEAN
      BY <1>1, SleepOrderAssumption, ShapesDiffer DEF CopyOf, Saved, Synced
    <3> HIDE DEF fresh
    <3> QED BY <1>1, <3>1 DEF Worker
  <2>3. CASE v.saved \in Nat
    BY <1>2, <2>1, <2>2, <2>3 DEF Worker
  <2>4. CASE v.saved \notin Nat
    <3>1. worker.tries # 0
      BY <2>1, <2>4, ShapesDiffer DEF FirstTry, v
    <3>2. worker' = Fail(wk, "Error")
      BY <2>1, <2>4
    <3> HIDE DEF wk
    <3>3. worker' = Idle \/ worker' = Proceed(wk)
      BY <3>2 DEF Fail
    <3> QED BY <2>1, <2>2, <3>1, <3>3, IdleFirst, ProceedFirst
  <2> QED BY <2>3, <2>4
<1>13. ASSUME SnapshotGet \/ UpdateStatus
       PROVE  target' = target /\ FirstTry(worker', v)
  <2>1. worker' = Idle \/ worker'.pc \in {"snapPut", "statusPut"}
    BY <1>1, <1>13 DEF SnapshotGet, UpdateStatus, Worker
  <2> QED BY <1>2, <1>13, <2>1, IdleFirst
          DEF SnapshotGet, UpdateStatus, ReadOnly
<1>14. ASSUME StatusPut PROVE target' = target /\ FirstTry(worker', v)
  BY <1>14, IdleFirst DEF StatusPut
<1>15. worker.copy \in [replicas : Nat, saved : Saved]
  BY <1>1 DEF Worker
<1>16. ASSUME RestorePut \/ SnapshotPut
       PROVE  FirstTry(worker', Stored(target')) /\ Stored(target').exists
  <2>1. \A step : [worker EXCEPT !.pc = step].pc = step
    BY <1>1 DEF Worker
  <2> QED BY <1>3, <1>15, <1>16, <2>1 DEF RestorePut, SnapshotPut
<1>17. ASSUME ScaleToZero
       PROVE  FirstTry(worker', Stored(target')) /\ Stored(target').exists
  <2> DEFINE onOK == [worker EXCEPT !.pc = "status",
                                    !.count = worker.copy.saved]
             c == [worker.copy EXCEPT !.replicas = 0]
  <2>1. onOK.pc = "status" /\ c \in [replicas : Nat, saved : Saved]
    BY <1>1, <1>15 DEF Worker
  <2>2. PutTarget(c, onOK, Idle)
    BY <1>17 DEF ScaleToZero
  <2> HIDE DEF onOK, c
  <2> QED BY <1>3, <2>1, <2>2
<1>18. ASSUME Rewrite
       PROVE  FirstTry(worker', Stored(target')) /\ Stored(target').exists
  <2>1. /\ [worker EXCEPT !.pc = "dropFin"].pc = "dropFin"
        /\ [worker EXCEPT !.pc = "status",
                          !.count = worker.copy.replicas].pc = "status"
    BY <1>1 DEF Worker
  <2> QED BY <1>3, <1>15, <1>18, <2>1 DEF Rewrite
<1> QED BY <1>4, <1>5, <1>6, <1>7, <1>9, <1>10, <1>11, <1>12, <1>13, <1>14,
           <1>16, <1>17, <1>18 DEF Controller, WorkerStep

\* The rest of the cluster, which leaves the workload where it is.
LEMMA FirstEnvironment ==
  ASSUME Retrying, TypeInv, TargetInv, ~spoilt', Environment,
         Stored(target).exists, FirstTry(worker, Stored(target))
  PROVE  FirstTry(worker', Stored(target')) /\ Stored(target').exists
<1> DEFINE v == Stored(target)
<1>1. /\ worker \in Worker /\ target \in Versions(Target) /\ v \in Target
      /\ order \in [Orders -> Versions(Order)]
      /\ v.exists /\ FirstTry(worker, v)
  BY TargetReads DEF TypeInv, TypeOK
<1>2. /\ ~Garble /\ (\A n \in Counts : ~Scale(n))
      /\ ~DeleteTarget /\ ~CreateTarget /\ ~ApiError
  <2>1. "recreate" \notin Env /\ "apierror" \notin Env
    BY DEF Retrying
  <2> QED BY <2>1
          DEF Garble, Scale, Spoils, DeleteTarget, CreateTarget, ApiError
<1>3. ASSUME Stored(target') = v,
             worker' \in {worker, Idle, [worker EXCEPT !.tfresh = FALSE],
                          [worker EXCEPT !.ofresh = FALSE]}
      PROVE  FirstTry(worker', Stored(target')) /\ Stored(target').exists
  <2>1. CASE worker' = Idle
    BY <1>1, <1>3, <2>1, IdleFirst
  <2>2. CASE worker' # Idle
    <3>1. /\ worker'.pc = worker.pc /\ worker'.count = worker.count
          /\ worker'.tries = worker.tries
      BY <1>1, <1>3, <2>2 DEF Worker
    <3> QED BY <1>1, <1>3, <3>1 DEF FirstTry
  <2> QED BY <2>1, <2>2
<1>4. CASE Touch
  <2>1. Stored(target') = v
    BY <1>1, <1>4, PublishVersions DEF Touch, WriteTarget
  <2> QED BY <1>3, <1>4, <2>1 DEF Touch, WriteTarget
<1>5. CASE DeliverTarget
  <2>1. Stored(target') = v
    BY <1>1, <1>5, VersionsSeen DEF DeliverTarget
  <2> QED BY <1>3, <1>5, <2>1 DEF DeliverTarget
<1>6. CASE Crash
  <2>1. Stored(target') = v
    BY <1>1, <1>6, VersionsSeen DEF Crash
  <2> QED BY <1>3, <1>6, <2>1 DEF Crash
<1>7. ASSUME NEW o \in Orders,
             \/ CreateOrder(o) \/ DeleteOrder(o) \/ PolicyUpdate(o)
             \/ EditSchedule(o) \/ Tick(o) \/ DeliverOrder(o)
      PROVE  FirstTry(worker', Stored(target')) /\ Stored(target').exists
  BY <1>3, <1>7 DEF CreateOrder, DeleteOrder, PolicyUpdate, EditSchedule,
                    WriteOrder, Tick, DeliverOrder
<1> QED BY <1>2, <1>4, <1>5, <1>6, <1>7 DEF Environment

\* A commitment stands: nobody but the worker ends a deletion that waits.
LEMMA CommittedFits ==
  ASSUME NEW wk \in Worker, NEW w, NEW err
  PROVE  Committed(Idle, w) /\ Committed(Proceed(wk), w)
         /\ Committed(Fail(wk, err), w)
<1>1. Committed(Idle, w) /\ Idle.pc = "idle"
  BY DEF Committed, Idle
<1>2. Committed(Proceed(wk), w)
  BY <1>1 DEF Proceed, Committed, Worker
<1>3. Committed([wk EXCEPT !.pc = "finalizer", !.tries = wk.tries + 1], w)
  BY DEF Committed, Worker
<1> QED BY <1>1, <1>2, <1>3 DEF Fail

LEMMA CommittedController ==
  ASSUME Retrying, TypeInv, CommittedInv, Controller
  PROVE  CommittedInv'
<1> USE DEF At, Goto
<1> DEFINE w == Stored(order[worker.order])
<1>1. /\ worker \in Worker /\ order \in [Orders -> Versions(Order)]
      /\ worker.pc # "idle"
         => /\ worker.order \in Orders /\ Committed(worker, w)
            /\ Cached(order[worker.order]) = w
  BY NoLag DEF Retrying, CommittedInv, TypeInv, TypeOK, Sound
<1>2. ASSUME order' = order, worker.pc # "idle",
             worker' = Idle \/ worker'.order = worker.order,
             Committed(worker', w)
      PROVE  CommittedInv'
  BY <1>2 DEF CommittedInv, Idle
<1>3. ASSUME NEW o \in Orders, Reconcile(o) PROVE CommittedInv'
  BY <1>3 DEF Reconcile, ReadOnly, CommittedInv, Committed, Idle
<1>4. \A wk : wk.pc \notin {"restoreGet", "restorePut", "rewrite", "dropFin"}
              => \A u : Committed(wk, u)
  BY DEF Committed
<1>5. \A wk \in Worker : \A err :
        /\ Proceed(wk) = Idle \/ Proceed(wk).order = wk.order
        /\ Fail(wk, err) = Idle \/ Fail(wk, err).order = wk.order
  BY DEF Proceed, Fail, Worker
<1>6. \A wk \in Worker : \A u, err : /\ Committed(Idle, u)
                                     /\ Committed(Proceed(wk), u)
                                     /\ Committed(Fail(wk, err), u)
  BY CommittedFits
<1> HIDE DEF w
<1>7. CASE GetTargetObject \/ SnapshotGet \/ UpdateStatus
  <2>1. /\ order' = order /\ worker.pc # "idle"
        /\ \/ worker' = Idle
           \/ /\ worker'.pc \in {"missing", "finalizer", "snapPut",
                                 "statusPut"}
              /\ worker'.order = worker.order
    BY <1>1, <1>7 DEF GetTargetObject, SnapshotGet, UpdateStatus, ReadOnly,
                      Worker
  <2> QED BY <1>1, <1>2, <1>4, <1>6, <2>1
<1>8. CASE HandleFinalizer
  <2> DEFINE fresh == Synced(order[worker.order])
             wk == [worker EXCEPT !.ofresh = fresh]
             needs == Needs(w, worker.count)
  <2>1. /\ worker.pc = "finalizer" /\ order' = order
        /\ worker' = CASE needs = "stop" -> Idle
                       [] needs = "act" -> Proceed(wk)
                       [] OTHER -> [wk EXCEPT !.pc = needs]
    BY <1>1, <1>8 DEF HandleFinalizer, ReadOnly
  <2>2. fresh \in BOOLEAN
    BY DEF Synced
  <2> HIDE DEF fresh
  <2>3. wk \in Worker /\ wk.order = worker.order
    BY <1>1, <2>2 DEF Worker
  <2>4. CASE needs = "stop"
    <3>1. worker' = Idle
      BY <2>1, <2>4
    <3> HIDE DEF wk, needs
    <3> QED BY <1>1, <1>2, <1>6, <2>1, <3>1
  <2>5. CASE needs = "act"
    <3>1. worker' = Proceed(wk)
      BY <2>1, <2>5
    <3> HIDE DEF wk, needs
    <3> QED BY <1>2, <1>5, <1>6, <2>1, <2>3, <3>1
  <2>6. CASE needs \in {"restoreGet", "dropFin", "addFin"}
    <3>1. worker' = [wk EXCEPT !.pc = needs]
      BY <2>1, <2>6
    <3>2. worker'.pc = needs /\ worker'.order = worker.order
      BY <1>1, <2>3, <3>1 DEF Worker
    <3>3. needs # "addFin" => Holds(w) /\ w.deleting
      BY <2>6 DEF Needs, Holds
    <3> HIDE DEF wk, needs
    <3> QED BY <1>2, <2>1, <2>6, <3>2, <3>3 DEF Committed
  <2> QED BY <2>4, <2>5, <2>6 DEF Needs
<1>9. CASE RestoreGet
  <2> DEFINE c == CopyOf(Cached(target))
             fresh == Synced(target)
             wk == [worker EXCEPT !.copy = c, !.tfresh = fresh]
  <2>1. /\ worker.pc = "restoreGet" /\ order' = order
        /\ \/ worker' \in {Fail(worker, "NotFound"), Fail(wk, "Error")}
           \/ worker' = [wk EXCEPT !.pc = "rewrite", !.copy.replicas = 0]
           \/ worker' = [wk EXCEPT !.pc = "restorePut",
                           !.copy = [replicas |-> Cached(target).saved,
                                     saved |-> None]]
    BY <1>9 DEF RestoreGet
  <2>2. c \in [replicas : Nat, saved : Saved] /\ fresh \in BOOLEAN
    <3>1. Cached(target) \in Target
      BY VersionsSeen DEF TypeInv, TypeOK
    <3> QED BY <3>1 DEF CopyOf, Target, Synced
  <2> HIDE DEF c, fresh
  <2>3. wk \in Worker /\ wk.order = worker.order
    BY <1>1, <2>2 DEF Worker
  <2>4. CASE worker' \in {Fail(worker, "NotFound"), Fail(wk, "Error")}
    <3> HIDE DEF wk
    <3> QED BY <1>1, <1>2, <1>5, <1>6, <2>1, <2>3, <2>4
  <2>5. CASE worker' \notin {Fail(worker, "NotFound"), Fail(wk, "Error")}
    <3>1. worker'.order = worker.order /\ worker'.path = worker.path
      BY <1>1, <2>1, <2>5 DEF Worker
    <3> QED BY <1>1, <1>2, <2>1, <3>1 DEF Committed
  <2> QED BY <2>4, <2>5
<1>10. CASE RestorePut \/ Rewrite \/ SnapshotPut \/ ScaleToZero
  <2>1. /\ worker.pc \in {"restorePut", "rewrite", "snapPut", "zero"}
        /\ order' = order
        /\ \/ worker' \in {Idle, Proceed(worker), Fail(worker, "NotFound"),
                           Fail(worker, "Conflict")}
           \/ /\ worker.pc \in {"restorePut", "rewrite"}
              /\ \E step : worker' = [worker EXCEPT !.pc = step]
           \/ worker' = [worker EXCEPT !.pc = "zero"]
           \/ \E n : worker' = [worker EXCEPT !.pc = "status", !.count = n]
    BY <1>10 DEF RestorePut, Rewrite, SnapshotPut, ScaleToZero, PutTarget,
                 Answer
  <2>2. CASE worker' \in {Idle, Proceed(worker), Fail(worker, "NotFound"),
                          Fail(worker, "Conflict")}
    BY <1>1, <1>2, <1>5, <1>6, <2>1, <2>2
  <2>3. CASE worker.pc \in {"restorePut", "rewrite"}
             /\ \E step : worker' = [worker EXCEPT !.pc = step]
    <3>1. worker'.order = worker.order /\ worker'.path = worker.path
      BY <1>1, <2>3 DEF Worker
    <3> QED BY <1>1, <1>2, <2>1, <2>3, <3>1 DEF Committed
  <2>4. CASE \/ worker' = [worker EXCEPT !.pc = "zero"]
             \/ \E n : worker' = [worker EXCEPT !.pc = "status", !.count = n]
    <3>1. worker'.order = worker.order /\ worker'.pc \in {"zero", "status"}
      BY <1>1, <2>4 DEF Worker
    <3> QED BY <1>2, <1>4, <2>1, <3>1
  <2> QED BY <2>1, <2>2, <2>3, <2>4
<1>11. CASE \/ RemoveFinalizerTargetMissing \/ AddFinalizer \/ DropFinalizer
            \/ StatusPut
  <2>1. \/ worker' \in {Idle, Proceed(worker), Fail(worker, "Conflict")}
        \/ worker' = [worker EXCEPT !.pc = "status",
                                    !.verdict = "Error TargetNotFound"]
    BY <1>11 DEF RemoveFinalizerTargetMissing, AddFinalizer, DropFinalizer,
                 StatusPut, PutOrder, Answer
  <2>2. \A u : Committed(worker', u)
    <3>1. CASE worker' \in {Idle, Proceed(worker), Fail(worker, "Conflict")}
      BY <1>1, <1>6, <3>1
    <3>2. CASE worker' = [worker EXCEPT !.pc = "status",
                                       !.verdict = "Error TargetNotFound"]
      BY <1>1, <1>4, <3>2 DEF Worker
    <3> QED BY <2>1, <3>1, <3>2
  <2> QED BY <2>2 DEF CommittedInv
<1> QED BY <1>3, <1>7, <1>8, <1>9, <1>10, <1>11 DEF Controller, WorkerStep

LEMMA CommittedEnvironment ==
  ASSUME Retrying, TypeInv, CommittedInv, Environment
  PROVE  CommittedInv'
<1>1. /\ worker \in Worker /\ order \in [Orders -> Versions(Order)]
      /\ \A o \in Orders : Stored(order[o]) \in Order
      /\ worker.pc # "idle"
         => /\ worker.order \in Orders
            /\ Committed(worker, Stored(order[worker.order]))
  BY NoLag DEF Retrying, CommittedInv, TypeInv, TypeOK, Sound
<1>2. /\ \A o \in Orders : ~PolicyUpdate(o)
      /\ ~ApiError
  <2>1. "policy" \notin Env /\ "apierror" \notin Env
    BY DEF Retrying
  <2> QED BY <2>1 DEF PolicyUpdate, ApiError
<1>3. ASSUME worker' \in {worker, [worker EXCEPT !.tfresh = FALSE],
                          [worker EXCEPT !.ofresh = FALSE]},
             \A o \in Orders :
               Stored(order[o]).exists /\ Stored(order[o]).fin
               /\ Stored(order[o]).deleting
               => Holds(Stored(order'[o])) /\ Stored(order'[o]).deleting
      PROVE  CommittedInv'
  <2>1. /\ worker'.pc = worker.pc /\ worker'.path = worker.path
        /\ worker'.order = worker.order
    BY <1>1, <1>3 DEF Worker
  <2> QED BY <1>1, <1>3, <2>1 DEF CommittedInv, Committed, Holds
<1>4. ASSUME \A o \in Orders : Stored(order'[o]) = Stored(order[o]),
             worker' \in {worker, [worker EXCEPT !.tfresh = FALSE],
                          [worker EXCEPT !.ofresh = FALSE]}
      PROVE  CommittedInv'
  BY <1>3, <1>4 DEF Holds
<1>5. ASSUME NEW p \in Orders, NEW u \in Order, WriteOrder(p, u),
             Holds(Stored(order[p])) /\ Stored(order[p]).deleting
             => Holds(u) /\ u.deleting
      PROVE  CommittedInv'
  <2>1. order' = [order EXCEPT ![p] = Publish(order[p], u)]
        /\ worker' \in {worker, [worker EXCEPT !.ofresh = FALSE]}
    BY <1>5 DEF WriteOrder
  <2>2. /\ Stored(order'[p]) = u
        /\ \A o \in Orders \ {p} : order'[o] = order[o]
    BY <1>1, <2>1, PublishVersions
  <2> QED BY <1>3, <1>5, <2>1, <2>2 DEF Holds
<1>6. CASE \/ Touch \/ DeleteTarget \/ CreateTarget \/ Garble
           \/ DeliverTarget \/ (\E n \in Counts : Scale(n))
           \/ \E o \in Orders : Tick(o)
  BY <1>4, <1>6 DEF Touch, DeleteTarget, CreateTarget, Garble, DeliverTarget,
         Scale, Tick, WriteTarget
<1>7. CASE Crash
  BY <1>7 DEF Crash, CommittedInv, Idle
<1>8. ASSUME NEW o \in Orders, CreateOrder(o) PROVE CommittedInv'
  <2>1. NewOrder \in Order
    BY DEF NewOrder, GoneOrder, Order
  <2> QED BY <1>5, <1>8, <2>1 DEF CreateOrder, Holds
<1>9. ASSUME NEW o \in Orders, DeleteOrder(o) PROVE CommittedInv'
  <2> DEFINE u == Settle([Stored(order[o]) EXCEPT !.deleting = TRUE])
  <2>1. ~Stored(order[o]).deleting /\ WriteOrder(o, u)
    BY <1>9 DEF DeleteOrder
  <2>2. u \in Order
    BY <1>1 DEF Settle, GoneOrder, Order
  <2> HIDE DEF u
  <2> QED BY <1>5, <2>1, <2>2
<1>10. ASSUME NEW o \in Orders, EditSchedule(o) PROVE CommittedInv'
  BY <1>1, <1>5, <1>10 DEF EditSchedule
<1>11. CASE \E o \in Orders : DeliverOrder(o)
  <2>1. \A o \in Orders : Stored(order'[o]) = Stored(order[o])
    BY <1>1, <1>11, VersionsSeen DEF DeliverOrder
  <2> QED BY <1>4, <1>11, <2>1 DEF DeliverOrder
<1> QED BY <1>2, <1>6, <1>7, <1>8, <1>9, <1>10, <1>11 DEF Environment

(***************************************************************************)
(* With up-to-date copies, a workload nobody deletes, orders that keep     *)
(* their finalizer and calls that fail of conflicts only, the controller   *)
(* itself takes the count of a workload for zero on a retry only: the      *)
(* attempt after a conflict, made with the count read before the first.    *)
(***************************************************************************)
THEOREM SpoiltByRetries == ASSUME Retrying PROVE Spec => OnlyRetriesSpoil
<1> DEFINE Inv == TypeInv /\ TargetKnown /\ CommittedInv /\ RetryInv
<1>1. Init => Inv
  <2> SUFFICES ASSUME Init PROVE Inv
    OBVIOUS
  <2>1. Stored(target) = NewTarget /\ worker = Idle
    BY DEF Init, Stored
  <2>2. CommittedInv
    BY <2>1 DEF CommittedInv, Idle
  <2>3. RetryInv
    BY <2>1, ShapesDiffer, IdleFirst DEF RetryInv
  <2> QED BY <2>2, <2>3, InitTypes, KnownStart DEF TargetKnown
<1>2. ASSUME Inv, [Next]_vars
      PROVE  Inv' /\ (Controller /\ ~spoilt /\ spoilt' => worker.tries > 0)
  <2>1. Cached(target) = Stored(target) /\ Synced(target)
    BY <1>2, NoLag DEF Retrying
  <2>2. TypeInv' /\ TargetKnown'
    BY <1>2, <2>1, NextTypes, KnownNext
  <2>3. CommittedInv'
    <3>1. CASE UNCHANGED vars
      BY <1>2, <3>1 DEF vars, CommittedInv
    <3> QED BY <1>2, <3>1, CommittedController, CommittedEnvironment DEF Next
  <2>4. RetryInv'
    <3>1. CASE spoilt'
      BY <3>1 DEF RetryInv
    <3>2. CASE ~spoilt'
      <4>1. ~spoilt
        BY <1>2, <3>2, SpoiltStays
      <4>2. TargetInv /\ Stored(target).exists
            /\ FirstTry(worker, Stored(target))
        BY <1>2, <4>1 DEF TargetKnown, RetryInv
      <4>3. CASE UNCHANGED vars
        BY <4>2, <4>3 DEF vars, RetryInv
      <4> QED BY <1>2, <3>2, <4>2, <4>3, FirstController, FirstEnvironment
              DEF Next, RetryInv
    <3> QED BY <3>1, <3>2
  <2>5. ASSUME Controller, ~spoilt, spoilt' PROVE worker.tries > 0
    <3>1. RestoreGet
      BY <1>2, <2>5, SpoilingSteps
    <3>2. AnswersZero(Stored(target)) /\ worker.pc = "restoreGet"
      BY <2>1, <2>5, <3>1 DEF RestoreGet, At
    <3>3. Stored(target) # Down
      BY <3>2, ShapesDiffer DEF AnswersZero
    <3>4. worker.tries # 0
      BY <1>2, <2>5, <3>2, <3>3 DEF RetryInv, FirstTry
    <3>5. worker.tries \in 0..MaxTries /\ MaxTries \in Nat
      BY <1>2, SleepOrderAssumption DEF TypeInv, TypeOK, Worker
    <3> QED BY <3>4, <3>5
  <2> QED BY <2>2, <2>3, <2>4, <2>5
<1>3. Inv /\ [Next]_vars
      => Inv' /\ [Controller /\ ~spoilt /\ spoilt' => worker.tries > 0]_vars
  BY <1>2
<1> QED BY <1>1, <1>3, PTL DEF Spec, OnlyRetriesSpoil

=============================================================================
