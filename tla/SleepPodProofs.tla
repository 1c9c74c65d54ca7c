---------------------------- MODULE SleepPodProofs ----------------------------
(***************************************************************************)
(* The two controllers at work on one workload see the same orders, and    *)
(* each does to them what the other's model allows for; so what is proved  *)
(* of each alone holds of the two together.                                *)
(***************************************************************************)
EXTENDS SleepPod, TLAPS

PP == INSTANCE SleepPolicyProofs
      WITH order <- made, worker <- maker, Lagging <- FALSE

OO == INSTANCE SleepOrderPromise
      WITH Orders <- Policies \X Workloads, Desired <- Replicas,
           Counts <- {}, Env <- Around, MaxLag <- 0

-----------------------------------------------------------------------------
(* The parts.                                                              *)

\* P and PP, O and OO are the same modules: the definitions are the same.
LEMMA SamePolicySide ==
  /\ P!Init <=> PP!Init
  /\ P!Next <=> PP!Next
  /\ P!TypeOK <=> PP!TypeOK
<1>1. (P!Init <=> PP!Init) /\ (P!TypeOK <=> PP!TypeOK)
  BY DEF P!Init, PP!Init, P!GonePolicy, PP!GonePolicy, P!GoneOrder,
         PP!GoneOrder, P!Idle, PP!Idle, P!Nothing, PP!Nothing, P!Keys,
         PP!Keys, P!Orders, PP!Orders, P!TypeOK, PP!TypeOK, P!Config,
         PP!Config, P!Entries, PP!Entries, P!Managing, PP!Managing
<1>2. P!Next <=> PP!Next
  BY DEF P!DisturbKinds, PP!DisturbKinds, P!Entries, PP!Entries, P!Keys,
         PP!Keys, P!Config, PP!Config, P!Managing, PP!Managing, P!vars,
         PP!vars, P!Orders, PP!Orders, P!Nothing, PP!Nothing, P!GonePolicy,
         PP!GonePolicy, P!GoneOrder, PP!GoneOrder, P!Idle, PP!Idle, P!Init,
         PP!Init, P!Effective, PP!Effective, P!Desired, PP!Desired,
         P!Complete, PP!Complete, P!Chosen, PP!Chosen, P!Existing,
         PP!Existing, P!Fetch, PP!Fetch, P!Informed, PP!Informed,
         P!Orphaned, PP!Orphaned, P!SettlePolicy, PP!SettlePolicy,
         P!SettleOrder, PP!SettleOrder, P!StorePolicy, PP!StorePolicy,
         P!Return, PP!Return, P!PutPolicy, PP!PutPolicy, P!At, PP!At,
         P!Goto, PP!Goto, P!Reconcile, PP!Reconcile, P!FixSpec, PP!FixSpec,
         P!RemoveFinalizer, PP!RemoveFinalizer, P!AddFinalizer,
         PP!AddFinalizer, P!Build, PP!Build, P!Doom, PP!Doom, P!Prune,
         PP!Prune, P!PruneDone, PP!PruneDone, P!Deploy, PP!Deploy,
         P!DeployDone, PP!DeployDone, P!UpdateStatus, PP!UpdateStatus,
         P!WorkerStep, PP!WorkerStep, P!DeliverPolicy, PP!DeliverPolicy,
         P!DeliverOrder, PP!DeliverOrder, P!Resync, PP!Resync, P!Elsewhere,
         PP!Elsewhere, P!HoldOrder, PP!HoldOrder, P!ForgoOrder,
         PP!ForgoOrder, P!ReleaseOrder, PP!ReleaseOrder, P!Collect,
         PP!Collect, P!Disturbed, PP!Disturbed, P!WritePolicy,
         PP!WritePolicy, P!CreatePolicy, PP!CreatePolicy, P!EditPolicy,
         PP!EditPolicy, P!DeletePolicy, PP!DeletePolicy, P!ToggleWorkload,
         PP!ToggleWorkload, P!DeleteOrder, PP!DeleteOrder, P!ApiError,
         PP!ApiError, P!Restart, PP!Restart, P!Disturbance, PP!Disturbance,
         P!Next, PP!Next, P!Cardinality, PP!Cardinality
<1> QED BY <1>1, <1>2

LEMMA SameOrderSide ==
  /\ O!Init <=> OO!Init
  /\ O!Controller <=> OO!Controller
  /\ O!Next <=> OO!Next
  /\ O!TypeOK <=> OO!TypeOK
<1>1. /\ O!Init <=> OO!Init
      /\ O!TypeOK <=> OO!TypeOK
  BY DEF O!Init, OO!Init, O!NewTarget, OO!NewTarget, O!GoneOrder,
         OO!GoneOrder, O!Idle, OO!Idle, O!TypeOK, OO!TypeOK, O!Versions,
         OO!Versions, O!Target, OO!Target, O!Order, OO!Order, O!Phases,
         OO!Phases, O!Worker, OO!Worker, O!Steps, OO!Steps, O!Saved, OO!Saved
<1>2. (O!Controller <=> OO!Controller) /\ (O!Next <=> OO!Next)
  BY DEF O!EnvKinds, OO!EnvKinds, O!vars, OO!vars, O!Saved, OO!Saved,
         O!Target, OO!Target, O!Order, OO!Order, O!Phases, OO!Phases,
         O!Steps, OO!Steps, O!Worker, OO!Worker, O!Cached, OO!Cached,
         O!Stored, OO!Stored, O!Synced, OO!Synced, O!Publish, OO!Publish,
         O!Save, OO!Save, O!Answer, OO!Answer, O!GoneTarget, OO!GoneTarget,
         O!NewTarget, OO!NewTarget, O!GoneOrder, OO!GoneOrder, O!NewOrder,
         OO!NewOrder, O!Settle, OO!Settle, O!Idle, OO!Idle, O!Init, OO!Init,
         O!Proceed, OO!Proceed, O!Fail, OO!Fail, O!PutOrder, OO!PutOrder,
         O!PutTarget, OO!PutTarget, O!At, OO!At, O!Goto, OO!Goto, O!CopyOf,
         OO!CopyOf, O!ReadOnly, OO!ReadOnly, O!Spoils, OO!Spoils,
         O!AnswersZero, OO!AnswersZero, O!Reconcile, OO!Reconcile,
         O!GetTargetObject, OO!GetTargetObject,
         O!RemoveFinalizerTargetMissing, OO!RemoveFinalizerTargetMissing,
         O!Needs, OO!Needs, O!HandleFinalizer, OO!HandleFinalizer,
         O!AddFinalizer, OO!AddFinalizer, O!RestoreGet, OO!RestoreGet,
         O!RestorePut, OO!RestorePut, O!Rewrite, OO!Rewrite,
         O!DropFinalizer, OO!DropFinalizer, O!SnapshotGet, OO!SnapshotGet,
         O!SnapshotPut, OO!SnapshotPut, O!ScaleToZero, OO!ScaleToZero,
         O!Original, OO!Original, O!UpdateStatus, OO!UpdateStatus,
         O!StatusPut, OO!StatusPut, O!WorkerStep, OO!WorkerStep,
         O!Controller, OO!Controller, O!WriteTarget, OO!WriteTarget,
         O!WriteOrder, OO!WriteOrder, O!Touch, OO!Touch, O!Scale, OO!Scale,
         O!DeleteTarget, OO!DeleteTarget, O!CreateTarget, OO!CreateTarget,
         O!Garble, OO!Garble, O!CreateOrder, OO!CreateOrder, O!DeleteOrder,
         OO!DeleteOrder, O!PolicyUpdate, OO!PolicyUpdate, O!EditSchedule,
         OO!EditSchedule, O!Tick, OO!Tick, O!DeliverTarget,
         OO!DeliverTarget, O!DeliverOrder, OO!DeliverOrder, O!ApiError,
         OO!ApiError, O!Crash, OO!Crash, O!Environment, OO!Environment,
         O!Next, OO!Next
<1> QED BY <1>1, <1>2

\* What is proved of each part, here.
PolicySide == PP!TypeInv /\ PP!PolicyInv /\ PP!OrderInv

LEMMA PolicyAssumptions ==
  /\ Default \in Policies /\ Added \in Params
  /\ KindOf \in [Workloads -> Kinds] /\ Workloads \cap Kinds = {}
  /\ Specs \subseteq PP!Config
  /\ FALSE \in BOOLEAN /\ Disturb \subseteq PP!DisturbKinds
  /\ MaxEdits \in Nat
  /\ None \notin Policies \cup Params /\ "off" \notin Params
BY SleepPodAssumption DEF PP!Config, PP!Keys, PP!Entries, PP!DisturbKinds

LEMMA OrderAssumptions ==
  /\ Replicas \in Nat \ {0}
  /\ {} \subseteq Nat
  /\ Bare \in BOOLEAN
  /\ 0 \in Nat
  /\ MaxTries \in Nat
  /\ Around \subseteq OO!EnvKinds
  /\ None \notin Nat /\ Garbled \notin Nat /\ Empty \notin Nat
  /\ None # Garbled /\ None # Empty /\ Garbled # Empty
  /\ None \notin Policies \X Workloads
BY SleepPodAssumption DEF Around, OO!EnvKinds

LEMMA PolicyInit == P!Init => PolicySide
<1>1. PP!Init => PP!TypeInv
  BY PP!InitTypes, PolicyAssumptions
<1>2. PP!Init => PP!PolicyInv
  BY PP!InitPolicy, PolicyAssumptions
<1>3. PP!Init => PP!OrderInv
  BY PP!InitOrder, PolicyAssumptions
<1> QED BY <1>1, <1>2, <1>3, SamePolicySide DEF PolicySide

LEMMA PolicyNext == PolicySide /\ [P!Next]_(P!vars) => PolicySide'
<1>1. PP!TypeInv /\ [PP!Next]_(PP!vars) => PP!TypeInv'
  BY PP!NextTypes, PolicyAssumptions
<1>2. PP!TypeInv /\ PP!PolicyInv /\ [PP!Next]_(PP!vars) => PP!PolicyInv'
  BY PP!NextPolicy, PolicyAssumptions
<1>3. /\ PP!TypeInv /\ PP!TypeInv' /\ PP!PolicyInv /\ PP!PolicyInv'
      /\ PP!OrderInv /\ [PP!Next]_(PP!vars)
      => PP!OrderInv'
  BY PP!NextOrder, PolicyAssumptions
<1>4. [P!Next]_(P!vars) => [PP!Next]_(PP!vars)
  BY SamePolicySide DEF P!vars, PP!vars
<1> QED BY <1>1, <1>2, <1>3, <1>4 DEF PolicySide

LEMMA OrderNext == OO!TypeInv /\ [O!Next]_(O!vars) => OO!TypeInv'
<1>1. OO!TypeInv /\ [OO!Next]_(OO!vars) => OO!TypeInv'
  BY OO!NextTypes, OrderAssumptions
<1>2. [O!Next]_(O!vars) => [OO!Next]_(OO!vars)
  BY SameOrderSide DEF O!vars, OO!vars
<1> QED BY <1>1, <1>2

-----------------------------------------------------------------------------
(* The orders from both sides.                                             *)

MadeOrder == [exists : BOOLEAN, deleting : BOOLEAN, fin : BOOLEAN,
              params : Params \cup {None}, orphan : BOOLEAN]

\* Both see the same of an order: v carried out, m made.
Matches(v, m) ==
  v.exists = m.exists /\ v.deleting = m.deleting /\ v.fin = m.fin

\* An order that is not there is nothing; a deletion waits for a finalizer.
Settled(m) == (~m.exists => m = P!GoneOrder) /\ (m.deleting => m.fin)

Agreed ==
  \A k \in Orders : Matches(O!Stored(order[k]), made[k]) /\ Settled(made[k])

PodInv == PolicySide /\ OO!TypeInv /\ Agreed

LEMMA StoredTypes ==
  ASSUME NEW S, NEW vs \in O!Versions(S)
  PROVE  O!Stored(vs) \in S
<1>1. vs \in Seq(S) /\ Len(vs) = 1
  BY DEF O!Versions
<1>2. vs[1] \in S
  BY <1>1
<1> QED BY <1>1, <1>2 DEF O!Stored

\* The types of the parts, one variable at a time.
LEMMA PodTypes ==
  ASSUME PodInv
  PROVE  /\ made \in [Orders -> MadeOrder] /\ ocache = made
         /\ order \in [Orders -> O!Versions(O!Order)]
         /\ \A k \in Orders : O!Stored(order[k]) \in O!Order
         /\ phase \in [Orders -> O!Phases] /\ spoilt \in BOOLEAN
         /\ target \in O!Versions(O!Target)
         /\ worker \in O!Worker
         /\ worker.pc # "idle" => worker.order \in Orders
<1>1. P!TypeOK /\ ocache = made
  BY SamePolicySide DEF PodInv, PolicySide, PP!TypeInv, PP!OrderInv
<1>2. O!TypeOK /\ (worker.pc # "idle" => worker.order \in Orders)
  BY SameOrderSide DEF PodInv, OO!TypeInv, OO!Sound, Orders
<1>3. made \in [Orders -> MadeOrder]
  BY <1>1 DEF P!TypeOK, P!Orders, Orders, MadeOrder
<1>4. order \in [Orders -> O!Versions(O!Order)]
  BY <1>2 DEF O!TypeOK, Orders
<1>5. ASSUME NEW k \in Orders PROVE O!Stored(order[k]) \in O!Order
  <2>1. order[k] \in O!Versions(O!Order)
    BY <1>4
  <2> QED BY <2>1, StoredTypes
<1> QED BY <1>1, <1>2, <1>3, <1>4, <1>5 DEF O!TypeOK, Orders

\* What is published is what is stored.
LEMMA PublishStored ==
  ASSUME NEW S, NEW vs \in O!Versions(S), NEW v \in S
  PROVE  /\ O!Stored(O!Publish(vs, v)) = v
         /\ O!Stored(O!Save(vs, v)) = v
         /\ O!Stored(<<v>>) = v
BY DEF O!Publish, O!Save, O!Stored, O!Versions

\* An order both write, or neither, they still agree on.
LEMMA SameOrders ==
  ASSUME PodInv,
         \A k \in Orders : O!Stored(order'[k]) = O!Stored(order[k]),
         \/ UNCHANGED made
         \/ \E p \in Policies : \E v : P!StorePolicy(p, v)
  PROVE  Agreed'
<1>1. made \in [Orders -> MadeOrder]
  BY PodTypes
<1>2. SUFFICES ASSUME NEW k \in Orders
               PROVE  /\ Matches(O!Stored(order'[k]), made'[k])
                      /\ (~made'[k].exists => made'[k] = P!GoneOrder)
                      /\ (made'[k].deleting => made'[k].fin)
  BY DEF Agreed, Settled
<1>3. Matches(O!Stored(order[k]), made[k]) /\ Settled(made[k])
  BY DEF PodInv, Agreed
<1>4. \/ made'[k] = made[k]
      \/ made[k].exists /\ made'[k] = [made[k] EXCEPT !.orphan = TRUE]
  BY DEF P!StorePolicy, P!Orphaned, P!Orders, Orders
<1>5. made[k] \in MadeOrder
  BY <1>1
<1> QED BY <1>3, <1>4, <1>5 DEF Matches, Settled, MadeOrder

LEMMA WrittenBoth ==
  ASSUME PodInv, NEW k \in Orders, NEW v \in O!Order, NEW m,
         order' = [order EXCEPT ![k] = O!Publish(@, v)],
         made' = [made EXCEPT ![k] = m],
         Matches(v, m), Settled(m)
  PROVE  Agreed'
<1>1. made \in [Orders -> MadeOrder] /\ order \in [Orders -> O!Versions(O!Order)]
  BY PodTypes
<1>2. O!Stored(order'[k]) = v /\ made'[k] = m
  BY <1>1, PublishStored
<1>3. ASSUME NEW l \in Orders, l # k
      PROVE  order'[l] = order[l] /\ made'[l] = made[l]
  BY <1>1, <1>3
<1>4. SUFFICES ASSUME NEW l \in Orders
               PROVE  /\ Matches(O!Stored(order'[l]), made'[l])
                      /\ (~made'[l].exists => made'[l] = P!GoneOrder)
                      /\ (made'[l].deleting => made'[l].fin)
  BY DEF Agreed, Settled
<1> QED BY <1>2, <1>3 DEF PodInv, Agreed, Settled

\* A deletion takes the order, or waits for its finalizer, on both sides.
LEMMA DeletedBoth ==
  ASSUME PodInv, NEW k \in Orders, P!Doom(k), Delete(k)
  PROVE  Agreed' /\ [O!Next]_(O!vars)
<1>1. CASE made' = made
  BY <1>1, SameOrders DEF Delete, orderVars, O!vars
<1>2. CASE made' # made
  <2> DEFINE v == O!Stored(order[k])
             u == O!Settle([v EXCEPT !.deleting = TRUE])
             m == P!SettleOrder([made[k] EXCEPT !.deleting = TRUE])
  <2>1. v \in O!Order /\ made[k] \in MadeOrder /\ made \in [Orders -> MadeOrder]
    BY PodTypes
  <2>2. O!DeleteOrder(k)
    BY <1>2 DEF Delete
  <2>3. order' = [order EXCEPT ![k] = O!Publish(@, u)]
    BY <2>2 DEF O!DeleteOrder, O!WriteOrder
  <2>4. Matches(v, made[k]) /\ v.exists
    BY <2>2 DEF PodInv, Agreed, O!DeleteOrder
  <2>5. made' = [made EXCEPT ![k] = m]
    BY <2>1, <2>4 DEF P!Doom, Matches
  <2>6. u \in O!Order
    BY <2>1 DEF O!Order, O!Settle, O!GoneOrder
  <2>7. Matches(u, m) /\ Settled(m)
    BY <2>1, <2>4 DEF Matches, Settled, MadeOrder, O!Order, O!Settle,
       O!GoneOrder, P!SettleOrder, P!GoneOrder
  <2>8. Agreed'
    BY <2>3, <2>5, <2>6, <2>7, WrittenBoth
  <2> QED BY <2>2, <2>8 DEF O!Next, O!Environment, Orders
<1> QED BY <1>1, <1>2

\* So does what the policy controller deploys.
LEMMA DeployedBoth ==
  ASSUME PodInv, NEW k \in Orders, Deploy(k)
  PROVE  Agreed' /\ [O!Next]_(O!vars)
<1>1. CASE made' = made
  BY <1>1, SameOrders DEF Deploy, orderVars, O!vars
<1>2. CASE made' # made
  <2> DEFINE v == O!Stored(order[k])
             params == maker.desired[k[2]]
             new == P!SettleOrder([made[k] EXCEPT !.params = params,
                                     !.orphan = FALSE, !.fin = FALSE])
             fresh == [P!GoneOrder EXCEPT !.exists = TRUE, !.params = params]
  <2>1. /\ v \in O!Order /\ made[k] \in MadeOrder /\ ocache = made
        /\ Matches(v, made[k])
    BY PodTypes DEF PodInv, Agreed
  <2>2. CASE made[k].exists
    <3> DEFINE u == O!Settle([v EXCEPT !.fin = FALSE])
    <3>1. O!PolicyUpdate(k)
      BY <1>2, <2>2 DEF Deploy
    <3>2. made' = [made EXCEPT ![k] = new]
      BY <1>2, <2>1, <2>2 DEF Deploy, P!Deploy
    <3>3. order' = [order EXCEPT ![k] = O!Publish(@, u)]
      BY <3>1 DEF O!PolicyUpdate, O!WriteOrder
    <3>4. u \in O!Order
      BY <2>1 DEF O!Order, O!Settle, O!GoneOrder
    <3>5. Matches(u, new) /\ Settled(new)
      BY <2>1, <2>2 DEF Matches, Settled, MadeOrder, O!Order, O!Settle,
         O!GoneOrder, P!SettleOrder, P!GoneOrder
    <3>6. Agreed'
      BY <3>2, <3>3, <3>4, <3>5, WrittenBoth
    <3> QED BY <3>1, <3>6 DEF O!Next, O!Environment, Orders
  <2>3. CASE ~made[k].exists
    <3>1. O!CreateOrder(k)
      BY <1>2, <2>3 DEF Deploy
    <3>2. made' = [made EXCEPT ![k] = fresh]
      BY <1>2, <2>1, <2>3 DEF Deploy, P!Deploy
    <3>3. order' = [order EXCEPT ![k] = O!Publish(@, O!NewOrder)]
      BY <3>1 DEF O!CreateOrder, O!WriteOrder
    <3>4. O!NewOrder \in O!Order
      BY DEF O!Order, O!NewOrder, O!GoneOrder
    <3>5. Matches(O!NewOrder, fresh) /\ Settled(fresh)
      BY DEF Matches, Settled, O!NewOrder, O!GoneOrder, P!GoneOrder
    <3>6. Agreed'
      BY <3>2, <3>3, <3>4, <3>5, WrittenBoth
    <3> QED BY <3>1, <3>6 DEF O!Next, O!Environment, Orders
  <2> QED BY <2>2, <2>3
<1> QED BY <1>1, <1>2

-----------------------------------------------------------------------------
(* What the SleepOrder controller does to the orders.                      *)

\* It writes at most the worker's order: the finalizer of one that is there.
LEMMA WorkerWrites ==
  ASSUME PodInv, O!WorkerStep \/ \E k \in Orders : O!Reconcile(k)
  PROVE  \/ order' = order
         \/ /\ worker.order \in Orders
            /\ \E u \in O!Order :
                 LET w == O!Stored(order[worker.order])
                 IN /\ \A k \in Orders : O!Stored(order'[k])
                         = IF k = worker.order THEN u ELSE O!Stored(order[k])
                    /\ w.exists
                    /\ \/ /\ u.exists /\ u.deleting = w.deleting
                          /\ u.fin = w.fin
                       \/ \E b \in BOOLEAN :
                            u = O!Settle([w EXCEPT !.fin = b])
<1> DEFINE o == worker.order
           w == O!Stored(order[o])
<1>1. ASSUME \E k \in Orders : O!Reconcile(k) PROVE order' = order
  BY <1>1 DEF O!Reconcile, O!ReadOnly
<1>2. CASE \/ O!GetTargetObject \/ O!HandleFinalizer \/ O!RestoreGet
           \/ O!SnapshotGet \/ O!UpdateStatus
  BY <1>2 DEF O!GetTargetObject, O!HandleFinalizer, O!RestoreGet,
     O!SnapshotGet, O!UpdateStatus, O!ReadOnly
<1>3. CASE O!RestorePut \/ O!Rewrite \/ O!SnapshotPut \/ O!ScaleToZero
  BY <1>3 DEF O!RestorePut, O!Rewrite, O!SnapshotPut, O!ScaleToZero, O!PutTarget
<1>4. ASSUME worker.pc # "idle", order' # order, NEW u \in O!Order,
             w.exists,
             \/ order' = [order EXCEPT ![o] = O!Save(order[o], u)]
             \/ order' = [order EXCEPT ![o] = O!Publish(order[o], u)],
             \/ u.exists /\ u.deleting = w.deleting /\ u.fin = w.fin
             \/ \E b \in BOOLEAN : u = O!Settle([w EXCEPT !.fin = b])
      PROVE  /\ o \in Orders
             /\ \A k \in Orders : O!Stored(order'[k])
                  = IF k = o THEN u ELSE O!Stored(order[k])
  <2>1. o \in Orders /\ order \in [Orders -> O!Versions(O!Order)]
    BY <1>4, PodTypes
  <2>2. O!Stored(order'[o]) = u
    <3>1. order[o] \in O!Versions(O!Order)
      BY <2>1
    <3>2. order'[o] \in {O!Save(order[o], u), O!Publish(order[o], u)}
      BY <1>4, <2>1
    <3>3. /\ O!Stored(O!Publish(order[o], u)) = u
          /\ O!Stored(O!Save(order[o], u)) = u
      BY <1>4, <3>1, PublishStored
    <3> QED BY <3>2, <3>3
  <2>3. ASSUME NEW k \in Orders, k # o PROVE order'[k] = order[k]
    BY <1>4, <2>1, <2>3
  <2> QED BY <2>1, <2>2, <2>3
<1>5. ASSUME NEW b \in BOOLEAN, NEW onOK, NEW onNotFound, worker.pc # "idle",
             O!PutOrder([w EXCEPT !.fin = b], onOK, onNotFound)
      PROVE  \/ order' = order
             \/ /\ o \in Orders
                /\ \E u \in O!Order :
                     /\ \A k \in Orders : O!Stored(order'[k])
                          = IF k = o THEN u ELSE O!Stored(order[k])
                     /\ w.exists
                     /\ \E c \in BOOLEAN : u = O!Settle([w EXCEPT !.fin = c])
  <2> DEFINE u == O!Settle([w EXCEPT !.fin = b])
  <2>1. order' = order \/ (w.exists
                           /\ order' = [order EXCEPT ![o] = O!Save(order[o], u)])
    BY <1>5 DEF O!PutOrder, O!Answer
  <2>2. o \in Orders /\ w \in O!Order
    BY <1>5, PodTypes
  <2>3. u \in O!Order
    BY <2>2 DEF O!Order, O!Settle, O!GoneOrder
  <2> QED BY <1>4, <1>5, <2>1, <2>3
<1>6. CASE O!RemoveFinalizerTargetMissing \/ O!AddFinalizer \/ O!DropFinalizer
  BY <1>5, <1>6 DEF O!RemoveFinalizerTargetMissing, O!AddFinalizer,
     O!DropFinalizer, O!At
<1>7. CASE O!StatusPut
  <2> DEFINE u == [w EXCEPT !.state = worker.verdict, !.original = O!Original]
  <2>1. worker.pc # "idle"
    BY <1>7 DEF O!StatusPut, O!At
  <2>2. w \in O!Order /\ worker \in O!Worker
    BY <2>1, PodTypes
  <2>3. u \in O!Order /\ u.exists = w.exists /\ u.deleting = w.deleting
        /\ u.fin = w.fin
    BY <2>2 DEF O!Order, O!Worker, O!Original
  <2>4. order' = order
        \/ (w.exists /\ order' = [order EXCEPT ![o] = O!Publish(order[o], u)])
    BY <1>7 DEF O!StatusPut, O!Answer
  <2> QED BY <1>4, <2>1, <2>3, <2>4
<1> QED BY <1>1, <1>2, <1>3, <1>6, <1>7 DEF O!WorkerStep

\* The policy controller sees of it that the finalizer comes, or goes, or
\* that the order does.
LEMMA WorkerTold ==
  ASSUME PodInv, O!WorkerStep \/ \E k \in Orders : O!Reconcile(k), Told
  PROVE  /\ Agreed'
         /\ \/ UNCHANGED P!vars
            \/ \E k \in Orders : P!HoldOrder(k) \/ P!ForgoOrder(k)
                                 \/ P!ReleaseOrder(k)
<1> DEFINE o == worker.order
           w == O!Stored(order[o])
<1>1. /\ made \in [Orders -> MadeOrder] /\ ocache = made
      /\ \A k \in Orders : /\ O!Stored(order[k]) \in O!Order
                           /\ Matches(O!Stored(order[k]), made[k])
                           /\ Settled(made[k])
  BY PodTypes DEF PodInv, Agreed
<1>2. ASSUME NEW k \in Orders, O!Stored(order'[k]).exists = made[k].exists,
             O!Stored(order'[k]).fin = made[k].fin
      PROVE  made'[k] = made[k]
  <2>1. made[k] \in MadeOrder
    BY <1>1
  <2>2. [made[k] EXCEPT !.fin = made[k].fin] = made[k]
    BY <2>1 DEF MadeOrder
  <2> QED BY <1>1, <1>2, <2>2 DEF Told, Settled
<1>3. made' = [k \in Orders |-> made'[k]] /\ ocache' = made'
  BY DEF Told
<1>4. CASE \A k \in Orders : /\ O!Stored(order'[k]).exists = made[k].exists
                             /\ O!Stored(order'[k]).deleting = made[k].deleting
                             /\ O!Stored(order'[k]).fin = made[k].fin
  <2>1. made' = made
    BY <1>1, <1>2, <1>3, <1>4
  <2> QED BY <1>1, <1>4, <2>1 DEF Agreed, Matches, Told, P!vars
<1>5. CASE ~\A k \in Orders : /\ O!Stored(order'[k]).exists = made[k].exists
                              /\ O!Stored(order'[k]).deleting = made[k].deleting
                              /\ O!Stored(order'[k]).fin = made[k].fin
  <2>1. order' # order
    BY <1>1, <1>5 DEF Matches
  <2>2. PICK u \in O!Order :
          /\ \A k \in Orders : O!Stored(order'[k])
               = IF k = o THEN u ELSE O!Stored(order[k])
          /\ w.exists
          /\ \/ u.exists /\ u.deleting = w.deleting /\ u.fin = w.fin
             \/ \E b \in BOOLEAN : u = O!Settle([w EXCEPT !.fin = b])
    BY <2>1, WorkerWrites
  <2>3. o \in Orders
    BY <2>1, WorkerWrites
  <2>4. \A k \in Orders : k # o => made'[k] = made[k]
    BY <1>1, <1>2, <2>2 DEF Matches
  <2>5. made[o] \in MadeOrder /\ w \in O!Order /\ Matches(w, made[o])
        /\ Settled(made[o]) /\ O!Stored(order'[o]) = u
    BY <1>1, <2>2, <2>3
  <2>6. made'[o] = IF u.exists THEN [made[o] EXCEPT !.fin = u.fin]
                   ELSE P!GoneOrder
    BY <2>3, <2>5 DEF Told
  <2>7. made' = [made EXCEPT ![o] = made'[o]]
    BY <1>1, <1>3, <2>3, <2>4
  <2>8. u.exists /\ u.deleting = w.deleting /\ u.fin = w.fin => FALSE
    BY <1>1, <1>5, <2>2 DEF Matches
  <2>9. PICK b \in BOOLEAN : u = O!Settle([w EXCEPT !.fin = b])
    BY <2>2, <2>8
  <2>10. \/ u.exists /\ ~u.deleting /\ u.fin /\ ~w.fin /\ ~w.deleting
         \/ u.exists /\ ~u.deleting /\ ~u.fin /\ w.fin /\ ~w.deleting
         \/ ~u.exists /\ ~u.deleting /\ ~u.fin /\ w.deleting
    <3>1. /\ w.exists \in BOOLEAN /\ w.deleting \in BOOLEAN /\ w.fin \in BOOLEAN
          /\ (w.deleting => w.fin) /\ w.exists
      BY <2>2, <2>5 DEF O!Order, Matches, Settled
    <3> DEFINE x == [w EXCEPT !.fin = b]
    <3>3. x.exists = w.exists /\ x.deleting = w.deleting /\ x.fin = b
      BY <2>5 DEF O!Order
    <3>4. CASE w.deleting /\ ~b
      BY <2>9, <3>1, <3>3, <3>4 DEF O!Settle, O!GoneOrder
    <3>5. CASE ~(w.deleting /\ ~b)
      <4>1. u = x
        BY <2>9, <3>3, <3>5 DEF O!Settle
      <4> QED BY <2>8, <3>1, <3>3, <3>5, <4>1
    <3> QED BY <3>4, <3>5
  <2> DEFINE m == made[o]
             n == made'[o]
  <2>20. /\ u.exists \in BOOLEAN /\ u.deleting \in BOOLEAN /\ u.fin \in BOOLEAN
          /\ w.exists \in BOOLEAN /\ w.deleting \in BOOLEAN /\ w.fin \in BOOLEAN
          /\ m.exists \in BOOLEAN /\ m.deleting \in BOOLEAN /\ m.fin \in BOOLEAN
    BY <2>5 DEF O!Order, MadeOrder
  <2>11. /\ Matches(u, made'[o]) /\ Settled(made'[o])
         /\ made[o].exists /\ made[o].deleting = w.deleting
         /\ made[o].fin = w.fin
    <3>1. /\ made[o].exists /\ made[o].deleting = w.deleting
          /\ made[o].fin = w.fin
      BY <2>2, <2>5 DEF Matches
    <3>2. CASE u.exists
      <4>1. made'[o] = [made[o] EXCEPT !.fin = u.fin]
        BY <2>6, <3>2
      <4>2. n.exists = m.exists /\ n.deleting = m.deleting /\ n.fin = u.fin
        BY <2>5, <4>1 DEF MadeOrder
      <4> QED BY <2>20, <2>10, <3>1, <3>2, <4>2 DEF Matches, Settled
    <3>3. CASE ~u.exists
      <4>1. n = P!GoneOrder
        BY <2>6, <3>3
      <4>2. n.exists = FALSE /\ n.deleting = FALSE /\ n.fin = FALSE
        BY <4>1 DEF P!GoneOrder
      <4>3. u.exists = FALSE /\ u.deleting = FALSE /\ u.fin = FALSE
        BY <2>10, <2>20, <3>3
      <4> QED BY <3>1, <4>1, <4>2, <4>3 DEF Matches, Settled
    <3> QED BY <3>1, <3>2, <3>3
  <2>12. Agreed'
    <3>1. ASSUME NEW k \in Orders
          PROVE  Matches(O!Stored(order'[k]), made'[k]) /\ Settled(made'[k])
      BY <1>1, <2>2, <2>4, <2>5, <2>11
    <3> QED BY <3>1 DEF Agreed, Settled
  <2>13. P!Informed /\ P!Elsewhere
    BY <1>3 DEF Told, P!Informed, P!Elsewhere
  <2>14. CASE u.exists /\ ~u.deleting /\ u.fin /\ ~w.fin /\ ~w.deleting
    <3>1. made' = [made EXCEPT ![o].fin = TRUE]
      BY <1>1, <2>3, <2>6, <2>7, <2>14
    <3>2. P!HoldOrder(o)
      BY <2>2, <2>11, <2>13, <2>14, <3>1 DEF P!HoldOrder
    <3> QED BY <2>3, <2>12, <3>2
  <2>15. CASE u.exists /\ ~u.deleting /\ ~u.fin /\ w.fin /\ ~w.deleting
    <3>1. made' = [made EXCEPT ![o].fin = FALSE]
      BY <1>1, <2>3, <2>6, <2>7, <2>20, <2>15
    <3>2. P!ForgoOrder(o)
      BY <2>20, <2>11, <2>13, <2>15, <3>1 DEF P!ForgoOrder
    <3> QED BY <2>3, <2>12, <3>2
  <2>16. CASE ~u.exists /\ ~u.deleting /\ ~u.fin /\ w.deleting
    <3>1. P!ReleaseOrder(o)
      BY <2>2, <2>6, <2>7, <2>11, <2>13, <2>16 DEF P!ReleaseOrder
    <3> QED BY <2>3, <2>12, <3>1
  <2> QED BY <2>10, <2>14, <2>15, <2>16
<1> QED BY <1>4, <1>5

-----------------------------------------------------------------------------
(* Every step is a step of both, or the clock's.                           *)

\* A worker's step is one of the order controller.
LEMMA WorkerIsOrder ==
  O!WorkerStep \/ (\E k \in Orders : O!Reconcile(k)) => O!Next
BY DEF O!Next, O!Controller, Orders

\* The policy controller, the users, the garbage collector.
LEMMA MakerBoth ==
  ASSUME PodInv,
         \/ MakerStep \/ Resync \/ Users
         \/ P!ApiError /\ UNCHANGED orderVars
         \/ \E p \in Policies : Reconcile(p) \/ DeliverPolicy(p)
         \/ \E k \in Orders : Collect(k)
  PROVE  P!Next /\ [O!Next]_(O!vars) /\ Agreed'
<1>1. ASSUME UNCHANGED orderVars,
             UNCHANGED made \/ \E p \in Policies : \E v : P!StorePolicy(p, v)
      PROVE  [O!Next]_(O!vars) /\ Agreed'
  BY <1>1, SameOrders DEF orderVars, O!vars
<1>2. CASE /\ \/ P!FixSpec \/ P!RemoveFinalizer \/ P!AddFinalizer \/ P!UpdateStatus
           /\ UNCHANGED orderVars
  <2>1. P!Next
    BY <1>2 DEF P!Next, P!WorkerStep
  <2>2. \E v : \E again : P!PutPolicy(v, again)
    BY <1>2 DEF P!FixSpec, P!RemoveFinalizer, P!AddFinalizer, P!UpdateStatus
  <2>3. maker.pc # "idle"
    BY <1>2 DEF P!FixSpec, P!RemoveFinalizer, P!AddFinalizer, P!UpdateStatus, P!At
  <2>4. maker.policy \in Policies
    BY <2>3 DEF PodInv, PolicySide, PP!TypeInv, PP!Busy
  <2>5. UNCHANGED made \/ \E p \in Policies : \E v : P!StorePolicy(p, v)
    BY <2>2, <2>4 DEF P!PutPolicy
  <2> QED BY <1>1, <1>2, <2>1, <2>5
<1>3. CASE (P!Build \/ P!PruneDone \/ P!DeployDone) /\ UNCHANGED orderVars
  <2>1. P!Next
    BY <1>3 DEF P!Next, P!WorkerStep
  <2>2. UNCHANGED made
    BY <1>3 DEF P!Build, P!PruneDone, P!DeployDone
  <2> QED BY <1>1, <1>3, <2>1, <2>2
<1>4. ASSUME NEW k \in Orders, Deploy(k)
      PROVE  P!Next /\ [O!Next]_(O!vars) /\ Agreed'
  <2>1. P!Next
    BY <1>4 DEF Deploy, P!Next, P!WorkerStep, Orders, P!Orders
  <2> QED BY <1>4, <2>1, DeployedBoth
<1>5. ASSUME NEW k \in Orders, P!Prune(k) \/ P!Collect(k) \/ P!DeleteOrder(k),
             Delete(k)
      PROVE  P!Next /\ [O!Next]_(O!vars) /\ Agreed'
  <2>1. P!Next
    BY <1>5 DEF P!Next, P!WorkerStep, P!Disturbance, Orders, P!Orders
  <2>2. P!Doom(k)
    BY <1>5 DEF P!Prune, P!Collect, P!DeleteOrder
  <2> QED BY <1>5, <2>1, <2>2, DeletedBoth
<1>6. CASE \/ Resync
           \/ P!ApiError /\ UNCHANGED orderVars
           \/ \E p \in Policies : Reconcile(p) \/ DeliverPolicy(p)
  <2>1. P!Next
    BY <1>6 DEF P!Next, P!Disturbance, Resync, Reconcile, DeliverPolicy
  <2>2. UNCHANGED made /\ UNCHANGED orderVars
    BY <1>6 DEF Resync, Reconcile, DeliverPolicy, P!Resync, P!ApiError,
       P!Reconcile, P!DeliverPolicy
  <2> QED BY <1>1, <2>1, <2>2
<1>7. ASSUME NEW p \in Policies, UNCHANGED orderVars,
             \/ P!DeletePolicy(p)
             \/ \E config \in Specs : P!CreatePolicy(p, config)
                                      \/ P!EditPolicy(p, config)
      PROVE  P!Next /\ [O!Next]_(O!vars) /\ Agreed'
  <2>1. P!Next
    BY <1>7 DEF P!Next, P!Disturbance
  <2>2. \E v : P!StorePolicy(p, v)
    BY <1>7 DEF P!DeletePolicy, P!CreatePolicy, P!EditPolicy, P!WritePolicy
  <2> QED BY <1>1, <1>7, <2>1, <2>2
<1> QED BY <1>2, <1>3, <1>4, <1>5, <1>6, <1>7 DEF MakerStep, Users, Collect

\* Somebody else writes the workload, which no order shows.
LEMMA TouchBoth ==
  ASSUME PodInv, Touch
  PROVE  UNCHANGED P!vars /\ O!Next /\ Agreed'
<1>1. UNCHANGED P!vars /\ UNCHANGED made /\ O!Touch
  BY DEF Touch, madeVars, P!vars
<1>2. \A k \in Orders : O!Stored(order'[k]) = O!Stored(order[k])
  BY <1>1 DEF O!Touch, O!WriteTarget
<1> QED BY <1>1, <1>2, SameOrders DEF O!Next, O!Environment

\* What befalls both, but for the clock.
LEMMA ClusterBoth ==
  ASSUME PodInv, Restart \/ \E w \in Workloads : ToggleWorkload(w)
  PROVE  P!Next /\ [O!Next]_(O!vars) /\ Agreed'
<1>1. P!Next /\ UNCHANGED made
  BY DEF Restart, ToggleWorkload, P!Restart, P!ToggleWorkload, P!Next,
     P!Disturbance
<1>2. O!Next
  BY DEF Restart, ToggleWorkload, O!Next, O!Environment
<1>3. \A k \in Orders : O!Stored(order'[k]) = O!Stored(order[k])
  <2>1. \A k \in Orders : order[k] \in O!Versions(O!Order)
                          /\ O!Stored(order[k]) \in O!Order
    BY PodTypes
  <2>2. CASE Restart
    <3>1. ASSUME NEW k \in Orders
          PROVE  O!Stored(order'[k]) = O!Stored(<<O!Stored(order[k])>>)
      BY <2>2 DEF Restart, O!Crash, Orders
    <3> QED BY <2>1, <3>1, PublishStored
  <2>3. CASE \E w \in Workloads : ToggleWorkload(w)
    BY <2>3 DEF ToggleWorkload, O!DeleteTarget, O!CreateTarget, O!WriteTarget
  <2> QED BY <2>2, <2>3
<1> QED BY <1>1, <1>2, <1>3, SameOrders

\* The clock changes no order, and leaves each phase a phase.
LEMMA ClockTypes ==
  ASSUME PodInv, NEW k \in Orders, Tick(k)
  PROVE  Agreed' /\ UNCHANGED P!vars /\ OO!TypeInv'
<1>1. UNCHANGED <<target, order, spoilt, worker, madeVars>>
  BY DEF Tick
<1>2. Agreed' /\ UNCHANGED P!vars
  BY <1>1, SameOrders DEF madeVars, P!vars
<1>3. phase' \in [Orders -> O!Phases]
  BY PodTypes DEF Tick, O!Phases
<1>4. phase' \in [Policies \X Workloads -> OO!Phases]
  BY <1>3 DEF O!Phases, OO!Phases, Orders
<1> QED BY <1>1, <1>2, <1>4 DEF PodInv, OO!TypeInv, OO!TypeOK, OO!Sound

LEMMA PodInit == Init => PodInv
<1> SUFFICES ASSUME Init PROVE PodInv
  OBVIOUS
<1>1. PolicySide
  BY PolicyInit DEF Init
<1>2. OO!Init => OO!TypeInv
  BY OO!InitTypes, OrderAssumptions
<1>3. OO!TypeInv
  BY <1>2, SameOrderSide DEF Init
<1>4. ASSUME NEW k \in Orders
      PROVE  /\ O!Stored(order[k]) = O!GoneOrder /\ made[k] = P!GoneOrder
  BY DEF Init, O!Init, P!Init, O!Stored, Orders, P!Orders
<1>5. Matches(O!GoneOrder, P!GoneOrder) /\ Settled(P!GoneOrder)
  BY DEF Matches, Settled, O!GoneOrder, P!GoneOrder
<1>6. Agreed
  BY <1>4, <1>5 DEF Agreed
<1> QED BY <1>1, <1>3, <1>6 DEF PodInv

LEMMA PodNext ==
  ASSUME PodInv, [Next]_vars
  PROVE  PodInv' /\ [P!Next]_(P!vars)
<1>1. ASSUME P!Next \/ UNCHANGED P!vars, [O!Next]_(O!vars) \/ OO!TypeInv', Agreed'
      PROVE  PodInv' /\ [P!Next]_(P!vars)
  BY <1>1, PolicyNext, OrderNext DEF PodInv
<1>2. CASE \/ MakerStep \/ Resync \/ Users
           \/ P!ApiError /\ UNCHANGED orderVars
           \/ \E p \in Policies : Reconcile(p) \/ DeliverPolicy(p)
           \/ \E k \in Orders : Collect(k)
  BY <1>1, <1>2, MakerBoth
<1>3. CASE Restart \/ \E w \in Workloads : ToggleWorkload(w)
  BY <1>1, <1>3, ClusterBoth
<1>4. CASE WorkerStep \/ \E k \in Orders : CarryOut(k)
  <2>1. Told /\ (O!WorkerStep \/ \E k \in Orders : O!Reconcile(k))
    BY <1>4 DEF WorkerStep, CarryOut
  <2>2. P!Next \/ UNCHANGED P!vars
    BY <2>1, WorkerTold DEF P!Next, Orders, P!Orders
  <2> QED BY <1>1, <2>1, <2>2, WorkerTold, WorkerIsOrder
<1>5. ASSUME NEW k \in Orders, Tick(k) PROVE PodInv' /\ [P!Next]_(P!vars)
  BY <1>1, <1>5, ClockTypes
<1>6. CASE Touch
  BY <1>1, <1>6, TouchBoth
<1>7. CASE UNCHANGED vars
  <2>1. UNCHANGED P!vars /\ UNCHANGED O!vars /\ Agreed'
    BY <1>7, SameOrders DEF vars, madeVars, orderVars, P!vars, O!vars
  <2> QED BY <1>1, <2>1
<1> QED BY <1>2, <1>3, <1>4, <1>5, <1>6, <1>7 DEF Next

LEMMA PodAlways == Spec => []PodInv
<1>1. PodInv /\ [Next]_vars => PodInv'
  BY PodNext
<1> QED BY <1>1, PodInit, PTL DEF Spec

-----------------------------------------------------------------------------
(* What holds of the two together.                                         *)

(***************************************************************************)
(* The two sides keep their types, and see the same orders: whichever      *)
(* controller writes one, and whatever was deleted, released, deployed     *)
(* again or cut short by a restart in between, the other finds it as it    *)
(* was left (sleeppolicy_logic.go, sleeporder_controller.go).              *)
(***************************************************************************)
THEOREM TypeCorrect == Spec => []TypeOK
<1>1. PodInv => TypeOK
  <2> SUFFICES ASSUME PodInv PROVE TypeOK
    OBVIOUS
  <2>1. PP!TypeOK /\ OO!TypeOK
    BY DEF PodInv, PolicySide, PP!TypeInv, OO!TypeInv
  <2>2. P!TypeOK /\ O!TypeOK
    BY <2>1, SamePolicySide, SameOrderSide
  <2> QED BY <2>2 DEF PodInv, Agreed, Matches, TypeOK
<1> QED BY <1>1, PodAlways, PTL

(***************************************************************************)
(* The SleepOrder controller at its work does to the orders nothing but    *)
(* what the model of the policy controller allows for: it adds its         *)
(* finalizer to a live order, takes it off one, or lets one go that is     *)
(* being deleted (handleFinalizer, Reconcile of sleeporder_controller.go). *)
(***************************************************************************)
THEOREM PolicyModelSuffices == Spec => AsPolicyExpects
<1>1. Init => P!Init
  BY DEF Init
<1>2. PodInv /\ [Next]_vars => [UNCHANGED madeVars \/ P!Next]_madeVars
  BY PodNext DEF P!vars, madeVars
<1> QED BY <1>1, <1>2, PodAlways, PTL DEF Spec, AsPolicyExpects

(***************************************************************************)
(* With the SleepOrder controller at work, too, no policy is left waiting  *)
(* for its finalizer, and at rest every order belongs to the policy in     *)
(* force and has the schedule that policy gives its workload now.          *)
(***************************************************************************)
THEOREM PoliciesRule ==
  Spec => [](P!NoneLeftDeleting /\ P!NoRivals /\ P!UpToDate)
<1>1. Spec => PP!Spec
  <2>1. P!Init => PP!Init
    BY SamePolicySide
  <2>2. [UNCHANGED madeVars \/ P!Next]_madeVars => [PP!Next]_(PP!vars)
    BY SamePolicySide DEF madeVars, PP!vars
  <2> QED BY <2>1, <2>2, PolicyModelSuffices, PTL
          DEF AsPolicyExpects, PP!Spec
<1>2. PP!Spec => []PP!NoneLeftDeleting
  BY PP!NoPolicyLeft, PolicyAssumptions
<1>3. PP!Spec => []PP!NoRivals
  BY PP!OnePolicyRules, PolicyAssumptions
<1>4. PP!Spec => []PP!UpToDate
  BY PP!SchedulesUpToDate, PolicyAssumptions
<1>5. PP!NoneLeftDeleting /\ PP!NoRivals /\ PP!UpToDate
      => P!NoneLeftDeleting /\ P!NoRivals /\ P!UpToDate
  BY DEF P!NoneLeftDeleting, PP!NoneLeftDeleting, P!NoRivals, PP!NoRivals,
         P!UpToDate, PP!UpToDate, P!Quiet, PP!Quiet, P!InForce, PP!InForce,
         P!Chosen, PP!Chosen, P!Existing, PP!Existing, P!Effective,
         PP!Effective, P!At, PP!At, P!Orders, PP!Orders, P!Cardinality,
         PP!Cardinality
<1> QED BY <1>1, <1>2, <1>3, <1>4, <1>5, PTL

-----------------------------------------------------------------------------
(* Orders that go.                                                         *)

\* The steps of the pod that are the order controller's.
LEMMA OrderSideHere ==
  O!WorkerStep \/ (\E k \in Orders : O!Reconcile(k)) => OO!Controller
BY SameOrderSide DEF O!Controller, Orders

\* The pod leaves out what a cache that lags would show.
LEMMA NothingOutdated == OO!TypeInv => OO!Synced(target)
BY OO!NoLag, OrderAssumptions

\* A step of the pod is one of the order controller and the cluster around
\* it, or the clock's, which only changes phases.
LEMMA OrderSteps ==
  ASSUME PodInv, [Next]_vars
  PROVE  [OO!Next]_(OO!vars) \/ UNCHANGED <<target, order, spoilt, worker>>
<1>1. ASSUME [O!Next]_(O!vars) PROVE [OO!Next]_(OO!vars)
  BY <1>1, SameOrderSide DEF O!vars, OO!vars
<1>2. CASE \/ MakerStep \/ Resync \/ Users
           \/ P!ApiError /\ UNCHANGED orderVars
           \/ \E p \in Policies : Reconcile(p) \/ DeliverPolicy(p)
           \/ \E k \in Orders : Collect(k)
  BY <1>1, <1>2, MakerBoth
<1>3. CASE Restart \/ \E w \in Workloads : ToggleWorkload(w)
  BY <1>1, <1>3, ClusterBoth
<1>4. CASE WorkerStep \/ \E k \in Orders : CarryOut(k)
  BY <1>1, <1>4, WorkerIsOrder DEF WorkerStep, CarryOut
<1>5. CASE Touch
  BY <1>1, <1>5, TouchBoth
<1>6. CASE UNCHANGED vars \/ \E k \in Orders : Tick(k)
  BY <1>6 DEF Tick, vars, orderVars
<1> QED BY <1>2, <1>3, <1>4, <1>5, <1>6 DEF Next

\* Whatever befalls the pod, its worker knows the workload.
LEMMA KnownNext ==
  ASSUME PodInv, OO!TargetKnown, [Next]_vars
  PROVE  OO!TargetKnown'
<1>1. CASE [OO!Next]_(OO!vars)
  <2>1. OO!TypeInv /\ OO!Synced(target)
    BY NothingOutdated DEF PodInv
  <2> QED BY <1>1, <2>1, OO!KnownNext, OrderAssumptions
<1>2. CASE UNCHANGED <<target, order, spoilt, worker>>
  BY <1>2 DEF OO!TargetKnown, OO!TargetInv, OO!Stored, OO!Knows, OO!Current
<1> QED BY <1>1, <1>2, OrderSteps

\* No step but a deployment and the order controller's takes an order that
\* has the finalizer.
LEMMA HeldStays ==
  ASSUME PodInv, NEW k \in Orders, made[k].fin, ~Deploy(k), [Next]_vars,
         ~WorkerStep, \A l \in Orders : ~CarryOut(l)
  PROVE  made'[k].exists
<1>1. /\ made \in [Orders -> MadeOrder] /\ made[k] \in MadeOrder
      /\ made[k].exists
  <2>1. made \in [Orders -> MadeOrder]
    BY PodTypes
  <2>2. Settled(made[k])
    BY DEF PodInv, Agreed
  <2> QED BY <2>1, <2>2 DEF Settled, P!GoneOrder
<1>2. ASSUME NEW p \in Policies, NEW v, P!StorePolicy(p, v)
      PROVE  made'[k].exists
  <2>1. made'[k] \in {made[k], [made[k] EXCEPT !.orphan = TRUE]}
    BY <1>2 DEF P!StorePolicy, P!Orphaned, P!Orders, Orders
  <2> QED BY <1>1, <2>1 DEF MadeOrder
<1>3. ASSUME NEW l \in Orders, P!Doom(l) PROVE made'[k].exists
  <2>1. \/ made' = made
        \/ made' = [made EXCEPT ![l] =
             P!SettleOrder([made[l] EXCEPT !.deleting = TRUE])]
    BY <1>1, <1>3 DEF P!Doom
  <2>2. CASE made' = made
    BY <1>1, <2>2
  <2>3. CASE made' # made /\ l # k
    BY <1>1, <2>1, <2>3
  <2>4. CASE made' # made /\ l = k
    BY <1>1, <2>1, <2>4 DEF P!SettleOrder, MadeOrder
  <2> QED BY <2>2, <2>3, <2>4
<1>4. CASE UNCHANGED made
  BY <1>1, <1>4
<1>5. CASE P!FixSpec \/ P!RemoveFinalizer \/ P!AddFinalizer \/ P!UpdateStatus
  <2>1. \E v : \E again : P!PutPolicy(v, again)
    BY <1>5 DEF P!FixSpec, P!RemoveFinalizer, P!AddFinalizer, P!UpdateStatus
  <2>2. maker.pc # "idle"
    BY <1>5 DEF P!FixSpec, P!RemoveFinalizer, P!AddFinalizer,
                P!UpdateStatus, P!At
  <2>3. maker.policy \in Policies
    BY <2>2 DEF PodInv, PolicySide, PP!TypeInv, PP!Busy
  <2> QED BY <1>2, <1>4, <2>1, <2>3 DEF P!PutPolicy
<1>6. ASSUME NEW l \in Orders, Deploy(l) PROVE made'[k].exists
  <2>1. l # k
    BY <1>6
  <2>2. made'[k] = made[k]
    BY <1>1, <1>6, <2>1 DEF Deploy, P!Deploy
  <2> QED BY <1>1, <2>2
<1>7. CASE MakerStep
  <2>1. ASSUME P!Build \/ P!PruneDone \/ P!DeployDone PROVE made' = made
    BY <2>1 DEF P!Build, P!PruneDone, P!DeployDone
  <2>2. \A l \in Orders : P!Prune(l) => P!Doom(l)
    BY DEF P!Prune
  <2> QED BY <1>3, <1>4, <1>5, <1>6, <1>7, <2>1, <2>2 DEF MakerStep
<1>8. CASE Users
  <2>1. ASSUME NEW p \in Policies, P!DeletePolicy(p)
        PROVE  \E v : P!StorePolicy(p, v)
    BY <2>1 DEF P!DeletePolicy, P!WritePolicy
  <2>2. ASSUME NEW p \in Policies, NEW config \in Specs,
               P!CreatePolicy(p, config) \/ P!EditPolicy(p, config)
        PROVE  \E v : P!StorePolicy(p, v)
    BY <2>2 DEF P!CreatePolicy, P!EditPolicy, P!WritePolicy
  <2>3. \A l \in Orders : P!DeleteOrder(l) => P!Doom(l)
    BY DEF P!DeleteOrder
  <2> QED BY <1>2, <1>3, <1>8, <2>1, <2>2, <2>3 DEF Users
<1>9. ASSUME NEW l \in Orders, Collect(l) PROVE made'[k].exists
  BY <1>3, <1>9 DEF Collect, P!Collect
<1>10. CASE \/ Resync \/ Restart \/ P!ApiError
            \/ \E p \in Policies : Reconcile(p) \/ DeliverPolicy(p)
            \/ \E l \in Orders : Tick(l)
            \/ \E w \in Workloads : ToggleWorkload(w)
            \/ Touch \/ UNCHANGED vars
  BY <1>4, <1>10
     DEF Resync, Restart, Touch, Reconcile, DeliverPolicy, Tick, ToggleWorkload,
         P!Resync, P!Restart, P!ApiError, P!Reconcile, P!DeliverPolicy,
         P!ToggleWorkload, vars, madeVars
<1> QED BY <1>7, <1>8, <1>9, <1>10 DEF Next

(***************************************************************************)
(* When an order that holds the workload by its finalizer goes, because a  *)
(* policy or a user no longer wants it, the workload runs with the count   *)
(* of its manifest, or is not there, as long as restoreReplicas did not    *)
(* answer 0: handleFinalizer takes its finalizer off only after the        *)
(* workload woke, whoever else writes the workload in between.             *)
(***************************************************************************)
THEOREM DeletionsRestore == Spec => DeletionRestores
<1> DEFINE Inv == PodInv /\ OO!TargetKnown
<1>1. Init => Inv
  <2>1. OO!Init => OO!TargetKnown
    BY OO!KnownStart, OrderAssumptions DEF OO!TargetKnown
  <2> QED BY <2>1, SameOrderSide, PodInit DEF Init
<1>2. Inv /\ [Next]_vars => Inv'
  BY PodNext, KnownNext
<1>3. ASSUME Inv, [Next]_vars, NEW k \in Orders, made[k].fin, ~spoilt,
             ~made'[k].exists, O!Stored(target').exists, ~Deploy(k)
      PROVE  O!Stored(target').replicas = Replicas
  <2>1. WorkerStep \/ \E l \in Orders : CarryOut(l)
    BY <1>3, HeldStays
  <2>2. OO!Controller
    BY <2>1, OrderSideHere DEF WorkerStep, CarryOut
  <2>3. OO!LetsGoAwake
    <3>1. OO!Next
      BY <2>2 DEF OO!Next
    <3>2. OO!TypeInv /\ OO!TargetKnown /\ OO!Synced(target)
      BY <1>3, NothingOutdated DEF PodInv
    <3> QED BY <1>3, <2>2, <3>1, <3>2, OO!KnownNext, OrderAssumptions
  <2>4. OO!Stored(order[k]).exists /\ ~OO!Stored(order'[k]).exists
    <3>1. PodInv /\ PodInv'
      BY <1>2, <1>3
    <3> QED BY <1>3, <3>1 DEF PodInv, Agreed, Matches, Settled,
                              P!GoneOrder, O!Stored, OO!Stored
  <2> QED BY <1>3, <2>3, <2>4
          DEF OO!LetsGoAwake, O!Stored, OO!Stored, Orders
<1>4. Inv /\ [Next]_vars =>
        [\A k \in Orders :
           /\ made[k].fin /\ ~made'[k].exists /\ O!Stored(target').exists
           /\ ~spoilt /\ ~Deploy(k)
           => O!Stored(target').replicas = Replicas]_vars
  BY <1>3
<1> QED BY <1>1, <1>2, <1>4, PTL DEF Spec, DeletionRestores

-----------------------------------------------------------------------------
(* The count.                                                              *)

(***************************************************************************)
(* Policies that take over from one another, updates of orders that drop   *)
(* their finalizer under the worker's hands, deletions, restarts, others   *)
(* who write the workload and its own going and coming: none of them loses *)
(* the count, and no status reports another, as long as restoreReplicas    *)
(* did not answer 0 (snapshotReplicas, restoreReplicas and updateStatus of *)
(* sleeporder_controller.go).                                              *)
(***************************************************************************)
THEOREM CountSurvives == Spec => []CountKept
<1> DEFINE Inv == PodInv /\ OO!Counted /\ OO!Reported
<1>1. Init => Inv
  <2>1. OO!Init => OO!Counted /\ OO!Reported
    BY OO!CountSteps, OO!StatusSteps, OrderAssumptions
  <2> QED BY <2>1, SameOrderSide, PodInit DEF Init
<1>2. Inv /\ [Next]_vars => Inv'
  <2> SUFFICES ASSUME Inv, [Next]_vars PROVE OO!Counted' /\ OO!Reported'
    BY PodNext
  <2>1. CASE [OO!Next]_(OO!vars)
    <3>1. OO!TypeInv
      BY DEF PodInv
    <3> QED BY <2>1, <3>1, OO!CountSteps, OO!StatusSteps, OrderAssumptions
  <2>2. CASE UNCHANGED <<target, order, spoilt, worker>>
    BY <2>2 DEF OO!Counted, OO!CountInv, OO!Reported, OO!StatusInv
  <2> QED BY <2>1, <2>2, OrderSteps
<1>3. Inv => CountKept
  <2>1. OO!Counted /\ OO!Reported => OO!Recoverable /\ OO!StatusOriginal
    BY OO!CountSteps, OO!StatusSteps, OrderAssumptions
  <2>2. /\ OO!Recoverable <=> O!Recoverable
        /\ OO!StatusOriginal <=> O!StatusOriginal
    BY DEF OO!Recoverable, O!Recoverable, OO!RecoverableAs, O!RecoverableAs,
           OO!StatusOriginal, O!StatusOriginal, OO!Stored, O!Stored
  <2> QED BY <2>1, <2>2 DEF CountKept
<1> QED BY <1>1, <1>2, <1>3, PTL DEF Spec

(***************************************************************************)
(* In the pod, too, the annotation that the order controller removes is    *)
(* the count the workload then runs with, whatever the policies do and     *)
(* whoever else annotates the workload.                                    *)
(***************************************************************************)
THEOREM RestoresExactly == Spec => O!RestoreExact
<1> DEFINE Inv == PodInv /\ OO!FreshInv
<1>1. Init => Inv
  <2>1. OO!Init => OO!FreshInv
    BY OO!FreshSteps, OrderAssumptions
  <2> QED BY <2>1, SameOrderSide, PodInit DEF Init
<1>2. Inv /\ [Next]_vars => Inv'
  <2> SUFFICES ASSUME Inv, [Next]_vars PROVE OO!FreshInv'
    BY PodNext
  <2>1. CASE [OO!Next]_(OO!vars)
    <3>1. OO!TypeInv
      BY DEF PodInv
    <3> QED BY <2>1, <3>1, OO!FreshSteps, OrderAssumptions
  <2>2. CASE UNCHANGED <<target, order, spoilt, worker>>
    BY <2>2 DEF OO!FreshInv, OO!Stored
  <2> QED BY <2>1, <2>2, OrderSteps
<1>3. Inv /\ [Next]_vars =>
        [LET old == O!Stored(target)
             new == O!Stored(target')
         IN O!Controller /\ old.saved \in Nat /\ new.saved = None
              => new.replicas = old.saved]_(O!vars)
  <2> SUFFICES ASSUME Inv, O!Controller, O!Stored(target).saved \in Nat,
                      O!Stored(target').saved = None
               PROVE  O!Stored(target').replicas = O!Stored(target).saved
    OBVIOUS
  <2>1. OO!Controller /\ OO!TypeInv
    BY SameOrderSide DEF PodInv
  <2>2. OO!ExactStep
    BY <2>1, OO!ControllerExact, OrderAssumptions
  <2> QED BY <2>2 DEF OO!ExactStep, OO!Stored, O!Stored
<1> QED BY <1>1, <1>2, <1>3, PTL DEF Spec, O!RestoreExact
=============================================================================
