-------------------------- MODULE SleepPolicyProofs --------------------------
(***************************************************************************)
(* The types of the SleepPolicy controller, that no policy is left waiting *)
(* for its finalizer, and that at rest every order is one the policy in    *)
(* force asks for, with its present schedule: for any policies, workloads, *)
(* users, errors and restarts.                                             *)
(***************************************************************************)
EXTENDS SleepPolicy, FiniteSetTheorems, TLAPS

-----------------------------------------------------------------------------
(* The inductive invariant.                                                *)

Policy == [exists : BOOLEAN, deleting : BOOLEAN, fin : BOOLEAN,
           config : Config, status : Managing]
Order == [exists : BOOLEAN, deleting : BOOLEAN, fin : BOOLEAN,
          params : Params \cup {None}, orphan : BOOLEAN]
Steps == {"fix", "unfin", "addFin", "build", "prune", "deploy", "status"}
Worker == [pc : Steps \cup {"idle"}, req : Policies \cup {None},
           policy : Policies \cup {None}, copy : Policy, fresh : BOOLEAN,
           desired : Managing, todo : SUBSET Orders]

Busy == worker.pc # "idle"
AtWork == worker.pc \in {"build", "prune", "deploy", "status"}

\* A worker that does something does it for a policy, on a request.
TypeInv ==
  /\ TypeOK
  /\ worker \in Worker
  /\ Busy => worker.req \in Policies /\ worker.policy \in Policies

\* What is stored, or was.
Whole(v) == (v.deleting => v.fin) /\ (v.fin => v.exists)

ObjectsWhole ==
  /\ \A p \in Policies : Whole(policy[p]) /\ Whole(pcache[p])
  /\ Busy => Whole(worker.copy) /\ worker.copy.exists

\* Which copies a step is reached with.
StepsFit ==
  /\ At("unfin") => worker.copy.deleting
  /\ At("addFin") \/ AtWork => ~worker.copy.deleting
  /\ AtWork => worker.copy.fin

\* A copy the API server would accept is the stored policy, but for what the
\* controller has added to its config.
FreshCopy ==
  Busy /\ worker.fresh =>
    /\ pcache[worker.policy] = policy[worker.policy]
    /\ worker.copy = [policy[worker.policy] EXCEPT !.config = worker.copy.config]
    /\ At("fix") <=> worker.copy.config # policy[worker.policy].config

\* A deletion in the cache is requested, or being handled, or was done.
DeletionsSeen ==
  \A p \in Policies :
    pcache[p].deleting =>
      \/ p \in queue
      \/ /\ worker.pc \in {"fix", "unfin"}
         /\ worker.req = p /\ worker.policy = p
      \/ ~policy[p].fin

PolicyInv == ObjectsWhole /\ StepsFit /\ FreshCopy /\ DeletionsSeen

\* The finalizer holds a policy the worker makes orders for.
HeldPolicy ==
  /\ \A p \in Policies : pcache[p].fin /\ ~pcache[p].deleting => policy[p].fin
  /\ AtWork => policy[worker.policy].fin

\* An order has its policy, or is left to the garbage collector.
Owned ==
  \A k \in Orders : order[k].exists => order[k].orphan \/ policy[k[1]].exists

\* With no request left, the worker acts on what the cache still shows.
CurrentCopy ==
  Busy /\ queue = {} =>
    /\ worker.policy = Fetch(worker.req)
    /\ worker.copy = [pcache[worker.policy] EXCEPT !.config = worker.copy.config]
    /\ ~At("fix") => worker.copy.config = pcache[worker.policy].config

\* An order as policy p, with that config, asks for it.
Asked(k, p, config) ==
  k[1] = p /\ order[k].params = Effective(config, k[2])

Settled(k) ==
  order[k].deleting \/ Asked(k, worker.policy, worker.copy.config)

\* What is left to do at each step of the worker.
StageInv ==
  /\ worker.pc \in {"prune", "deploy", "status"} =>
       \A w \in Workloads :
         worker.desired[w] \in {None, Effective(worker.copy.config, w)}
  /\ At("prune") =>
       \A k \in Existing(order) \ worker.todo :
         \/ order[k].deleting
         \/ k[1] = worker.policy /\ worker.desired[k[2]] # None
  /\ At("deploy") =>
       /\ \A k \in worker.todo :
            k[1] = worker.policy /\ worker.desired[k[2]] # None
       /\ \A k \in Existing(order) \ worker.todo : Settled(k)
  /\ At("status") => \A k \in Existing(order) : Settled(k)

\* What is done at rest, but for deletions still on their way.
RestInv ==
  LET p == Chosen(Existing(pcache))
  IN At("idle") /\ queue = {} /\ Existing(pcache) # {}
     /\ (\A q \in Policies : ~pcache[q].deleting)
     => \A k \in Existing(order) :
          order[k].deleting \/ Asked(k, p, pcache[p].config)

OrderInv ==
  /\ ocache = order
  /\ HeldPolicy /\ Owned /\ CurrentCopy /\ StageInv /\ RestInv

-----------------------------------------------------------------------------
(* The operators' types.                                                   *)

WorkerOK(wk) ==
  /\ wk \in Worker
  /\ wk.pc # "idle" => wk.req \in Policies /\ wk.policy \in Policies

\* TypeInv, one variable at a time.
LEMMA TypeParts ==
  TypeInv <=> /\ workloads \subseteq Workloads
              /\ policy \in [Policies -> Policy] /\ pcache \in [Policies -> Policy]
              /\ order \in [Orders -> Order] /\ ocache \in [Orders -> Order]
              /\ queue \subseteq Policies
              /\ WorkerOK(worker)
              /\ edits \in 0..MaxEdits
BY DEF TypeInv, TypeOK, WorkerOK, Worker, Busy, Policy, Order

LEMMA TypesStay ==
  ASSUME workloads' \subseteq Workloads,
         policy' \in [Policies -> Policy], pcache' \in [Policies -> Policy],
         order' \in [Orders -> Order], ocache' \in [Orders -> Order],
         queue' \subseteq Policies, WorkerOK(worker'), edits' \in 0..MaxEdits
  PROVE  TypeInv'
BY DEF TypeInv, TypeOK, WorkerOK, Worker, Busy, Policy, Order

\* What is not there, and the worker at rest.
LEMMA GoneTypes ==
  /\ Nothing \in Managing
  /\ GonePolicy \in Policy /\ ~GonePolicy.exists /\ ~GonePolicy.deleting
  /\ ~GonePolicy.fin
  /\ GoneOrder \in Order /\ ~GoneOrder.exists
  /\ WorkerOK(Idle) /\ Idle.pc = "idle"
<1>1. Nothing \in Managing
  BY DEF Nothing, Managing
<1>2. [key \in Keys |-> None] \in Config
  BY DEF Config, Entries
<1>3. GonePolicy \in Policy
  BY <1>1, <1>2 DEF GonePolicy, Policy
<1>4. GoneOrder \in Order
  BY DEF GoneOrder, Order
<1>5. WorkerOK(Idle) /\ Idle.pc = "idle"
  BY <1>1, <1>3 DEF WorkerOK, Idle, Worker
<1> QED BY <1>1, <1>3, <1>4, <1>5 DEF GonePolicy, GoneOrder

\* A config, completed or asked for an entry, gives entries.
LEMMA ConfigTypes ==
  ASSUME NEW config \in Config, NEW ws
  PROVE  /\ \A w \in Workloads : Effective(config, w) \in Entries
         /\ Desired(config, ws) \in Managing
         /\ Complete(config, ws) \in Config
<1>1. \A w \in Workloads : Effective(config, w) \in Entries
  BY SleepPolicyAssumption DEF Effective, Config, Keys
<1>2. Desired(config, ws) \in Managing
  BY <1>1 DEF Desired, Managing
<1>3. Added \in Entries
  BY SleepPolicyAssumption DEF Entries
<1>4. Complete(config, ws) \in Config
  BY <1>3 DEF Complete, Config
<1> QED BY <1>1, <1>2, <1>4

\* The policy in force among some is one of them.
LEMMA ChosenIsOne ==
  ASSUME NEW ps \in SUBSET Policies
  PROVE  Chosen(ps) \in ps \cup {None}
<1>1. CASE ps = {}
  BY <1>1, FS_EmptySet DEF Chosen
<1>2. CASE ps # {} /\ ps \ {Default} = {}
  BY <1>2 DEF Chosen
<1>3. CASE ps \ {Default} # {}
  BY <1>3 DEF Chosen
<1> QED BY <1>1, <1>2, <1>3

\* What is fetched is in the cache.
LEMMA FetchTypes ==
  ASSUME TypeInv, NEW req \in Policies
  PROVE  /\ Existing(pcache) \subseteq Policies
         /\ Fetch(req) \in Existing(pcache) \cup {None}
<1>1. Existing(pcache) \subseteq Policies
  BY TypeParts DEF Existing
<1>2. CASE pcache[req].exists /\ pcache[req].deleting
  BY <1>2, TypeParts DEF Fetch, Existing
<1>3. CASE ~(pcache[req].exists /\ pcache[req].deleting)
  BY <1>1, <1>3, ChosenIsOne DEF Fetch
<1> QED BY <1>1, <1>2, <1>3

-----------------------------------------------------------------------------
(* Types.                                                                  *)

LEMMA InformedTypes ==
  ASSUME TypeInv, order' \in [Orders -> Order], Informed
  PROVE  ocache' \in [Orders -> Order]
BY TypeParts DEF Informed

LEMMA StorePolicyTypes ==
  ASSUME TypeInv, NEW p \in Policies, NEW v \in Policy, StorePolicy(p, v)
  PROVE  /\ policy' \in [Policies -> Policy] /\ order' \in [Orders -> Order]
         /\ ocache' \in [Orders -> Order]
<1>1. policy' \in [Policies -> Policy]
  BY TypeParts, GoneTypes DEF StorePolicy, SettlePolicy
<1>2. \A k \in Orders : order'[k] \in Order
  BY TypeParts DEF StorePolicy, Orphaned, Order
<1>3. order' \in [Orders -> Order]
  BY <1>2 DEF StorePolicy, Orphaned
<1> QED BY <1>1, <1>3, InformedTypes DEF StorePolicy

LEMMA ReturnTypes ==
  ASSUME TypeInv, Busy, NEW again \in BOOLEAN, Return(again)
  PROVE  WorkerOK(worker') /\ queue' \subseteq Policies
BY TypeParts, GoneTypes DEF Return, WorkerOK, Busy

LEMMA PutPolicyTypes ==
  ASSUME TypeInv, Busy, NEW v \in Policy, NEW again \in BOOLEAN,
         PutPolicy(v, again)
  PROVE  TypeInv'
<1> DEFINE taken == policy[worker.policy].exists /\ worker.fresh
<1>1. WorkerOK(worker') /\ queue' \subseteq Policies
  <2>1. Return(again \/ ~taken) /\ (again \/ ~taken) \in BOOLEAN
    BY DEF PutPolicy
  <2> QED BY <2>1, ReturnTypes
<1>2. worker.policy \in Policies
  BY DEF TypeInv
<1>3. /\ policy' \in [Policies -> Policy] /\ order' \in [Orders -> Order]
      /\ ocache' \in [Orders -> Order]
  BY <1>2, TypeParts, StorePolicyTypes DEF PutPolicy
<1> QED BY <1>1, <1>3, TypeParts, TypesStay DEF PutPolicy

LEMMA DoomTypes ==
  ASSUME TypeInv, NEW k \in Orders, Doom(k), Informed
  PROVE  order' \in [Orders -> Order] /\ ocache' \in [Orders -> Order]
<1>1. SettleOrder([order[k] EXCEPT !.deleting = TRUE]) \in Order
  BY TypeParts, GoneTypes DEF SettleOrder, Order
<1>2. order' \in [Orders -> Order]
  BY <1>1, TypeParts DEF Doom
<1> QED BY <1>2, InformedTypes

LEMMA ReconcileTypes ==
  ASSUME TypeInv, NEW req \in Policies, Reconcile(req) PROVE TypeInv'
<1> DEFINE p == Fetch(req)
           config == Complete(pcache[p].config, workloads)
<1>1. CASE p = None
  BY <1>1, TypeParts, TypesStay, GoneTypes DEF Reconcile
<1>2. CASE p # None
  <2>1. p \in Policies /\ pcache[p] \in Policy
    BY <1>2, FetchTypes, TypeParts
  <2>2. config \in Config
    BY <2>1, ConfigTypes DEF Policy
  <2>3. [pcache[p] EXCEPT !.config = config] \in Policy
    BY <2>1, <2>2 DEF Policy
  <2>4. /\ worker'.pc \in Steps /\ worker'.policy = p /\ worker'.req = req
        /\ worker' \in Worker
    BY <1>2, <2>1, <2>3, GoneTypes DEF Reconcile, Idle, Worker, Steps
  <2> QED BY <2>1, <2>4, <1>2, TypeParts, TypesStay DEF Reconcile, WorkerOK
<1> QED BY <1>1, <1>2

LEMMA WriteTypes ==
  ASSUME TypeInv, FixSpec \/ RemoveFinalizer \/ AddFinalizer \/ UpdateStatus
  PROVE  TypeInv'
<1>1. worker.copy \in Policy /\ worker.desired \in Managing
  BY TypeParts DEF WorkerOK, Worker
<1>2. /\ [worker.copy EXCEPT !.fin = FALSE] \in Policy
      /\ [worker.copy EXCEPT !.fin = TRUE] \in Policy
      /\ [worker.copy EXCEPT !.status = worker.desired] \in Policy
  BY <1>1 DEF Policy
<1>3. Busy
  BY DEF FixSpec, RemoveFinalizer, AddFinalizer, UpdateStatus, At, Busy
<1> QED BY <1>1, <1>2, <1>3, PutPolicyTypes
        DEF FixSpec, RemoveFinalizer, AddFinalizer, UpdateStatus

LEMMA BuildTypes ==
  ASSUME TypeInv, Build \/ PruneDone \/ DeployDone PROVE TypeInv'
<1>1. worker \in Worker /\ worker.policy \in Policies \cup {None}
  BY TypeParts DEF WorkerOK, Worker
<1>2. CASE Build
  <2>1. Desired(worker.copy.config, workloads) \in Managing
    BY <1>1, ConfigTypes DEF Worker, Policy
  <2>2. Existing(ocache) \subseteq Orders
    BY TypeParts DEF Existing
  <2>3. WorkerOK(worker')
    BY <1>2, <2>1, <2>2, TypeParts DEF Build, WorkerOK, Worker, Steps, At
  <2> QED BY <1>2, <2>3, TypeParts, TypesStay DEF Build
<1>3. CASE PruneDone
  <2>1. worker.policy \in Policies
    BY <1>3 DEF TypeInv, Busy, PruneDone, At
  <2>2. {worker.policy} \X {w \in Workloads : worker.desired[w] # None}
          \subseteq Orders
    BY <2>1 DEF Orders
  <2>3. WorkerOK(worker')
    BY <1>3, <2>2, TypeParts DEF PruneDone, WorkerOK, Worker, Steps, At
  <2> QED BY <1>3, <2>3, TypeParts, TypesStay DEF PruneDone
<1>4. CASE DeployDone
  <2>1. Busy
    BY <1>4 DEF DeployDone, At, Busy
  <2>2. CASE Return(FALSE)
    BY <1>4, <2>1, <2>2, ReturnTypes, TypeParts, TypesStay DEF DeployDone
  <2>3. CASE Goto("status") /\ UNCHANGED queue
    <3>1. WorkerOK(worker')
      BY <1>4, <2>3, TypeParts DEF DeployDone, Goto, WorkerOK, Worker, Steps, At
    <3> QED BY <1>4, <2>3, <3>1, TypeParts, TypesStay DEF DeployDone
  <2> QED BY <1>4, <2>2, <2>3 DEF DeployDone
<1> QED BY <1>2, <1>3, <1>4

LEMMA DeployTypes ==
  ASSUME TypeInv, NEW k \in Orders, Prune(k) \/ Deploy(k) PROVE TypeInv'
<1>1. Busy
  BY DEF Prune, Deploy, At, Busy
<1>2. WorkerOK([worker EXCEPT !.todo = @ \ {k}])
  BY TypeParts DEF WorkerOK, Worker
<1>3. CASE Prune(k)
  BY <1>2, <1>3, DoomTypes, TypeParts, TypesStay DEF Prune
<1>4. CASE Deploy(k)
  <2> DEFINE params == worker.desired[k[2]]
             new == IF ocache[k].exists
                    THEN SettleOrder([order[k] EXCEPT !.params = params,
                                        !.orphan = FALSE, !.fin = FALSE])
                    ELSE [GoneOrder EXCEPT !.exists = TRUE, !.params = params]
  <2>1. params \in Params \cup {None}
    BY TypeParts DEF WorkerOK, Worker, Managing, Orders
  <2>2. new \in Order
    BY <2>1, TypeParts, GoneTypes DEF SettleOrder, Order
  <2>3. CASE UNCHANGED <<order, ocache>> /\ Return(TRUE)
    BY <1>1, <1>4, <2>3, ReturnTypes, TypeParts, TypesStay DEF Deploy
  <2>4. CASE /\ worker' = [worker EXCEPT !.todo = @ \ {k}] /\ UNCHANGED queue
             /\ \/ UNCHANGED <<order, ocache>>
                \/ order' = [order EXCEPT ![k] = new] /\ Informed
    <3>1. order' \in [Orders -> Order]
      BY <2>2, <2>4, TypeParts
    <3>2. ocache' \in [Orders -> Order]
      BY <2>4, <3>1, InformedTypes, TypeParts
    <3> QED BY <1>2, <1>4, <2>4, <3>1, <3>2, TypeParts, TypesStay DEF Deploy
  <2> QED BY <1>4, <2>3, <2>4 DEF Deploy
<1> QED BY <1>3, <1>4

LEMMA WritePolicyTypes ==
  ASSUME TypeInv, NEW p \in Policies, NEW v \in Policy, WritePolicy(p, v)
  PROVE  TypeInv'
<1>1. worker \in Worker /\ WorkerOK([worker EXCEPT !.fresh = FALSE])
  BY TypeParts DEF WorkerOK, Worker
<1>2. WorkerOK(worker')
  BY <1>1, TypeParts DEF WritePolicy
<1>3. edits' \in 0..MaxEdits
  BY TypeParts, SleepPolicyAssumption DEF WritePolicy, Disturbed
<1> QED BY <1>2, <1>3, StorePolicyTypes, TypeParts, TypesStay DEF WritePolicy

\* What the users and the other controllers do.
LEMMA ElsewhereTypes ==
  TypeInv =>
    /\ \A p \in Policies : DeliverPolicy(p) => TypeInv'
    /\ Resync \/ Disturbance => TypeInv'
    /\ \A k \in Orders :
         \/ DeliverOrder(k) \/ HoldOrder(k) \/ ForgoOrder(k)
         \/ ReleaseOrder(k) \/ Collect(k)
         => TypeInv'
<1>1. ASSUME TypeInv, NEW p \in Policies, DeliverPolicy(p) PROVE TypeInv'
  BY <1>1, TypeParts, TypesStay DEF DeliverPolicy
<1>2. ASSUME TypeInv, Resync PROVE TypeInv'
  BY <1>2, TypeParts, TypesStay DEF Resync, Existing
<1>3. ASSUME TypeInv, NEW k \in Orders,
             \/ DeliverOrder(k) \/ HoldOrder(k) \/ ForgoOrder(k)
             \/ ReleaseOrder(k) \/ Collect(k)
      PROVE  TypeInv'
  <2>1. order[k] \in Order
    BY <1>3, TypeParts
  <2>2. CASE DeliverOrder(k)
    BY <1>3, <2>2, TypeParts, TypesStay DEF DeliverOrder
  <2>3. CASE Collect(k)
    BY <1>3, <2>3, DoomTypes, TypeParts, TypesStay DEF Collect, Elsewhere
  <2>4. CASE HoldOrder(k) \/ ForgoOrder(k) \/ ReleaseOrder(k)
    <3>1. /\ [order[k] EXCEPT !.fin = TRUE] \in Order
          /\ [order[k] EXCEPT !.fin = FALSE] \in Order
      BY <2>1 DEF Order
    <3>2. \E v \in Order : order' = [order EXCEPT ![k] = v]
      BY <2>4, <3>1, GoneTypes DEF HoldOrder, ForgoOrder, ReleaseOrder
    <3>3. order' \in [Orders -> Order]
      BY <1>3, <3>2, TypeParts
    <3>4. Informed /\ Elsewhere
      BY <2>4 DEF HoldOrder, ForgoOrder, ReleaseOrder
    <3> QED BY <1>3, <3>3, <3>4, InformedTypes, TypeParts, TypesStay
            DEF Elsewhere
  <2> QED BY <1>3, <2>2, <2>3, <2>4
<1>4. ASSUME TypeInv, Disturbance PROVE TypeInv'
  <2> USE <1>4
  <2>1. ASSUME NEW p \in Policies,
               \/ DeletePolicy(p)
               \/ \E config \in Specs : CreatePolicy(p, config)
                                        \/ EditPolicy(p, config)
        PROVE  TypeInv'
    <3>1. policy[p] \in Policy /\ Specs \subseteq Config
      BY TypeParts, SleepPolicyAssumption
    <3>2. CASE DeletePolicy(p)
      <4>1. [policy[p] EXCEPT !.deleting = TRUE] \in Policy
        BY <3>1 DEF Policy
      <4> QED BY <3>2, <4>1, WritePolicyTypes DEF DeletePolicy
    <3>3. ASSUME NEW config \in Specs, CreatePolicy(p, config) PROVE TypeInv'
      <4>1. [GonePolicy EXCEPT !.exists = TRUE, !.config = config] \in Policy
        BY <3>1, GoneTypes DEF Policy
      <4> QED BY <3>3, <4>1, WritePolicyTypes DEF CreatePolicy
    <3>4. ASSUME NEW config \in Specs, EditPolicy(p, config) PROVE TypeInv'
      <4>1. [policy[p] EXCEPT !.config = config] \in Policy
        BY <3>1 DEF Policy
      <4> QED BY <3>4, <4>1, WritePolicyTypes DEF EditPolicy
    <3> QED BY <2>1, <3>2, <3>3, <3>4
  <2>2. ASSUME NEW kind, Disturbed(kind) PROVE edits' \in 0..MaxEdits
    BY <2>2, TypeParts, SleepPolicyAssumption DEF Disturbed
  <2>3. ASSUME NEW w \in Workloads, ToggleWorkload(w) PROVE TypeInv'
    BY <2>2, <2>3, TypeParts, TypesStay DEF ToggleWorkload
  <2>4. ASSUME NEW k \in Orders, DeleteOrder(k) PROVE TypeInv'
    BY <2>2, <2>4, DoomTypes, TypeParts, TypesStay DEF DeleteOrder
  <2>5. CASE ApiError
    <3>1. Busy /\ Return(TRUE)
      BY <2>5 DEF ApiError, At, Busy
    <3> QED BY <2>2, <2>5, <3>1, ReturnTypes, TypeParts, TypesStay DEF ApiError
  <2>6. CASE Restart
    BY <2>2, <2>6, GoneTypes, TypeParts, TypesStay DEF Restart, Existing
  <2> QED BY <2>1, <2>3, <2>4, <2>5, <2>6 DEF Disturbance
<1> QED BY <1>1, <1>2, <1>3, <1>4

LEMMA InitTypes == Init => TypeInv
<1> SUFFICES ASSUME Init PROVE TypeInv
  OBVIOUS
<1>1. policy \in [Policies -> Policy] /\ order \in [Orders -> Order]
  BY GoneTypes DEF Init
<1>2. edits \in 0..MaxEdits
  BY SleepPolicyAssumption DEF Init
<1> QED BY <1>1, <1>2, GoneTypes, TypeParts DEF Init

LEMMA NextTypes == TypeInv /\ [Next]_vars => TypeInv'
<1> SUFFICES ASSUME TypeInv, [Next]_vars PROVE TypeInv'
  OBVIOUS
<1>1. CASE \E p \in Policies : Reconcile(p) \/ DeliverPolicy(p)
  BY <1>1, ReconcileTypes, ElsewhereTypes
<1>2. CASE WorkerStep
  BY <1>2, WriteTypes, BuildTypes, DeployTypes DEF WorkerStep
<1>3. CASE Resync \/ Disturbance
  BY <1>3, ElsewhereTypes
<1>4. CASE \E k \in Orders : \/ DeliverOrder(k) \/ HoldOrder(k) \/ ForgoOrder(k)
                             \/ ReleaseOrder(k) \/ Collect(k)
  BY <1>4, ElsewhereTypes
<1>5. CASE UNCHANGED vars
  BY <1>5, TypeParts, TypesStay DEF vars
<1> QED BY <1>1, <1>2, <1>3, <1>4, <1>5 DEF Next

(***************************************************************************)
(* Types: what is stored, cached, queued and held by the worker stays what *)
(* the code can write (sleeppolicy_controller.go, sleeppolicy_logic.go).   *)
(***************************************************************************)
THEOREM TypeCorrect == Spec => []TypeOK
<1>1. TypeInv => TypeOK
  BY DEF TypeInv
<1> QED BY <1>1, InitTypes, NextTypes, PTL DEF Spec

-----------------------------------------------------------------------------
(* No policy is left waiting.                                              *)

LEMMA StoredIsWhole ==
  ASSUME NEW v \in Policy, v.fin => v.exists
  PROVE  Whole(SettlePolicy(v))
BY GoneTypes DEF Policy, SettlePolicy, Whole

\* The steps that leave the policies, and what the worker has of one, alone.
LEMMA AsidePolicy ==
  ASSUME TypeInv, PolicyInv, UNCHANGED <<policy, pcache>>,
         queue \subseteq queue',
         \/ UNCHANGED worker
         \/ /\ AtWork /\ AtWork' /\ worker'.req = worker.req
            /\ worker'.policy = worker.policy /\ worker'.copy = worker.copy
            /\ worker'.fresh = worker.fresh
         \/ /\ Busy /\ worker' = Idle
            /\ worker.req \in queue' \/ AtWork
  PROVE  PolicyInv'
<1>1. CASE UNCHANGED worker
  BY <1>1 DEF PolicyInv, ObjectsWhole, StepsFit, FreshCopy, DeletionsSeen, Busy,
              AtWork, At
<1>2. CASE /\ AtWork /\ AtWork' /\ worker'.req = worker.req
           /\ worker'.policy = worker.policy /\ worker'.copy = worker.copy
           /\ worker'.fresh = worker.fresh
  BY <1>2 DEF PolicyInv, ObjectsWhole, StepsFit, FreshCopy, DeletionsSeen, Busy,
              AtWork, At
<1>3. CASE /\ Busy /\ worker' = Idle
           /\ worker.req \in queue' \/ AtWork
  BY <1>3, GoneTypes DEF PolicyInv, ObjectsWhole, StepsFit, FreshCopy,
                         DeletionsSeen, Busy, AtWork, At
<1> QED BY <1>1, <1>2, <1>3

\* A write of the worker: of the finalizer, its last.
LEMMA PutPolicyKeeps ==
  ASSUME TypeInv, PolicyInv, Busy, NEW v \in Policy, NEW again \in BOOLEAN,
         v.exists, PutPolicy(v, again),
         again \/ AtWork \/ (v.deleting /\ ~v.fin)
  PROVE  PolicyInv'
<1> DEFINE q == worker.policy
           taken == policy[q].exists /\ worker.fresh
<1>1. q \in Policies
  BY DEF TypeInv
<1>2. CASE ~taken
  BY <1>2, TypeParts, AsidePolicy DEF PutPolicy, Return
<1>3. CASE taken
  <2>1. policy' = [policy EXCEPT ![q] = SettlePolicy(v)] /\ pcache' = pcache
    BY <1>3 DEF PutPolicy, StorePolicy
  <2>2. worker' = Idle /\ queue' = IF again THEN queue \cup {worker.req} ELSE queue
    BY <1>3 DEF PutPolicy, Return
  <2>3. (ObjectsWhole /\ StepsFit /\ FreshCopy)'
    BY <1>1, <2>1, <2>2, StoredIsWhole, GoneTypes, TypeParts
       DEF PolicyInv, ObjectsWhole, StepsFit, FreshCopy, Busy, At, AtWork
  <2>4. ASSUME NEW p \in Policies, pcache[p].deleting, p \notin queue'
        PROVE  ~policy'[p].fin
    <3>1. CASE ~policy[p].fin
      <4>1. pcache[p].fin
        BY <2>4 DEF PolicyInv, ObjectsWhole, Whole
      <4>2. pcache[q] = policy[q]
        BY <1>3 DEF PolicyInv, FreshCopy
      <4> QED BY <2>1, <3>1, <4>1, <4>2, TypeParts
    <3>2. CASE /\ worker.pc \in {"fix", "unfin"}
               /\ worker.req = p /\ worker.policy = p
      <4>1. v.deleting /\ ~v.fin
        BY <2>2, <2>4, <3>2 DEF AtWork
      <4> QED BY <2>1, <3>2, <4>1, TypeParts, GoneTypes DEF SettlePolicy
    <3> QED BY <2>2, <2>4, <3>1, <3>2 DEF PolicyInv, DeletionsSeen
  <2>5. DeletionsSeen'
    BY <2>1, <2>4 DEF DeletionsSeen
  <2> QED BY <2>3, <2>5 DEF PolicyInv
<1> QED BY <1>2, <1>3

LEMMA WriteKeeps ==
  ASSUME TypeInv, PolicyInv,
         FixSpec \/ RemoveFinalizer \/ AddFinalizer \/ UpdateStatus
  PROVE  PolicyInv'
<1>1. worker.copy \in Policy /\ worker.desired \in Managing
  BY TypeParts DEF WorkerOK, Worker
<1>2. Busy /\ worker.copy.exists
  BY DEF FixSpec, RemoveFinalizer, AddFinalizer, UpdateStatus, At, Busy,
         PolicyInv, ObjectsWhole
<1>3. CASE FixSpec
  BY <1>1, <1>2, <1>3, PutPolicyKeeps DEF FixSpec
<1>4. CASE RemoveFinalizer
  <2> DEFINE v == [worker.copy EXCEPT !.fin = FALSE]
  <2>1. v \in Policy /\ v.exists /\ ~v.fin /\ v.deleting = worker.copy.deleting
    BY <1>1, <1>2 DEF Policy
  <2>2. worker.copy.deleting
    BY <1>4 DEF RemoveFinalizer, PolicyInv, StepsFit
  <2> QED BY <1>2, <1>4, <2>1, <2>2, PutPolicyKeeps DEF RemoveFinalizer
<1>5. CASE AddFinalizer
  <2>1. /\ [worker.copy EXCEPT !.fin = TRUE] \in Policy
        /\ [worker.copy EXCEPT !.fin = TRUE].exists
    BY <1>1, <1>2 DEF Policy
  <2> QED BY <1>2, <1>5, <2>1, PutPolicyKeeps DEF AddFinalizer
<1>6. CASE UpdateStatus
  <2>1. /\ [worker.copy EXCEPT !.status = worker.desired] \in Policy
        /\ [worker.copy EXCEPT !.status = worker.desired].exists
    BY <1>1, <1>2 DEF Policy
  <2> QED BY <1>2, <1>6, <2>1, PutPolicyKeeps DEF UpdateStatus, At, AtWork
<1> QED BY <1>3, <1>4, <1>5, <1>6

LEMMA ReconcileKeeps ==
  ASSUME TypeInv, PolicyInv, NEW req \in Policies, Reconcile(req)
  PROVE  PolicyInv'
<1> DEFINE p == Fetch(req)
           seen == pcache[p]
           config == Complete(seen.config, workloads)
           step == IF config # seen.config THEN "fix"
                   ELSE IF seen.deleting THEN "unfin"
                   ELSE IF ~seen.fin THEN "addFin" ELSE "build"
<1>1. \A q \in Policies : pcache[q].deleting => pcache[q].fin /\ pcache[q].exists
  BY DEF PolicyInv, ObjectsWhole, Whole
<1>2. At("idle") /\ policy' = policy /\ pcache' = pcache
  BY DEF Reconcile
<1>3. CASE p = None
  <2>1. /\ worker' = Idle
        /\ queue' = IF Existing(pcache) = {} THEN queue \ {req} ELSE queue
    BY <1>3 DEF Reconcile
  <2>2. DeletionsSeen'
    BY <1>1, <1>2, <2>1, TypeParts
       DEF PolicyInv, DeletionsSeen, At, Existing
  <2> QED BY <1>2, <2>1, <2>2, GoneTypes
          DEF PolicyInv, ObjectsWhole, StepsFit, FreshCopy, At, Busy, AtWork
<1>4. CASE p # None
  <2>1. p \in Policies /\ seen \in Policy /\ seen.exists /\ Whole(seen)
    BY <1>4, FetchTypes, TypeParts DEF Existing, PolicyInv, ObjectsWhole
  <2>2. /\ worker' = [Idle EXCEPT !.pc = step, !.req = req, !.policy = p,
                        !.copy = [seen EXCEPT !.config = config],
                        !.fresh = (seen = policy[p])]
        /\ queue' = queue \ {req}
    BY <1>4 DEF Reconcile
  <2>3. /\ worker'.pc = step /\ worker'.req = req /\ worker'.policy = p
        /\ worker'.copy = [seen EXCEPT !.config = config]
        /\ worker'.fresh = (seen = policy[p])
    BY <2>2 DEF Idle
  <2>4. /\ worker'.copy.exists /\ worker'.copy.deleting = seen.deleting
        /\ worker'.copy.fin = seen.fin /\ worker'.copy.config = config
    BY <2>1, <2>3 DEF Policy
  <2>5. ObjectsWhole' /\ StepsFit'
    BY <1>2, <2>1, <2>3, <2>4
       DEF PolicyInv, ObjectsWhole, StepsFit, Whole, At, AtWork
  <2>6. FreshCopy'
    <3>1. worker'.copy = [seen EXCEPT !.config = worker'.copy.config]
      BY <2>3, <2>4
    <3>2. At("fix")' <=> worker'.copy.config # seen.config
      BY <2>3, <2>4 DEF At
    <3> QED BY <1>2, <2>3, <3>1, <3>2 DEF FreshCopy
  <2>7. ASSUME NEW q \in Policies, pcache[q].deleting, q \notin queue',
               policy[q].fin
        PROVE  /\ worker'.pc \in {"fix", "unfin"}
               /\ worker'.req = q /\ worker'.policy = q
    <3>1. q = req
      BY <1>2, <2>2, <2>7 DEF PolicyInv, DeletionsSeen, At
    <3>2. p = q
      BY <1>1, <2>7, <3>1 DEF Fetch
    <3> QED BY <2>3, <2>7, <3>1, <3>2
  <2>8. DeletionsSeen'
    BY <1>2, <2>7 DEF DeletionsSeen
  <2> QED BY <2>5, <2>6, <2>8 DEF PolicyInv
<1> QED BY <1>3, <1>4

\* The steps between the reads and the last write.
LEMMA WorkKeeps ==
  ASSUME TypeInv, PolicyInv,
         \/ Build \/ PruneDone \/ DeployDone
         \/ \E k \in Orders : Prune(k) \/ Deploy(k)
  PROVE  PolicyInv'
<1> DEFINE Moves(pc, desired, todo) ==
             /\ UNCHANGED queue
             /\ worker' = [worker EXCEPT !.pc = pc, !.desired = desired,
                                         !.todo = todo]
           Onward == \E pc \in {"prune", "deploy", "status"} :
                       \E desired, todo : Moves(pc, desired, todo)
<1>1. UNCHANGED <<policy, pcache>> /\ AtWork /\ Busy
  BY DEF Build, PruneDone, DeployDone, Prune, Deploy, Doom, At, AtWork, Busy
<1>2. Return(FALSE) \/ Return(TRUE) \/ Onward
  <2>0. worker \in Worker
    BY TypeParts DEF WorkerOK
  <2>1. CASE Build
    BY <2>0, <2>1 DEF Build, Worker
  <2>2. CASE PruneDone
    <3> DEFINE todo == {worker.policy} \X
                         {w \in Workloads : worker.desired[w] # None}
    <3>1. Moves("deploy", worker.desired, todo)
      BY <2>0, <2>2 DEF PruneDone, Worker
    <3> QED BY <3>1
  <2>3. CASE DeployDone
    <3>1. CASE Goto("status") /\ UNCHANGED queue
      <4>1. Moves("status", worker.desired, worker.todo)
        BY <2>0, <3>1 DEF Goto, Worker
      <4> QED BY <4>1
    <3> QED BY <2>3, <3>1 DEF DeployDone
  <2>4. ASSUME NEW k \in Orders, worker.pc \in {"prune", "deploy"},
               worker' = [worker EXCEPT !.todo = @ \ {k}], UNCHANGED queue
        PROVE  Onward
    <3>1. Moves(worker.pc, worker.desired, worker.todo \ {k})
      BY <2>0, <2>4 DEF Worker
    <3> QED BY <2>4, <3>1
  <2>5. ASSUME NEW k \in Orders, Prune(k) PROVE Onward
    BY <2>4, <2>5 DEF Prune, At
  <2>6. ASSUME NEW k \in Orders, Deploy(k) PROVE Return(TRUE) \/ Onward
    BY <2>4, <2>6 DEF Deploy, At
  <2> HIDE DEF Onward
  <2> QED BY <2>1, <2>2, <2>3, <2>5, <2>6
<1>3. CASE Return(FALSE) \/ Return(TRUE)
  BY <1>1, <1>3, AsidePolicy DEF Return
<1>4. CASE Onward
  <2>1. worker \in Worker
    BY TypeParts DEF WorkerOK
  <2>2. /\ AtWork' /\ worker'.req = worker.req
        /\ worker'.policy = worker.policy /\ worker'.copy = worker.copy
        /\ worker'.fresh = worker.fresh
    BY <1>4, <2>1 DEF AtWork, Worker
  <2> QED BY <1>1, <1>4, <2>2, AsidePolicy
<1> QED BY <1>2, <1>3, <1>4

LEMMA WritePolicyKeeps ==
  ASSUME TypeInv, PolicyInv, NEW p \in Policies, NEW v \in Policy,
         v.fin => v.exists /\ policy[p].fin, WritePolicy(p, v)
  PROVE  PolicyInv'
<1>1. /\ policy' = [policy EXCEPT ![p] = SettlePolicy(v)] /\ pcache' = pcache
      /\ queue' = queue
  BY DEF WritePolicy, StorePolicy
<1>2. worker \in Worker
  BY TypeParts DEF WorkerOK
<1>3. /\ worker'.pc = worker.pc /\ worker'.req = worker.req
      /\ worker'.policy = worker.policy /\ worker'.copy = worker.copy
      /\ worker'.fresh => worker.fresh /\ worker.policy # p
  BY <1>2 DEF WritePolicy, Worker
<1>4. \A q \in Policies \ {p} : policy'[q] = policy[q]
  BY <1>1, TypeParts
<1>5. policy'[p] = SettlePolicy(v)
  BY <1>1, TypeParts
<1>6. ObjectsWhole' /\ StepsFit'
  BY <1>1, <1>3, <1>4, <1>5, StoredIsWhole
     DEF PolicyInv, ObjectsWhole, StepsFit, Busy, At, AtWork
<1>7. FreshCopy'
  BY <1>1, <1>3, <1>4 DEF TypeInv, PolicyInv, FreshCopy, Busy, At
<1>8. policy'[p].fin => policy[p].fin
  BY <1>5, GoneTypes DEF SettlePolicy
<1>9. DeletionsSeen'
  BY <1>1, <1>3, <1>4, <1>8 DEF PolicyInv, DeletionsSeen
<1> QED BY <1>6, <1>7, <1>9 DEF PolicyInv

LEMMA UserKeeps ==
  ASSUME TypeInv, PolicyInv, Disturbance PROVE PolicyInv'
<1>1. ASSUME NEW p \in Policies,
             \/ DeletePolicy(p)
             \/ \E config \in Specs : CreatePolicy(p, config)
                                      \/ EditPolicy(p, config)
      PROVE  PolicyInv'
  <2>1. /\ policy[p] \in Policy /\ Specs \subseteq Config
        /\ policy[p].fin => policy[p].exists
    BY TypeParts, SleepPolicyAssumption DEF PolicyInv, ObjectsWhole, Whole
  <2>2. CASE DeletePolicy(p)
    <3> DEFINE v == [policy[p] EXCEPT !.deleting = TRUE]
    <3>1. v \in Policy /\ (v.fin => v.exists /\ policy[p].fin)
      BY <2>1 DEF Policy
    <3> QED BY <2>2, <3>1, WritePolicyKeeps DEF DeletePolicy
  <2>3. ASSUME NEW config \in Specs, CreatePolicy(p, config) PROVE PolicyInv'
    <3> DEFINE v == [GonePolicy EXCEPT !.exists = TRUE, !.config = config]
    <3>1. v \in Policy /\ ~v.fin
      BY <2>1, GoneTypes DEF Policy
    <3> QED BY <2>3, <3>1, WritePolicyKeeps DEF CreatePolicy
  <2>4. ASSUME NEW config \in Specs, EditPolicy(p, config) PROVE PolicyInv'
    <3> DEFINE v == [policy[p] EXCEPT !.config = config]
    <3>1. v \in Policy /\ (v.fin => v.exists /\ policy[p].fin)
      BY <2>1 DEF Policy
    <3> QED BY <2>4, <3>1, WritePolicyKeeps DEF EditPolicy
  <2> QED BY <1>1, <2>2, <2>3, <2>4
<1>2. CASE (\E w \in Workloads : ToggleWorkload(w))
           \/ (\E k \in Orders : DeleteOrder(k))
  BY <1>2, AsidePolicy DEF ToggleWorkload, DeleteOrder
<1>3. CASE ApiError
  BY <1>3, AsidePolicy DEF ApiError, Return, At, Busy
<1>4. CASE Restart
  BY <1>4, TypeParts, GoneTypes
     DEF Restart, PolicyInv, ObjectsWhole, Whole, StepsFit, FreshCopy,
         DeletionsSeen, Existing, Busy, At, AtWork
<1> QED BY <1>1, <1>2, <1>3, <1>4 DEF Disturbance

LEMMA InitPolicy == Init => PolicyInv
<1> SUFFICES ASSUME Init PROVE PolicyInv
  OBVIOUS
<1>1. ~Busy /\ \A p \in Policies : policy[p] = GonePolicy /\ pcache[p] = GonePolicy
  BY GoneTypes DEF Init, Busy
<1> QED BY <1>1, GoneTypes
        DEF PolicyInv, ObjectsWhole, Whole, StepsFit, FreshCopy, DeletionsSeen,
            Busy, At, AtWork

LEMMA NextPolicy == TypeInv /\ PolicyInv /\ [Next]_vars => PolicyInv'
<1> SUFFICES ASSUME TypeInv, PolicyInv, [Next]_vars PROVE PolicyInv'
  OBVIOUS
<1>1. ASSUME NEW p \in Policies, Reconcile(p) PROVE PolicyInv'
  BY <1>1, ReconcileKeeps
<1>2. ASSUME NEW p \in Policies, DeliverPolicy(p) PROVE PolicyInv'
  <2>1. /\ pcache' = [pcache EXCEPT ![p] = policy[p]] /\ pcache[p] # policy[p]
        /\ queue' = queue \cup {p} /\ UNCHANGED <<policy, worker>>
    BY <1>2 DEF DeliverPolicy
  <2>2. /\ pcache'[p] = policy[p]
        /\ \A q \in Policies \ {p} : pcache'[q] = pcache[q]
    BY <2>1, TypeParts
  <2>3. Busy => worker.policy \in Policies
    BY DEF TypeInv
  <2> QED BY <2>1, <2>2, <2>3
          DEF PolicyInv, ObjectsWhole, StepsFit, FreshCopy, DeletionsSeen,
              Busy, At, AtWork
<1>3. CASE WorkerStep
  BY <1>3, WriteKeeps, WorkKeeps DEF WorkerStep
<1>4. CASE Resync
  BY <1>4, AsidePolicy DEF Resync
<1>5. CASE Disturbance
  BY <1>5, UserKeeps
<1>6. CASE \E k \in Orders : \/ DeliverOrder(k) \/ HoldOrder(k) \/ ForgoOrder(k)
                             \/ ReleaseOrder(k) \/ Collect(k)
  BY <1>6, AsidePolicy DEF DeliverOrder, HoldOrder, ForgoOrder, ReleaseOrder,
                           Collect, Elsewhere
<1>7. CASE UNCHANGED vars
  BY <1>7, AsidePolicy DEF vars
<1> QED BY <1>1, <1>2, <1>3, <1>4, <1>5, <1>6, <1>7 DEF Next

LEMMA PolicyAlways == Spec => [](TypeInv /\ PolicyInv)
BY InitTypes, NextTypes, InitPolicy, NextPolicy, PTL DEF Spec

(***************************************************************************)
(* No policy is left waiting for its finalizer: a deletion that the        *)
(* controller has seen stays requested until the finalizer is off, even if *)
(* writes fail, the policy is edited meanwhile or the controller restarts  *)
(* (Reconcile, sleeppolicy_controller.go).                                 *)
(***************************************************************************)
THEOREM NoPolicyLeft == Spec => []NoneLeftDeleting
<1>1. TypeInv /\ PolicyInv => NoneLeftDeleting
  BY DEF NoneLeftDeleting, Quiet, PolicyInv, ObjectsWhole, Whole, DeletionsSeen,
         At
<1> QED BY <1>1, PolicyAlways, PTL

-----------------------------------------------------------------------------
(* At rest the orders are the policy's.                                    *)

\* No order appears or comes back, or has other parameters or an owner again.
Kept ==
  \A k \in Orders : order'[k].exists =>
    /\ order[k].exists /\ order'[k].params = order[k].params
    /\ order[k].deleting => order'[k].deleting
    /\ order[k].orphan => order'[k].orphan

\* Those who only delete orders, or hold them.
LEMMA KeptByOthers ==
  ASSUME TypeInv,
         \/ UNCHANGED order
         \/ \E p \in Policies : \E v : StorePolicy(p, v)
         \/ \E k \in Orders : \/ Doom(k) \/ HoldOrder(k) \/ ForgoOrder(k)
                              \/ ReleaseOrder(k)
  PROVE  Kept
<1>1. order \in [Orders -> Order]
  BY TypeParts
<1>2. CASE UNCHANGED order
  BY <1>2 DEF Kept
<1>3. ASSUME NEW p \in Policies, NEW v, StorePolicy(p, v) PROVE Kept
  <2>1. \A k \in Orders : order'[k] \in {order[k], [order[k] EXCEPT !.orphan = TRUE]}
    BY <1>3 DEF StorePolicy, Orphaned
  <2> QED BY <1>1, <2>1 DEF Kept, Order
<1>4. ASSUME NEW k \in Orders,
             \/ Doom(k) \/ HoldOrder(k) \/ ForgoOrder(k) \/ ReleaseOrder(k)
      PROVE  Kept
  <2>1. order[k] \in Order /\ \A l \in Orders \ {k} : order'[l] = order[l]
    BY <1>1, <1>4 DEF Doom, HoldOrder, ForgoOrder, ReleaseOrder
  <2>2. /\ Doom(k) => order'[k] \in {order[k], GoneOrder,
                                      [order[k] EXCEPT !.deleting = TRUE]}
        /\ HoldOrder(k) => order'[k] = [order[k] EXCEPT !.fin = TRUE]
        /\ ForgoOrder(k) => order'[k] = [order[k] EXCEPT !.fin = FALSE]
        /\ ReleaseOrder(k) => order'[k] = GoneOrder
    BY <1>1, <2>1 DEF Doom, SettleOrder, HoldOrder, ForgoOrder, ReleaseOrder
  <2>3. /\ order'[k].exists => /\ order[k].exists
                               /\ order'[k].params = order[k].params
                               /\ order'[k].orphan = order[k].orphan
        /\ order'[k].exists /\ order[k].deleting => order'[k].deleting
    <3>1. \/ order'[k] = order[k]
          \/ order'[k] = GoneOrder
          \/ order'[k] = [order[k] EXCEPT !.deleting = TRUE]
          \/ order'[k] = [order[k] EXCEPT !.fin = TRUE]
          \/ order'[k] = [order[k] EXCEPT !.fin = FALSE]
      BY <1>4, <2>2
    <3> QED BY <2>1, <3>1, GoneTypes DEF Order
  <2> QED BY <2>1, <2>3 DEF Kept
<1> QED BY <1>2, <1>3, <1>4

\* A write of a policy keeps the owners right.
LEMMA OwnersWritten ==
  ASSUME TypeInv, Owned, NEW p \in Policies, NEW v, StorePolicy(p, v)
  PROVE  Owned'
<1>1. order \in [Orders -> Order]
  BY TypeParts
<1>2. SUFFICES ASSUME NEW k \in Orders, order'[k].exists,
                      ~policy'[k[1]].exists
               PROVE  order'[k].orphan
  BY DEF Owned
<1>3. order'[k] = IF policy[k[1]].exists /\ order[k].exists
                  THEN [order[k] EXCEPT !.orphan = TRUE] ELSE order[k]
  BY <1>2 DEF StorePolicy, Orphaned
<1>4. order[k] \in Order
  BY <1>1
<1> QED BY <1>2, <1>3, <1>4 DEF Owned, Order

\* The orders and policies there are.
LEMMA ExistingOnes ==
  TypeInv => /\ Existing(order) = {k \in Orders : order[k].exists}
             /\ Existing(ocache) = {k \in Orders : ocache[k].exists}
             /\ Existing(pcache) = {p \in Policies : pcache[p].exists}
BY TypeParts DEF Existing

LEMMA ExistingNext ==
  TypeInv' => /\ Existing(order)' = {k \in Orders : order'[k].exists}
              /\ Existing(pcache)' = {p \in Policies : pcache'[p].exists}
BY DEF TypeInv, TypeOK, Existing

\* Steps that leave the worker with what it does.
LEMMA OnTheSide ==
  ASSUME TypeInv, TypeInv', OrderInv, Kept, ocache' = order', pcache' = pcache,
         queue \subseteq queue', worker'.pc = worker.pc,
         worker'.req = worker.req, worker'.policy = worker.policy,
         worker'.copy = worker.copy, worker'.desired = worker.desired,
         worker'.todo = worker.todo, HeldPolicy', Owned'
  PROVE  OrderInv'
<1>1. Existing(order)' \subseteq Existing(order)
  BY ExistingOnes, ExistingNext DEF Kept
<1>3. CurrentCopy'
  BY DEF OrderInv, CurrentCopy, At, Busy, Fetch, Existing
<1>4. \A k \in Existing(order)' :
        /\ k \in Existing(order) /\ order'[k].params = order[k].params
        /\ order[k].deleting => order'[k].deleting
  BY <1>1, ExistingOnes, ExistingNext DEF Kept
<1>5. StageInv'
  <2>1. \A k \in Existing(order)' : Settled(k) => Settled(k)'
    BY <1>4 DEF Settled, Asked
  <2> QED BY <1>4, <2>1 DEF OrderInv, StageInv, At
<1>6. RestInv'
  <2>1. Existing(pcache)' = Existing(pcache)
    BY DEF Existing
  <2> DEFINE p == Chosen(Existing(pcache))
  <2>2. p' = p
    BY <2>1
  <2> HIDE DEF p
  <2>3. \A k \in Existing(order)' :
          Asked(k, p, pcache[p].config) => Asked(k, p, pcache[p].config)'
    BY <1>4, <2>2 DEF Asked
  <2> QED BY <1>4, <2>1, <2>2, <2>3 DEF OrderInv, RestInv, At, p
<1> QED BY <1>3, <1>5, <1>6 DEF OrderInv

LEMMA OthersOrder ==
  ASSUME TypeInv, TypeInv', OrderInv, Kept, ocache' = order',
         UNCHANGED <<policy, pcache, worker>>, queue \subseteq queue'
  PROVE  OrderInv'
<1>1. HeldPolicy' /\ Owned'
  BY DEF OrderInv, HeldPolicy, Owned, Kept, AtWork
<1> QED BY <1>1, OnTheSide

\* A reconcile ends.
LEMMA IdleOrder ==
  ASSUME worker' = Idle, ocache' = order', HeldPolicy', Owned', RestInv'
  PROVE  OrderInv'
BY GoneTypes DEF OrderInv, CurrentCopy, StageInv, AtWork, Busy, At

\* With every order settled there is no harm in being done.
LEMMA MayRest ==
  ASSUME TypeInv, TypeInv', OrderInv, Kept, AtWork, UNCHANGED <<pcache, queue>>,
         \A k \in Existing(order) : Settled(k)
  PROVE  RestInv'
<1> DEFINE p == Chosen(Existing(pcache))
<1>1. SUFFICES ASSUME queue = {}, \A q \in Policies : ~pcache[q].deleting,
                      NEW k \in Existing(order)'
               PROVE  order'[k].deleting \/ Asked(k, p, pcache[p].config)'
  BY DEF RestInv, Existing
<1>2. /\ worker.policy = Fetch(worker.req) /\ worker.req \in Policies
      /\ worker.copy.config = pcache[worker.policy].config
  BY <1>1 DEF OrderInv, CurrentCopy, TypeInv, AtWork, Busy, At
<1>3. worker.policy = p
  BY <1>1, <1>2 DEF Fetch
<1>4. k \in Existing(order) /\ order'[k].params = order[k].params
      /\ (order[k].deleting => order'[k].deleting)
  BY <1>1, ExistingOnes, ExistingNext DEF Kept
<1>5. order[k].deleting \/ Asked(k, p, pcache[p].config)
  BY <1>2, <1>3, <1>4 DEF Settled
<1>6. pcache' = pcache /\ p' = p
  BY DEF Existing
<1> QED BY <1>4, <1>5, <1>6 DEF Asked

\* No request is dropped, so there is nothing to be done yet.
LEMMA NotAtRest ==
  ASSUME queue' # {} PROVE RestInv'
BY DEF RestInv

LEMMA ReconcileOrder ==
  ASSUME TypeInv, TypeInv', PolicyInv, PolicyInv', OrderInv,
         NEW req \in Policies, Reconcile(req)
  PROVE  OrderInv'
<1> DEFINE p == Fetch(req)
           seen == pcache[p]
           config == Complete(seen.config, workloads)
           step == IF config # seen.config THEN "fix"
                   ELSE IF seen.deleting THEN "unfin"
                   ELSE IF ~seen.fin THEN "addFin" ELSE "build"
<1>1. /\ At("idle") /\ req \in queue
      /\ UNCHANGED <<workloads, policy, pcache, order, ocache>>
  BY DEF Reconcile
<1>2. ocache' = order' /\ Owned'
  BY <1>1 DEF OrderInv, Owned
<1>3. CASE p = None
  <2>1. /\ worker' = Idle
        /\ queue' = IF Existing(pcache) = {} THEN queue \ {req} ELSE queue
    BY <1>3 DEF Reconcile
  <2>2. HeldPolicy'
    BY <1>1, <2>1, GoneTypes DEF OrderInv, HeldPolicy, AtWork
  <2>3. RestInv'
    BY <1>1, <2>1, NotAtRest DEF RestInv, Existing
  <2> QED BY <1>2, <2>1, <2>2, <2>3, IdleOrder
<1>4. CASE p # None
  <2>1. p \in Policies /\ seen \in Policy
    BY <1>4, FetchTypes, TypeParts DEF Existing
  <2>2. /\ worker' = [Idle EXCEPT !.pc = step, !.req = req, !.policy = p,
                        !.copy = [seen EXCEPT !.config = config],
                        !.fresh = (seen = policy[p])]
        /\ queue' = queue \ {req}
    BY <1>4 DEF Reconcile
  <2>3. /\ worker'.pc = step /\ worker'.req = req /\ worker'.policy = p
        /\ worker'.copy = [seen EXCEPT !.config = config]
    BY <2>2 DEF Idle
  <2>4. worker'.copy.config = config
    BY <2>1, <2>3 DEF Policy
  <2>5. HeldPolicy'
    BY <1>1, <2>1, <2>3 DEF OrderInv, HeldPolicy, AtWork
  <2>6. CurrentCopy'
    <3>1. Fetch(worker.req)' = p
      BY <1>1, <2>3 DEF Fetch, Existing
    <3>2. worker'.copy = [seen EXCEPT !.config = worker'.copy.config]
      BY <2>3, <2>4
    <3> QED BY <1>1, <2>3, <2>4, <3>1, <3>2 DEF CurrentCopy, At
  <2>7. StageInv' /\ RestInv'
    BY <2>3 DEF StageInv, RestInv, At
  <2> QED BY <1>2, <2>5, <2>6, <2>7 DEF OrderInv
<1> QED BY <1>3, <1>4

LEMMA PutPolicyOrder ==
  ASSUME ~Lagging, TypeInv, PolicyInv, OrderInv, Busy, NEW v \in Policy,
         NEW again \in BOOLEAN, PutPolicy(v, again), RestInv',
         worker.copy.fin /\ ~worker.copy.deleting => v.fin
  PROVE  OrderInv'
<1> DEFINE q == worker.policy
           taken == policy[q].exists /\ worker.fresh
<1>1. worker' = Idle /\ pcache' = pcache /\ q \in Policies
  BY DEF PutPolicy, Return, TypeInv
<1>2. CASE ~taken
  BY <1>1, <1>2, IdleOrder, GoneTypes
     DEF PutPolicy, OrderInv, HeldPolicy, Owned, AtWork
<1>3. CASE taken
  <2>1. StorePolicy(q, v)
    BY <1>3 DEF PutPolicy
  <2>2. ocache' = order' /\ Owned'
    BY <1>1, <2>1, OwnersWritten DEF StorePolicy, Informed, OrderInv
  <2>3. policy[q] \in Policy /\ policy' = [policy EXCEPT ![q] = SettlePolicy(v)]
    BY <1>1, <2>1, TypeParts DEF StorePolicy
  <2>4. pcache[q].fin /\ ~pcache[q].deleting => policy'[q].fin
    <3>1. /\ pcache[q] = policy[q]
          /\ worker.copy = [policy[q] EXCEPT !.config = worker.copy.config]
      BY <1>3 DEF PolicyInv, FreshCopy
    <3>2. /\ worker.copy.fin = pcache[q].fin
          /\ worker.copy.deleting = pcache[q].deleting
      BY <2>3, <3>1 DEF Policy
    <3> QED BY <1>1, <2>3, <3>2, TypeParts DEF SettlePolicy
  <2>5. HeldPolicy'
    BY <1>1, <2>3, <2>4, TypeParts, GoneTypes DEF OrderInv, HeldPolicy, AtWork
  <2> QED BY <1>1, <2>2, <2>5, IdleOrder
<1> QED BY <1>2, <1>3

LEMMA WriteOrder ==
  ASSUME ~Lagging, TypeInv, TypeInv', PolicyInv, OrderInv,
         FixSpec \/ RemoveFinalizer \/ AddFinalizer \/ UpdateStatus
  PROVE  OrderInv'
<1>1. worker.copy \in Policy /\ worker.desired \in Managing
  BY TypeParts DEF WorkerOK, Worker
<1>2. Busy /\ worker.req \in Policies
  BY DEF FixSpec, RemoveFinalizer, AddFinalizer, UpdateStatus, At, Busy, TypeInv
<1>3. CASE FixSpec
  <2>1. RestInv'
    BY <1>3, NotAtRest DEF FixSpec, PutPolicy, Return
  <2> QED BY <1>1, <1>2, <1>3, <2>1, PutPolicyOrder DEF FixSpec
<1>4. CASE RemoveFinalizer
  <2> DEFINE v == [worker.copy EXCEPT !.fin = FALSE]
  <2>1. v \in Policy /\ PutPolicy(v, FALSE) /\ worker.copy.deleting
    BY <1>1, <1>4 DEF Policy, RemoveFinalizer, PolicyInv, StepsFit
  <2>2. ASSUME queue' = {} PROVE ~ \A q \in Policies : ~pcache'[q].deleting
    <3>1. queue = {} /\ pcache' = pcache
      BY <2>1, <2>2 DEF PutPolicy, Return
    <3>2. /\ worker.policy \in Policies /\ pcache[worker.policy] \in Policy
          /\ worker.copy = [pcache[worker.policy] EXCEPT
                              !.config = worker.copy.config]
      BY <1>2, <3>1, TypeParts DEF OrderInv, CurrentCopy, TypeInv
    <3>3. pcache[worker.policy].deleting
      BY <2>1, <3>2 DEF Policy
    <3> QED BY <3>1, <3>2, <3>3
  <2>3. RestInv'
    BY <2>2 DEF RestInv
  <2> QED BY <1>2, <2>1, <2>3, PutPolicyOrder
<1>5. CASE AddFinalizer
  <2> DEFINE v == [worker.copy EXCEPT !.fin = TRUE]
  <2>1. v \in Policy /\ v.fin /\ PutPolicy(v, TRUE)
    BY <1>1, <1>5 DEF Policy, AddFinalizer
  <2>2. RestInv'
    BY <2>1, NotAtRest DEF PutPolicy, Return
  <2> QED BY <1>2, <2>1, <2>2, PutPolicyOrder
<1>6. CASE UpdateStatus
  <2> DEFINE v == [worker.copy EXCEPT !.status = worker.desired]
  <2>1. v \in Policy /\ v.fin = worker.copy.fin /\ PutPolicy(v, FALSE)
    BY <1>1, <1>6 DEF Policy, UpdateStatus
  <2>2. RestInv'
    <3>1. CASE queue' = queue
      <4>1. Kept /\ pcache' = pcache
        BY <1>2, <2>1, KeptByOthers DEF PutPolicy, TypeInv
      <4>2. AtWork /\ \A k \in Existing(order) : Settled(k)
        BY <1>6 DEF UpdateStatus, OrderInv, StageInv, AtWork, At
      <4> QED BY <3>1, <4>1, <4>2, MayRest
    <3>2. CASE queue' # queue
      BY <2>1, <3>2, NotAtRest DEF PutPolicy, Return
    <3> QED BY <3>1, <3>2
  <2> QED BY <1>2, <2>1, <2>2, PutPolicyOrder
<1> QED BY <1>3, <1>4, <1>5, <1>6

\* The worker goes on with the same policy.
LEMMA OnwardOrder ==
  ASSUME TypeInv, OrderInv, AtWork, AtWork', worker'.req = worker.req,
         worker'.policy = worker.policy, worker'.copy = worker.copy,
         UNCHANGED <<policy, pcache, queue>>, ocache' = order', Owned', StageInv'
  PROVE  OrderInv'
<1>1. HeldPolicy'
  BY DEF OrderInv, HeldPolicy, AtWork
<1>2. At("fix")' = FALSE /\ At("idle")' = FALSE
  BY DEF At, AtWork
<1>3. CurrentCopy'
  BY <1>2 DEF OrderInv, CurrentCopy, AtWork, Busy, At, Fetch, Existing
<1>4. RestInv'
  BY <1>2 DEF RestInv
<1> QED BY <1>1, <1>3, <1>4 DEF OrderInv

LEMMA BuildOrder ==
  ASSUME TypeInv, OrderInv, Build PROVE OrderInv'
<1> DEFINE desired == Desired(worker.copy.config, workloads)
           todo == {k \in Existing(ocache) : \/ k[1] # worker.policy
                                             \/ desired[k[2]] = None}
<1>1. worker \in Worker
  BY TypeParts DEF WorkerOK
<1>2. /\ worker'.pc = "prune" /\ worker'.desired = desired
      /\ worker'.todo = todo /\ worker'.req = worker.req
      /\ worker'.policy = worker.policy /\ worker'.copy = worker.copy
  BY <1>1 DEF Build, Worker
<1>3. UNCHANGED <<policy, pcache, order, ocache, queue>> /\ AtWork
  BY DEF Build, AtWork, At
<1>4. \A w \in Workloads : desired[w] \in {None, Effective(worker.copy.config, w)}
  BY DEF Desired
<1>5. \A k \in Existing(order) \ todo :
         k[1] = worker.policy /\ desired[k[2]] # None
  BY DEF OrderInv
<1>6. StageInv'
  <2> HIDE DEF desired, todo
  <2>1. Existing(order)' = Existing(order)
    BY <1>3
  <2> QED BY <1>2, <1>4, <1>5, <2>1 DEF StageInv, At
<1>7. Owned' /\ ocache' = order' /\ AtWork'
  BY <1>2, <1>3 DEF OrderInv, Owned, AtWork
<1> QED BY <1>2, <1>3, <1>6, <1>7, OnwardOrder

LEMMA PruneOrder ==
  ASSUME ~Lagging, TypeInv, TypeInv', OrderInv, NEW k \in Orders, Prune(k)
  PROVE  OrderInv'
<1>1. worker \in Worker /\ At("prune")
  BY TypeParts DEF WorkerOK, Prune
<1>2. /\ worker'.pc = "prune" /\ worker'.desired = worker.desired
      /\ worker'.todo = worker.todo \ {k} /\ worker'.req = worker.req
      /\ worker'.policy = worker.policy /\ worker'.copy = worker.copy
  BY <1>1 DEF Prune, Worker, At
<1>3. /\ UNCHANGED <<policy, pcache, queue>> /\ ocache' = order' /\ Doom(k)
  BY DEF Prune, Informed
<1>4. Kept
  BY <1>3, KeptByOthers
<1>5. ASSUME NEW l \in Existing(order)'
      PROVE  /\ l \in Orders /\ l \in Existing(order)
             /\ order[l].deleting \/ l = k => order'[l].deleting
  <2>1. l \in Orders /\ l \in Existing(order)
        /\ (order[l].deleting => order'[l].deleting)
    BY <1>4, ExistingOnes, ExistingNext DEF Kept
  <2>2. CASE l = k
    <3>1. order[k] \in Order /\ order[k].exists
      BY <2>1, <2>2, TypeParts, ExistingOnes
    <3>2. order'[k] = SettleOrder([order[k] EXCEPT !.deleting = TRUE])
      BY <1>3, <3>1, TypeParts DEF Doom
    <3>3. order'[k].exists
      BY <2>2, ExistingNext
    <3> QED BY <2>1, <2>2, <3>1, <3>2, <3>3, GoneTypes DEF SettleOrder, Order
  <2> QED BY <2>1, <2>2
<1>6. StageInv'
  BY <1>1, <1>2, <1>5 DEF OrderInv, StageInv, At
<1>7. Owned' /\ AtWork /\ AtWork'
  BY <1>1, <1>2, <1>3, <1>4 DEF OrderInv, Owned, Kept, AtWork, At
<1> QED BY <1>2, <1>3, <1>6, <1>7, OnwardOrder

LEMMA PruneDoneOrder ==
  ASSUME TypeInv, OrderInv, PruneDone PROVE OrderInv'
<1> DEFINE todo == {worker.policy} \X
                     {w \in Workloads : worker.desired[w] # None}
<1>1. worker \in Worker /\ At("prune") /\ worker.todo = {}
  BY TypeParts DEF WorkerOK, PruneDone
<1>2. /\ worker'.pc = "deploy" /\ worker'.desired = worker.desired
      /\ worker'.todo = todo /\ worker'.req = worker.req
      /\ worker'.policy = worker.policy /\ worker'.copy = worker.copy
  BY <1>1 DEF PruneDone, Worker
<1>3. UNCHANGED <<policy, pcache, order, ocache, queue>>
  BY DEF PruneDone
<1>4. \A k \in todo : k[1] = worker.policy /\ worker.desired[k[2]] # None
  OBVIOUS
<1>5. ASSUME NEW k \in Existing(order) \ todo PROVE order[k].deleting
  <2>1. k \in Orders /\ k \in Existing(order) \ worker.todo
    BY <1>1, ExistingOnes
  <2>2. k = <<k[1], k[2]>> /\ k[2] \in Workloads
    BY <2>1 DEF Orders
  <2>3. ~(k[1] = worker.policy /\ worker.desired[k[2]] # None)
    BY <1>5, <2>2
  <2> QED BY <1>1, <2>1, <2>3 DEF OrderInv, StageInv
<1>6. StageInv'
  <2> HIDE DEF todo
  <2>1. Existing(order)' = Existing(order) /\ order' = order
    BY <1>3
  <2>2. \A k \in Existing(order)' \ worker'.todo : Settled(k)'
    BY <1>2, <1>5, <2>1 DEF Settled
  <2> QED BY <1>1, <1>2, <1>4, <2>2 DEF OrderInv, StageInv, At
<1>7. Owned' /\ ocache' = order' /\ AtWork /\ AtWork'
  BY <1>1, <1>2, <1>3 DEF OrderInv, Owned, AtWork, At
<1> QED BY <1>2, <1>3, <1>6, <1>7, OnwardOrder

LEMMA DeployDoneOrder ==
  ASSUME TypeInv, TypeInv', OrderInv, DeployDone PROVE OrderInv'
<1>1. worker \in Worker /\ At("deploy") /\ worker.todo = {}
  BY TypeParts DEF WorkerOK, DeployDone
<1>2. UNCHANGED <<policy, pcache, order, ocache>>
  BY DEF DeployDone
<1>3. \A k \in Existing(order) : Settled(k)
  BY <1>1 DEF OrderInv, StageInv
<1>4. Owned' /\ ocache' = order' /\ AtWork
  BY <1>1, <1>2 DEF OrderInv, Owned, AtWork, At
<1>5. CASE Return(FALSE)
  <2>1. worker' = Idle /\ queue' = queue
    BY <1>5 DEF Return
  <2>2. HeldPolicy'
    BY <1>2, <2>1, GoneTypes DEF OrderInv, HeldPolicy, AtWork
  <2>3. RestInv'
    BY <1>2, <1>3, <1>4, <2>1, KeptByOthers, MayRest
  <2> QED BY <1>4, <2>1, <2>2, <2>3, IdleOrder
<1>6. CASE Goto("status") /\ UNCHANGED queue
  <2>1. /\ worker'.pc = "status" /\ worker'.desired = worker.desired
        /\ worker'.req = worker.req
        /\ worker'.policy = worker.policy /\ worker'.copy = worker.copy
    BY <1>1, <1>6 DEF Goto, Worker
  <2>2. StageInv'
    <3>1. Existing(order)' = Existing(order) /\ order' = order
      BY <1>2
    <3>2. \A k \in Existing(order)' : Settled(k)'
      BY <1>3, <2>1, <3>1 DEF Settled, Asked
    <3> QED BY <1>1, <2>1, <3>2 DEF OrderInv, StageInv, At
  <2> QED BY <1>2, <1>4, <1>6, <2>1, <2>2, OnwardOrder DEF AtWork
<1> QED BY <1>5, <1>6 DEF DeployDone

LEMMA DeployOrder ==
  ASSUME ~Lagging, TypeInv, TypeInv', PolicyInv, OrderInv,
         NEW k \in Orders, Deploy(k)
  PROVE  OrderInv'
<1> DEFINE params == worker.desired[k[2]]
           new == IF order[k].exists
                  THEN SettleOrder([order[k] EXCEPT !.params = params,
                                      !.orphan = FALSE, !.fin = FALSE])
                  ELSE [GoneOrder EXCEPT !.exists = TRUE, !.params = params]
<1>1. worker \in Worker /\ At("deploy") /\ k \in worker.todo /\ order[k] \in Order
  BY TypeParts DEF WorkerOK, Deploy
<1>2. /\ k[1] = worker.policy /\ params # None
      /\ k[2] \in Workloads /\ params = Effective(worker.copy.config, k[2])
  <2>1. k[1] = worker.policy /\ params # None
    BY <1>1 DEF OrderInv, StageInv
  <2>2. k[2] \in Workloads
    BY DEF Orders
  <2> QED BY <1>1, <2>1, <2>2 DEF OrderInv, StageInv, At
<1>3. policy[k[1]].exists
  <2>1. worker.policy \in Policies /\ AtWork
    BY <1>1 DEF TypeInv, Busy, AtWork, At
  <2> QED BY <1>2, <2>1 DEF OrderInv, HeldPolicy, PolicyInv, ObjectsWhole, Whole
<1>4. /\ worker' = [worker EXCEPT !.todo = @ \ {k}]
      /\ UNCHANGED <<policy, pcache, queue>> /\ ocache' = order'
      /\ \/ order' = order /\ order[k].params = params
         \/ order' = [order EXCEPT ![k] = new]
  BY DEF Deploy, OrderInv, Informed
<1>5. /\ worker'.pc = "deploy" /\ worker'.desired = worker.desired
      /\ worker'.todo = worker.todo \ {k} /\ worker'.req = worker.req
      /\ worker'.policy = worker.policy /\ worker'.copy = worker.copy
  BY <1>1, <1>4 DEF Worker, At
<1>6. \A l \in Orders \ {k} : order'[l] = order[l]
  BY <1>4, TypeParts
<1>7. order'[k].exists => order'[k].params = params
  <2>1. CASE order' = order /\ order[k].params = params
    BY <2>1
  <2>2. CASE order' = [order EXCEPT ![k] = new]
    <3>1. order'[k] = new
      BY <2>2, TypeParts
    <3> QED BY <1>1, <3>1, GoneTypes DEF SettleOrder, Order
  <2> QED BY <1>4, <2>1, <2>2
<1>8. ASSUME NEW l \in Existing(order)' \ worker'.todo PROVE Settled(l)'
  <2>1. l \in Orders /\ order'[l].exists
    BY <1>8, ExistingNext
  <2>2. CASE l = k
    BY <1>2, <1>5, <1>7, <2>1, <2>2 DEF Settled, Asked
  <2>3. CASE l # k
    <3>1. l \in Existing(order) \ worker.todo /\ order'[l] = order[l]
      BY <1>5, <1>6, <1>8, <2>1, <2>3, ExistingOnes
    <3>2. Settled(l)
      BY <1>1, <3>1 DEF OrderInv, StageInv
    <3> QED BY <1>5, <3>1, <3>2 DEF Settled, Asked
  <2> QED BY <2>2, <2>3
<1>9. StageInv'
  BY <1>1, <1>5, <1>8 DEF OrderInv, StageInv, At
<1>10. Owned'
  BY <1>3, <1>4, <1>6 DEF OrderInv, Owned
<1>11. AtWork /\ AtWork'
  BY <1>1, <1>5 DEF AtWork, At
<1> QED BY <1>4, <1>5, <1>9, <1>10, <1>11, OnwardOrder

LEMMA WritePolicyOrder ==
  ASSUME ~Lagging, TypeInv, TypeInv', OrderInv, NEW p \in Policies,
         NEW v \in Policy, policy[p].fin => v.fin, WritePolicy(p, v)
  PROVE  OrderInv'
<1>1. /\ StorePolicy(p, v) /\ UNCHANGED <<pcache, queue>>
      /\ policy' = [policy EXCEPT ![p] = SettlePolicy(v)] /\ ocache' = order'
  BY DEF WritePolicy, StorePolicy, Informed
<1>2. worker \in Worker
  BY TypeParts DEF WorkerOK
<1>3. /\ worker'.pc = worker.pc /\ worker'.req = worker.req
      /\ worker'.policy = worker.policy /\ worker'.copy = worker.copy
      /\ worker'.desired = worker.desired /\ worker'.todo = worker.todo
  BY <1>2 DEF WritePolicy, Worker
<1>4. Kept /\ Owned'
  BY <1>1, KeptByOthers, OwnersWritten DEF OrderInv
<1>5. \A q \in Policies : policy[q].fin => policy'[q].fin
  BY <1>1, TypeParts DEF SettlePolicy
<1>6. HeldPolicy'
  BY <1>1, <1>3, <1>5 DEF OrderInv, HeldPolicy, AtWork, TypeInv, Busy
<1> QED BY <1>1, <1>3, <1>4, <1>6, OnTheSide

LEMMA UserOrder ==
  ASSUME ~Lagging, TypeInv, TypeInv', PolicyInv, OrderInv, Disturbance
  PROVE  OrderInv'
<1>1. ASSUME NEW p \in Policies,
             \/ DeletePolicy(p)
             \/ \E config \in Specs : CreatePolicy(p, config)
                                      \/ EditPolicy(p, config)
      PROVE  OrderInv'
  <2>1. /\ policy[p] \in Policy /\ Specs \subseteq Config
        /\ policy[p].fin => policy[p].exists
    BY TypeParts, SleepPolicyAssumption DEF PolicyInv, ObjectsWhole, Whole
  <2>2. CASE DeletePolicy(p)
    <3> DEFINE v == [policy[p] EXCEPT !.deleting = TRUE]
    <3>1. v \in Policy /\ v.fin = policy[p].fin
      BY <2>1 DEF Policy
    <3> QED BY <2>2, <3>1, WritePolicyOrder DEF DeletePolicy
  <2>3. ASSUME NEW config \in Specs, CreatePolicy(p, config) PROVE OrderInv'
    <3> DEFINE v == [GonePolicy EXCEPT !.exists = TRUE, !.config = config]
    <3>1. v \in Policy /\ ~policy[p].fin
      BY <2>1, <2>3, GoneTypes DEF Policy, CreatePolicy
    <3> QED BY <2>3, <3>1, WritePolicyOrder DEF CreatePolicy
  <2>4. ASSUME NEW config \in Specs, EditPolicy(p, config) PROVE OrderInv'
    <3> DEFINE v == [policy[p] EXCEPT !.config = config]
    <3>1. v \in Policy /\ v.fin = policy[p].fin
      BY <2>1 DEF Policy
    <3> QED BY <2>4, <3>1, WritePolicyOrder DEF EditPolicy
  <2> QED BY <1>1, <2>2, <2>3, <2>4
<1>2. CASE (\E w \in Workloads : ToggleWorkload(w))
           \/ (\E k \in Orders : DeleteOrder(k))
  <2>1. /\ (UNCHANGED order \/ \E k \in Orders : Doom(k)) /\ ocache' = order'
        /\ UNCHANGED <<policy, pcache, queue, worker>>
    BY <1>2 DEF ToggleWorkload, DeleteOrder, Informed, OrderInv
  <2> QED BY <2>1, KeptByOthers, OthersOrder
<1>3. CASE ApiError
  <2>1. /\ UNCHANGED <<policy, pcache, order, ocache>> /\ worker' = Idle
        /\ queue' # {}
    BY <1>3 DEF ApiError, Return
  <2>2. ocache' = order' /\ Owned' /\ HeldPolicy'
    BY <2>1, GoneTypes DEF OrderInv, Owned, HeldPolicy, AtWork
  <2> QED BY <2>1, <2>2, NotAtRest, IdleOrder
<1>4. CASE Restart
  <2>1. /\ UNCHANGED <<policy, order>> /\ worker' = Idle /\ ocache' = order'
        /\ pcache' = policy /\ queue' = Existing(pcache)'
    BY <1>4 DEF Restart, Existing
  <2>2. Owned' /\ HeldPolicy'
    BY <2>1, GoneTypes DEF OrderInv, Owned, HeldPolicy, AtWork
  <2>3. RestInv'
    BY <2>1 DEF RestInv
  <2> QED BY <2>1, <2>2, <2>3, IdleOrder
<1> QED BY <1>1, <1>2, <1>3, <1>4 DEF Disturbance

LEMMA InitOrder == Init => OrderInv
<1> SUFFICES ASSUME Init PROVE OrderInv
  OBVIOUS
<1>1. /\ worker = Idle /\ ocache = order
      /\ \A k \in Orders : ~order[k].exists
      /\ \A p \in Policies : ~pcache[p].fin /\ ~pcache[p].exists
  BY GoneTypes DEF Init
<1>2. Existing(pcache) = {}
  BY <1>1, InitTypes, ExistingOnes
<1> QED BY <1>1, <1>2, GoneTypes
        DEF OrderInv, HeldPolicy, Owned, CurrentCopy, StageInv, RestInv,
            At, AtWork, Busy

LEMMA NextOrder ==
  ASSUME ~Lagging, TypeInv, TypeInv', PolicyInv, PolicyInv', OrderInv,
         [Next]_vars
  PROVE  OrderInv'
<1>1. ASSUME NEW p \in Policies, Reconcile(p) PROVE OrderInv'
  BY <1>1, ReconcileOrder
<1>2. ASSUME NEW p \in Policies, DeliverPolicy(p) PROVE OrderInv'
  <2>1. /\ pcache' = [pcache EXCEPT ![p] = policy[p]] /\ queue' # {}
        /\ UNCHANGED <<policy, order, ocache, worker>>
    BY <1>2 DEF DeliverPolicy
  <2>2. HeldPolicy'
    BY <2>1, TypeParts DEF OrderInv, HeldPolicy, AtWork
  <2>3. Owned' /\ StageInv'
    BY <2>1 DEF OrderInv, Owned, StageInv, Settled, Asked, At, Existing
  <2> QED BY <2>1, <2>2, <2>3 DEF OrderInv, CurrentCopy, RestInv
<1>3. CASE WorkerStep
  BY <1>3, WriteOrder, BuildOrder, PruneDoneOrder, DeployDoneOrder, PruneOrder,
     DeployOrder DEF WorkerStep
<1>4. CASE Resync
  BY <1>4, KeptByOthers, OthersOrder DEF Resync, OrderInv
<1>5. CASE Disturbance
  BY <1>5, UserOrder
<1>6. ASSUME NEW k \in Orders,
             \/ HoldOrder(k) \/ ForgoOrder(k) \/ ReleaseOrder(k) \/ Collect(k)
      PROVE  OrderInv'
  <2>1. ocache' = order' /\ UNCHANGED <<policy, pcache, queue, worker>>
    BY <1>6 DEF HoldOrder, ForgoOrder, ReleaseOrder, Collect, Informed, Elsewhere
  <2>2. Kept
    BY <1>6, KeptByOthers DEF Collect
  <2> QED BY <2>1, <2>2, OthersOrder
<1>7. ASSUME NEW k \in Orders, DeliverOrder(k) PROVE OrderInv'
  BY <1>7 DEF DeliverOrder, OrderInv
<1>8. CASE UNCHANGED vars
  BY <1>8, KeptByOthers, OthersOrder DEF vars, OrderInv
<1> QED BY <1>1, <1>2, <1>3, <1>4, <1>5, <1>6, <1>7, <1>8 DEF Next

LEMMA OrderAlways ==
  ASSUME ~Lagging
  PROVE  Spec => [](TypeInv /\ PolicyInv /\ OrderInv)
<1>1. ASSUME TypeInv, TypeInv', PolicyInv, PolicyInv', OrderInv, [Next]_vars
      PROVE  OrderInv'
  BY <1>1, NextOrder
<1>2. TypeInv /\ PolicyInv /\ OrderInv /\ [Next]_vars
        => (TypeInv /\ PolicyInv /\ OrderInv)'
  BY <1>1, NextTypes, NextPolicy
<1> QED BY <1>2, InitTypes, InitPolicy, InitOrder, PTL DEF Spec

\* At rest every order is asked for by the policy in force.
LEMMA AskedAtRest ==
  ASSUME TypeInv, PolicyInv, OrderInv, Quiet, NEW k \in Existing(order)
  PROVE  Asked(k, InForce, policy[InForce].config)
<1>1. pcache = policy /\ \A p \in Policies : ~pcache[p].deleting
  BY DEF Quiet, PolicyInv, ObjectsWhole, Whole, DeletionsSeen, At
<1>2. k \in Orders /\ order[k].exists /\ ~order[k].deleting /\ ~order[k].orphan
  BY ExistingOnes DEF Quiet
<1>3. policy[k[1]].exists /\ k[1] \in Policies
  BY <1>2 DEF OrderInv, Owned, Orders
<1>4. Existing(pcache) # {}
  BY <1>1, <1>3, ExistingOnes
<1> QED BY <1>1, <1>2, <1>4 DEF OrderInv, RestInv, Quiet, InForce

(***************************************************************************)
(* No two policies manage the namespace: at rest every order belongs to    *)
(* the policy in force, whatever policies were created, edited or deleted  *)
(* and whichever reconciles failed or were cut short on the way            *)
(* (FetchSleepPolicyOrContinue, deleteUndesiredResources), as long as the  *)
(* cache of the orders shows what is stored.                               *)
(***************************************************************************)
THEOREM OnePolicyRules ==
  ASSUME ~Lagging PROVE Spec => []NoRivals
<1>1. TypeInv /\ PolicyInv /\ OrderInv => NoRivals
  BY AskedAtRest DEF NoRivals, Asked
<1> QED BY <1>1, OrderAlways, PTL

(***************************************************************************)
(* No order runs on an old schedule: at rest it has the one the policy     *)
(* gives its workload now (needToDeploySleepOrder and                      *)
(* DeploySleepOrderResource), under the same assumption.                   *)
(***************************************************************************)
THEOREM SchedulesUpToDate ==
  ASSUME ~Lagging PROVE Spec => []UpToDate
<1>1. TypeInv /\ PolicyInv /\ OrderInv => UpToDate
  BY AskedAtRest DEF UpToDate, Asked
<1> QED BY <1>1, OrderAlways, PTL
=============================================================================
