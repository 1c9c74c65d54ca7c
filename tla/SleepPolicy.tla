---------------------------- MODULE SleepPolicy ----------------------------
(***************************************************************************)
(* The SleepPolicy controller (internal/controller/sleeppolicy_controller.go *)
(* and sleeppolicy_logic.go) in one namespace: it turns the policy in      *)
(* force into one SleepOrder per managed workload.                         *)
(*                                                                         *)
(* Only changes of policies start a reconcile, beside errors and the       *)
(* resync of the cache: the controller watches neither workloads nor       *)
(* orders.  Its one worker takes one step per write; policies and orders   *)
(* are read through caches.                                                *)
(***************************************************************************)
EXTENDS FiniteSets, Integers

CONSTANTS
  Policies,   \* names of policies
  Default,    \* the name of the default policy, one of Policies
  Workloads,  \* names of Deployments and StatefulSets
  Kinds,      \* of workloads; a kind also names the default entry of its map
  KindOf,     \* the kind of every workload
  Params,     \* what a resolved entry may come to: times, zone, days
  Added,      \* the Params of the entry the controller adds, {Enable: true}
  Specs,      \* the specs a user may write
  Lagging,    \* the cache of the orders may be behind
  Disturb,    \* which disturbances happen, a subset of DisturbKinds
  MaxEdits,   \* bound: disturbances in a behaviour
  None

DisturbKinds == {"policy", "workload", "order", "error", "restart"}

Entries == Params \cup {"off", None}
Keys == Workloads \cup Kinds
Config == [Keys -> Entries]
Managing == [Workloads -> Params \cup {None}]

ASSUME SleepPolicyAssumption ==
  /\ Default \in Policies /\ Added \in Params
  /\ KindOf \in [Workloads -> Kinds] /\ Workloads \cap Kinds = {}
  /\ Specs \subseteq Config
  /\ Lagging \in BOOLEAN /\ Disturb \subseteq DisturbKinds
  /\ MaxEdits \in Nat
  /\ None \notin Policies \cup Params /\ "off" \notin Params

VARIABLES
  workloads,  \* the workloads there are
  policy,     \* the stored policies
  pcache,     \* the policies as the controller sees them
  order,      \* the stored orders, by policy and workload
  ocache,     \* the orders as the controller sees them
  queue,      \* requests in the work queue
  worker,     \* the controller's one worker
  edits       \* disturbances so far

vars == <<workloads, policy, pcache, order, ocache, queue, worker, edits>>

\* getSleepOrderName joins the two names by dashes; they are taken to be such
\* that no two pairs make the same name.
Orders == Policies \X Workloads
Nothing == [w \in Workloads |-> None]
GonePolicy == [exists |-> FALSE, deleting |-> FALSE, fin |-> FALSE,
               config |-> [key \in Keys |-> None], status |-> Nothing]
GoneOrder == [exists |-> FALSE, deleting |-> FALSE, fin |-> FALSE,
              params |-> None, orphan |-> FALSE]
Idle == [pc |-> "idle", req |-> None, policy |-> None, copy |-> GonePolicy,
         fresh |-> FALSE, desired |-> Nothing, todo |-> {}]

Init ==
  /\ workloads = Workloads
  /\ policy = [p \in Policies |-> GonePolicy] /\ pcache = policy
  /\ order = [k \in Orders |-> GoneOrder] /\ ocache = order
  /\ queue = {} /\ worker = Idle /\ edits = 0

-----------------------------------------------------------------------------
(* The desired state.                                                      *)

\* getEffectiveParams: a workload's own entry, or the default of its kind.
Effective(config, w) ==
  IF config[w] # None THEN config[w] ELSE config[KindOf[w]]

\* Mutant: enable is not looked at.
DesiredWithOff(config, ws) ==
  [w \in Workloads |-> IF w \in ws THEN Effective(config, w) ELSE None]

\* buildTheDesiredState: what to manage and with which parameters.
Desired(config, ws) ==
  [w \in Workloads |->
     IF w \in ws /\ Effective(config, w) \in Params THEN Effective(config, w)
     ELSE None]

\* checkAndBuildValidResource: a kind with an uncovered workload, or with no
\* entry at all, gets a default entry.
Complete(config, ws) ==
  LET ofKind(kind) == {w \in Workloads : KindOf[w] = kind}
      needs(kind) ==
        /\ config[kind] = None
        /\ \/ \E w \in ofKind(kind) \cap ws : config[w] = None
           \/ \A w \in ofKind(kind) : config[w] = None
  IN [key \in Keys |-> IF key \in Kinds /\ needs(key) THEN Added
                       ELSE config[key]]

\* The policy in force among several, if there is one.
Chosen(ps) ==
  LET others == ps \ {Default}
  IN IF Cardinality(ps) = 1 \/ (Cardinality(ps) = 2 /\ Default \in ps)
     THEN IF others = {} THEN Default ELSE CHOOSE p \in others : TRUE
     ELSE None

Existing(objects) == {x \in DOMAIN objects : objects[x].exists}

\* Mutant: the policy in force is fetched though the one asked for is being
\* deleted.
FetchChosen(req) == Chosen(Existing(pcache))

\* Mutant: the default policy wins over a user's.
FetchDefaultFirst(req) ==
  IF pcache[req].exists /\ pcache[req].deleting THEN req
  ELSE IF pcache[Default].exists THEN Default ELSE Chosen(Existing(pcache))

\* FetchSleepPolicyOrContinue; None also stands for an error.
Fetch(req) ==
  IF pcache[req].exists /\ pcache[req].deleting THEN req
  ELSE Chosen(Existing(pcache))

-----------------------------------------------------------------------------
(* Writes.                                                                 *)

Informed == ocache' = IF Lagging THEN ocache ELSE order'

\* What becomes of the orders when the policies are as given: those of a
\* policy that went lose their owner.
Orphaned(policies) ==
  [k \in Orders |->
     IF policy[k[1]].exists /\ ~policies[k[1]].exists /\ order[k].exists
     THEN [order[k] EXCEPT !.orphan = TRUE] ELSE order[k]]

SettlePolicy(v) == IF v.deleting /\ ~v.fin THEN GonePolicy ELSE v
SettleOrder(v) == IF v.deleting /\ ~v.fin THEN GoneOrder ELSE v

StorePolicy(p, v) ==
  /\ policy' = [policy EXCEPT ![p] = SettlePolicy(v)]
  /\ order' = Orphaned(policy') /\ Informed

\* The reconcile returns; with again the request is queued once more.
Return(again) ==
  /\ worker' = Idle
  /\ queue' = IF again THEN queue \cup {worker.req} ELSE queue

\* r.Update and r.Status().Update of the policy, and the return after it.
PutPolicy(v, again) ==
  LET taken == policy[worker.policy].exists /\ worker.fresh
  IN /\ IF taken THEN StorePolicy(worker.policy, v)
        ELSE UNCHANGED <<policy, order, ocache>>
     /\ Return(again \/ ~taken)
     /\ UNCHANGED <<workloads, pcache, edits>>

At(step) == worker.pc = step
Goto(step) == worker' = [worker EXCEPT !.pc = step]

-----------------------------------------------------------------------------
(* The worker's steps.                                                     *)

\* The policy is fetched and completed, and what it needs is decided.
Reconcile(req) ==
  LET p == Fetch(req)
      seen == pcache[p]
      config == Complete(seen.config, workloads)
      step == IF config # seen.config THEN "fix"
              ELSE IF seen.deleting THEN "unfin"
              ELSE IF ~seen.fin THEN "addFin" ELSE "build"
  IN /\ At("idle") /\ req \in queue
     /\ IF p = None
        THEN /\ worker' = Idle
             /\ queue' = IF Existing(pcache) = {} THEN queue \ {req} ELSE queue
        ELSE /\ worker' = [Idle EXCEPT !.pc = step, !.req = req, !.policy = p,
                             !.copy = [seen EXCEPT !.config = config],
                             !.fresh = (seen = policy[p])]
             /\ queue' = queue \ {req}
     /\ UNCHANGED <<workloads, policy, pcache, order, ocache, edits>>

FixSpec == At("fix") /\ PutPolicy(worker.copy, TRUE)

RemoveFinalizer ==
  At("unfin") /\ PutPolicy([worker.copy EXCEPT !.fin = FALSE], FALSE)

AddFinalizer ==
  At("addFin") /\ PutPolicy([worker.copy EXCEPT !.fin = TRUE], TRUE)

\* Mutant: orders of other policies are left alone.
BuildOwnOnly ==
  LET desired == Desired(worker.copy.config, workloads)
  IN /\ At("build")
     /\ worker' = [worker EXCEPT !.pc = "prune", !.desired = desired,
                     !.todo = {k \in Existing(ocache) :
                                 /\ k[1] = worker.policy
                                 /\ desired[k[2]] = None}]
     /\ UNCHANGED <<workloads, policy, pcache, order, ocache, queue, edits>>

\* buildTheDesiredState, and the orders deleteUndesiredResources finds.
Build ==
  LET desired == Desired(worker.copy.config, workloads)
  IN /\ At("build")
     /\ worker' = [worker EXCEPT !.pc = "prune", !.desired = desired,
                     !.todo = {k \in Existing(ocache) :
                                 \/ k[1] # worker.policy
                                 \/ desired[k[2]] = None}]
     /\ UNCHANGED <<workloads, policy, pcache, order, ocache, queue, edits>>

\* A deletion waits for the order's finalizer.
Doom(k) ==
  order' = [order EXCEPT ![k] =
              IF @.exists THEN SettleOrder([@ EXCEPT !.deleting = TRUE])
              ELSE @]

\* deleteUndesiredResources: an order that is already gone is no error.
Prune(k) ==
  /\ At("prune") /\ k \in worker.todo
  /\ worker' = [worker EXCEPT !.todo = @ \ {k}]
  /\ Doom(k) /\ Informed
  /\ UNCHANGED <<workloads, policy, pcache, queue, edits>>

PruneDone ==
  /\ At("prune") /\ worker.todo = {}
  /\ worker' = [worker EXCEPT !.pc = "deploy",
                  !.todo = {worker.policy} \X
                           {w \in Workloads : worker.desired[w] # None}]
  /\ UNCHANGED <<workloads, policy, pcache, order, ocache, queue, edits>>

\* Mutant: an order that exists is not compared with the parameters.
DeployNoHash(k) ==
  /\ At("deploy") /\ k \in worker.todo
  /\ IF ocache[k].exists
     THEN /\ worker' = [worker EXCEPT !.todo = @ \ {k}]
          /\ UNCHANGED <<order, ocache, queue>>
     ELSE /\ IF order[k].exists THEN Return(TRUE) /\ order' = order
             ELSE /\ order' = [order EXCEPT ![k] = [GoneOrder EXCEPT
                                 !.exists = TRUE,
                                 !.params = worker.desired[k[2]]]]
                  /\ worker' = [worker EXCEPT !.todo = @ \ {k}]
                  /\ UNCHANGED queue
          /\ Informed
  /\ UNCHANGED <<workloads, policy, pcache, edits>>

\* needToDeploySleepOrder and DeploySleepOrderResource.  A create fails if
\* the order is there after all, an update if the copy is outdated.  The
\* updated order is built from nothing: it has the new parameters and owner,
\* and no finalizer.
Deploy(k) ==
  LET seen == ocache[k]
      params == worker.desired[k[2]]
      new == IF seen.exists
             THEN SettleOrder([order[k] EXCEPT !.params = params,
                                 !.orphan = FALSE, !.fin = FALSE])
             ELSE [GoneOrder EXCEPT !.exists = TRUE, !.params = params]
  IN /\ At("deploy") /\ k \in worker.todo
     /\ \/ /\ seen.exists /\ seen.params = params
           /\ worker' = [worker EXCEPT !.todo = @ \ {k}]
           /\ UNCHANGED <<order, ocache, queue>>
        \/ /\ ~(seen.exists /\ seen.params = params) /\ seen = order[k]
           /\ worker' = [worker EXCEPT !.todo = @ \ {k}]
           /\ order' = [order EXCEPT ![k] = new] /\ Informed
           /\ UNCHANGED queue
        \/ /\ ~(seen.exists /\ seen.params = params) /\ seen # order[k]
           /\ Return(TRUE)
           /\ UNCHANGED <<order, ocache>>
     /\ UNCHANGED <<workloads, policy, pcache, edits>>

\* The status is written when it differs, and also when it is empty: an empty
\* map reads back as none, which DeepEqual tells apart.
DeployDone ==
  /\ At("deploy") /\ worker.todo = {}
  /\ IF worker.copy.status = worker.desired /\ worker.desired # Nothing
     THEN Return(FALSE)
     ELSE Goto("status") /\ UNCHANGED queue
  /\ UNCHANGED <<workloads, policy, pcache, order, ocache, edits>>

UpdateStatus ==
  At("status")
  /\ PutPolicy([worker.copy EXCEPT !.status = worker.desired], FALSE)

WorkerStep ==
  \/ FixSpec \/ RemoveFinalizer \/ AddFinalizer \/ Build \/ PruneDone
  \/ DeployDone \/ UpdateStatus
  \/ \E k \in Orders : Prune(k) \/ Deploy(k)

-----------------------------------------------------------------------------
(* The informers, the queue's other sources, and the other controllers.    *)

\* An event of a policy queues it.
DeliverPolicy(p) ==
  /\ pcache[p] # policy[p]
  /\ pcache' = [pcache EXCEPT ![p] = policy[p]]
  /\ queue' = queue \cup {p}
  /\ UNCHANGED <<workloads, policy, order, ocache, worker, edits>>

DeliverOrder(k) ==
  /\ ocache[k] # order[k]
  /\ ocache' = [ocache EXCEPT ![k] = order[k]]
  /\ UNCHANGED <<workloads, policy, pcache, order, queue, worker, edits>>

\* The cache resyncs: every policy gets an event.
Resync ==
  /\ queue' = queue \cup Existing(pcache)
  /\ UNCHANGED <<workloads, policy, pcache, order, ocache, worker, edits>>

Elsewhere == UNCHANGED <<workloads, policy, pcache, queue, worker, edits>>

\* The SleepOrder controller adds its finalizer, and removes it in the end
\* from an order being deleted.
HoldOrder(k) ==
  /\ order[k].exists /\ ~order[k].deleting /\ ~order[k].fin
  /\ order' = [order EXCEPT ![k].fin = TRUE] /\ Informed /\ Elsewhere

\* It finds the workload missing and takes its finalizer off a live order.
ForgoOrder(k) ==
  /\ order[k].fin /\ ~order[k].deleting
  /\ order' = [order EXCEPT ![k].fin = FALSE] /\ Informed /\ Elsewhere

ReleaseOrder(k) ==
  /\ order[k].deleting
  /\ order' = [order EXCEPT ![k] = GoneOrder] /\ Informed /\ Elsewhere

\* The garbage collector deletes an order whose owner is gone.
Collect(k) ==
  /\ order[k].exists /\ order[k].orphan /\ ~order[k].deleting
  /\ Doom(k) /\ Informed /\ Elsewhere

-----------------------------------------------------------------------------
(* Disturbances: users, errors and restarts.                               *)

Disturbed(kind) == kind \in Disturb /\ edits < MaxEdits /\ edits' = edits + 1

WritePolicy(p, v) ==
  /\ Disturbed("policy") /\ StorePolicy(p, v)
  /\ worker' = IF worker.policy = p THEN [worker EXCEPT !.fresh = FALSE]
               ELSE worker
  /\ UNCHANGED <<workloads, pcache, queue>>

CreatePolicy(p, config) ==
  /\ ~policy[p].exists
  /\ WritePolicy(p, [GonePolicy EXCEPT !.exists = TRUE, !.config = config])

EditPolicy(p, config) ==
  /\ policy[p].exists /\ policy[p].config # config
  /\ WritePolicy(p, [policy[p] EXCEPT !.config = config])

DeletePolicy(p) ==
  /\ policy[p].exists /\ ~policy[p].deleting
  /\ WritePolicy(p, [policy[p] EXCEPT !.deleting = TRUE])

ToggleWorkload(w) ==
  /\ Disturbed("workload")
  /\ workloads' = IF w \in workloads THEN workloads \ {w}
                  ELSE workloads \cup {w}
  /\ UNCHANGED <<policy, pcache, order, ocache, queue, worker>>

DeleteOrder(k) ==
  /\ Disturbed("order") /\ order[k].exists /\ ~order[k].deleting
  /\ Doom(k) /\ Informed
  /\ UNCHANGED <<workloads, policy, pcache, queue, worker>>

\* A call of the worker fails, and the reconcile with it.
ApiError ==
  /\ Disturbed("error") /\ ~At("idle") /\ Return(TRUE)
  /\ UNCHANGED <<workloads, policy, pcache, order, ocache>>

Restart ==
  /\ Disturbed("restart") /\ worker' = Idle
  /\ pcache' = policy /\ ocache' = order
  /\ queue' = Existing(policy)
  /\ UNCHANGED <<workloads, policy, order>>

Disturbance ==
  \/ \E p \in Policies : \/ DeletePolicy(p)
                         \/ \E config \in Specs : \/ CreatePolicy(p, config)
                                                  \/ EditPolicy(p, config)
  \/ \E w \in Workloads : ToggleWorkload(w)
  \/ \E k \in Orders : DeleteOrder(k)
  \/ ApiError \/ Restart

Next ==
  \/ \E p \in Policies : Reconcile(p) \/ DeliverPolicy(p)
  \/ WorkerStep \/ Resync \/ Disturbance
  \/ \E k \in Orders : \/ DeliverOrder(k) \/ HoldOrder(k) \/ ForgoOrder(k)
                       \/ ReleaseOrder(k) \/ Collect(k)

Spec == Init /\ [][Next]_vars

(***************************************************************************)
(* The worker runs and takes the requests in turn, the informers deliver,  *)
(* the caches resync, and the other two controllers finish a deletion.     *)
(* Workloads come to stay or to be away, so finalizers are not taken off   *)
(* live orders for ever.                                                   *)
(***************************************************************************)
FairSpec ==
  /\ Spec
  /\ WF_vars(WorkerStep) /\ WF_vars(Resync)
  /\ \A p \in Policies : SF_vars(Reconcile(p)) /\ WF_vars(DeliverPolicy(p))
  /\ \A k \in Orders : /\ WF_vars(DeliverOrder(k)) /\ WF_vars(Collect(k))
                       /\ WF_vars(ReleaseOrder(k))
                       /\ <>[][~ForgoOrder(k)]_vars

-----------------------------------------------------------------------------
(* Properties.                                                             *)

TypeOK ==
  /\ workloads \subseteq Workloads
  /\ \A x \in {policy, pcache} :
       x \in [Policies -> [exists : BOOLEAN, deleting : BOOLEAN,
                           fin : BOOLEAN, config : Config, status : Managing]]
  /\ \A x \in {order, ocache} :
       x \in [Orders -> [exists : BOOLEAN, deleting : BOOLEAN, fin : BOOLEAN,
                         params : Params \cup {None}, orphan : BOOLEAN]]
  /\ queue \subseteq Policies
  /\ worker.todo \subseteq Orders /\ worker.desired \in Managing
  /\ edits \in 0..MaxEdits

\* Nothing left to do for the controller, or for those who delete orders.
Quiet ==
  /\ At("idle") /\ queue = {} /\ pcache = policy /\ ocache = order
  /\ \A k \in Orders : ~order[k].deleting /\ ~order[k].orphan

InForce == Chosen(Existing(policy))

(***************************************************************************)
(* At rest no two policies manage the namespace: every order belongs to    *)
(* the policy in force, so no workload has two schedules.                  *)
(***************************************************************************)
NoRivals == Quiet => \A k \in Existing(order) : k[1] = InForce

(***************************************************************************)
(* At rest every order has the schedule the policy gives its workload now. *)
(***************************************************************************)
UpToDate ==
  Quiet => \A k \in Existing(order) :
    k[1] = InForce /\ k[2] \in workloads
      => order[k].params = Effective(policy[k[1]].config, k[2])

(***************************************************************************)
(* At rest no policy is left waiting for its finalizer, neither the one in *)
(* force nor a default policy in the shadow of a user's.                   *)
(***************************************************************************)
NoneLeftDeleting == Quiet => \A p \in Policies : ~policy[p].deleting

(***************************************************************************)
(* At rest the orders are those the policy in force asks for: "created and *)
(* managed automatically by the controller" (README.md:28).                *)
(***************************************************************************)
Ambiguous == InForce = None /\ Existing(policy) # {}

AskedFor(k) == IF k[1] # InForce THEN None
               ELSE Desired(policy[k[1]].config, workloads)[k[2]]

Managed == Ambiguous \/ \A k \in Orders : order[k].params = AskedFor(k)

ManagedAtRest == Quiet => Managed

(***************************************************************************)
(* When users leave the namespace alone, the orders come to be those the   *)
(* policy in force asks for, and stay so.                                  *)
(***************************************************************************)
Converges == <>[]Managed
=============================================================================
