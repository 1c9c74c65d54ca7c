------------------------------ MODULE SleepPod ------------------------------
(***************************************************************************)
(* The SleepPolicy and the SleepOrder controller of one manager at work on *)
(* one workload.  They never call each other: what one writes into an      *)
(* order, the other finds there, and a write by one makes the copies of    *)
(* the other outdated.  Each order is seen from both sides, in made by the *)
(* controller that makes it and in order by the one that carries it out;   *)
(* a step that writes it is a step of both.  The caches of the orders and  *)
(* of the workload are up to date.                                         *)
(***************************************************************************)
EXTENDS FiniteSets, Integers, Sequences

CONSTANTS
  Policies, Default, Workloads, Kinds, KindOf,  \* as in SleepPolicy
  Params, Added, Specs, Disturb, MaxEdits,
  Replicas,                                     \* Desired of SleepOrder
  Bare, MaxTries, Garbled, Empty,               \* as there
  TouchAt,  \* bound: the worker's steps before which others write a status
  None

\* There is one workload; the rest is what the two parts assume.
ASSUME SleepPodAssumption ==
  /\ Cardinality(Workloads) = 1
  /\ Default \in Policies /\ Added \in Params
  /\ KindOf \in [Workloads -> Kinds] /\ Workloads \cap Kinds = {}
  /\ Specs \subseteq [Workloads \cup Kinds -> Params \cup {"off", None}]
  /\ Disturb \subseteq {"policy", "workload", "order", "error", "restart"}
  /\ MaxEdits \in Nat /\ MaxTries \in Nat
  /\ Replicas \in Nat \ {0} /\ Bare \in BOOLEAN
  /\ None \notin Policies \cup Params /\ "off" \notin Params
  /\ None \notin Nat /\ Garbled \notin Nat /\ Empty \notin Nat
  /\ None # Garbled /\ None # Empty /\ Garbled # Empty
  /\ None \notin Policies \X Workloads

VARIABLES
  workloads, policy, pcache, made, ocache, queue, maker, edits,
  target, order, phase, spoilt, worker

madeVars == <<workloads, policy, pcache, made, ocache, queue, maker, edits>>
orderVars == <<target, order, phase, spoilt, worker>>
vars == <<madeVars, orderVars>>

P == INSTANCE SleepPolicy
     WITH order <- made, worker <- maker, Lagging <- FALSE

\* Of the cluster around SleepOrder, what is not here already.
Around == {"delete", "early", "policy", "recreate", "crash", "touch"}

O == INSTANCE SleepOrder
     WITH Orders <- Policies \X Workloads, Desired <- Replicas,
          Counts <- {}, Env <- Around, MaxLag <- 0

Orders == Policies \X Workloads

\* The phase of an order that is not there means nothing.
Alike(k, l) == made[l].params \in {made[k].params, None}

Init == P!Init /\ O!Init /\ \A k, l \in Orders : phase[k] = phase[l]

-----------------------------------------------------------------------------
(* The SleepPolicy controller, and those who write policies.               *)

Deploy(k) ==
  /\ P!Deploy(k)
  /\ IF made' = made THEN UNCHANGED orderVars
     ELSE /\ IF made[k].exists THEN O!PolicyUpdate(k) ELSE O!CreateOrder(k)
          /\ phase'[k] # "invalid"
          /\ \A l \in Orders : made'[l].params = made'[k].params
                               => phase'[l] = phase'[k]

\* An order is deleted by the controller, the garbage collector or a user.
Delete(k) == IF made' = made THEN UNCHANGED orderVars ELSE O!DeleteOrder(k)

MakerStep ==
  \/ /\ \/ P!FixSpec \/ P!RemoveFinalizer \/ P!AddFinalizer \/ P!Build
        \/ P!PruneDone \/ P!DeployDone \/ P!UpdateStatus
     /\ UNCHANGED orderVars
  \/ \E k \in Orders : Deploy(k) \/ (P!Prune(k) /\ Delete(k))

Reconcile(p) == P!Reconcile(p) /\ UNCHANGED orderVars
DeliverPolicy(p) == P!DeliverPolicy(p) /\ UNCHANGED orderVars
Resync == P!Resync /\ UNCHANGED orderVars
Collect(k) == P!Collect(k) /\ Delete(k)

Users ==
  \/ \E p \in Policies :
       /\ \/ P!DeletePolicy(p)
          \/ \E config \in Specs : P!CreatePolicy(p, config)
                                   \/ P!EditPolicy(p, config)
       /\ UNCHANGED orderVars
  \/ \E k \in Orders : P!DeleteOrder(k) /\ Delete(k)

-----------------------------------------------------------------------------
(* The SleepOrder controller.                                              *)

\* The finalizer it adds, and the order it lets go by removing it.
Told ==
  /\ made' = [k \in Orders |->
                LET v == O!Stored(order'[k])
                IN IF v.exists THEN [made[k] EXCEPT !.fin = v.fin]
                   ELSE P!GoneOrder]
  /\ ocache' = made'
  /\ UNCHANGED <<workloads, policy, pcache, queue, maker, edits>>

WorkerStep == O!WorkerStep /\ Told
CarryOut(k) == O!Reconcile(k) /\ Told

-----------------------------------------------------------------------------
(* What befalls both.                                                      *)

\* The clock crosses a boundary of the schedule of k.
Tick(k) ==
  /\ made[k].exists
  /\ phase' = [l \in Orders |->
                 IF ~Alike(k, l) THEN phase[l]
                 ELSE IF phase[k] = "Sleeping" THEN "Awake" ELSE "Sleeping"]
  /\ UNCHANGED <<target, order, spoilt, worker, madeVars>>

ToggleWorkload(w) == P!ToggleWorkload(w) /\ (O!DeleteTarget \/ O!CreateTarget)

\* The deployment controller writes the workload's status.
Touch ==
  /\ edits < MaxEdits /\ worker.pc \in TouchAt
  /\ O!Touch /\ UNCHANGED madeVars

\* The one process stops, and its successor starts.
Restart == P!Restart /\ O!Crash

Next ==
  \/ MakerStep \/ Resync \/ Users \/ WorkerStep \/ Touch \/ Restart
  \/ P!ApiError /\ UNCHANGED orderVars
  \/ \E p \in Policies : Reconcile(p) \/ DeliverPolicy(p)
  \/ \E k \in Orders : Collect(k) \/ CarryOut(k) \/ Tick(k)
  \/ \E w \in Workloads : ToggleWorkload(w)

Spec == Init /\ [][Next]_vars

-----------------------------------------------------------------------------
(* Properties.                                                             *)

\* The two sides keep their types and see the same orders.
TypeOK ==
  /\ P!TypeOK /\ O!TypeOK
  /\ \A k \in Orders :
       LET v == O!Stored(order[k])
       IN /\ v.exists = made[k].exists /\ v.deleting = made[k].deleting
          /\ v.fin = made[k].fin

(***************************************************************************)
(* The SleepOrder controller at its work does to the orders nothing but    *)
(* what the model of the policy controller allows for.  This is P!Spec;    *)
(* that a step leaves madeVars alone comes first, being cheaper to see.    *)
(***************************************************************************)
AsPolicyExpects == P!Init /\ [][UNCHANGED madeVars \/ P!Next]_madeVars

(***************************************************************************)
(* However policies take over from one another, update their orders under  *)
(* the worker's hands or go, and whatever else befalls the orders: the     *)
(* count of the manifest can be read off the stored workload, and it is    *)
(* what the status of an order reports, as long as restoreReplicas did not *)
(* answer 0.                                                               *)
(***************************************************************************)
CountKept == O!Recoverable /\ O!StatusOriginal

(***************************************************************************)
(* When an order that holds the workload by its finalizer goes, because a  *)
(* policy or a user no longer wants it, the workload runs with the count   *)
(* of its manifest, as long as restoreReplicas did not answer 0.  Only an  *)
(* update by the policy controller, which drops the finalizer of an order  *)
(* being deleted, is left aside.                                           *)
(***************************************************************************)
DeletionRestores ==
  [][\A k \in Orders :
       /\ made[k].fin /\ ~made'[k].exists /\ O!Stored(target').exists
       /\ ~spoilt /\ ~Deploy(k)
       => O!Stored(target').replicas = Replicas]_vars
=============================================================================
