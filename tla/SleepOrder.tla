----------------------------- MODULE SleepOrder -----------------------------
(***************************************************************************)
(* The SleepOrder controller (internal/controller/sleeporder_controller.go) *)
(* working on one workload, a Deployment or a StatefulSet.  Every order in *)
(* Orders names that workload as its target.                               *)
(*                                                                         *)
(* The controller reads through an informer cache and writes through the   *)
(* API server, which refuses a write made from an outdated copy.  The one  *)
(* worker of the controller takes one step per call on the client, so that *)
(* the rest of the cluster can move between any two calls.                 *)
(***************************************************************************)
EXTENDS Integers, Sequences

CONSTANTS
  Orders,    \* names of the SleepOrders whose target is the workload
  Desired,   \* replicas of the workload's manifest
  Counts,    \* replica counts an operator may scale the workload to
  Bare,      \* the workload carries no annotation of anybody else
  MaxLag,    \* bound: versions of an object the cache may be behind
  MaxTries,  \* retries RetryOnConflict makes after the first attempt
  Env,       \* what the rest of the cluster may do, a subset of EnvKinds
  None,      \* no annotation, no status, no order
  Garbled,   \* an annotation strconv.Atoi refuses
  Empty      \* an annotation that is there with nothing in it

EnvKinds == {"touch", "scale", "recreate", "garble", "delete", "early",
             "policy", "edit", "apierror", "crash"}

ASSUME SleepOrderAssumption ==
  /\ Desired \in Nat \ {0}
  /\ Counts \subseteq Nat
  /\ Bare \in BOOLEAN
  /\ MaxLag \in Nat
  /\ MaxTries \in Nat
  /\ Env \subseteq EnvKinds
  /\ None \notin Nat /\ Garbled \notin Nat /\ Empty \notin Nat
  /\ None # Garbled /\ None # Empty /\ Garbled # Empty
  /\ None \notin Orders

VARIABLES
  target,  \* versions of the workload: the first is cached, the last stored
  order,   \* per order, its versions in the same form
  phase,   \* per order, what GetTimeState would answer now
  spoilt,  \* history: see Spoils
  worker   \* the controller's one worker

vars == <<target, order, phase, spoilt, worker>>

Saved == Nat \cup {None, Garbled, Empty}
Target == [exists : BOOLEAN, replicas : Nat, saved : Saved]
Order == [exists : BOOLEAN, deleting : BOOLEAN, fin : BOOLEAN,
          state : {None, "Sleeping", "Awake", "Error TargetNotFound"},
          original : Nat \cup {None}]
Phases == {"Sleeping", "Awake", "invalid"}
Steps == {"idle", "target", "missing", "finalizer", "addFin", "restoreGet",
          "restorePut", "rewrite", "dropFin", "snapGet", "snapPut", "zero",
          "status", "statusPut"}
Worker == [pc : Steps, path : {"finalizer", "act"},
           order : Orders \cup {None},
           verdict : {"Sleeping", "Awake", "Error TargetNotFound"},
           count : Nat \cup {None}, tries : 0..MaxTries,
           copy : [replicas : Nat, saved : Saved],
           tfresh : BOOLEAN, ofresh : BOOLEAN]

-----------------------------------------------------------------------------
(* Objects behind the cache.                                               *)

Cached(vs) == Head(vs)
Stored(vs) == vs[Len(vs)]
Synced(vs) == Len(vs) = 1

\* A write that changed the object: a new version the cache has yet to see.
Publish(vs, v) == Append(IF Len(vs) > MaxLag THEN Tail(vs) ELSE vs, v)

\* An update; one that changes nothing makes no new version.
Save(vs, v) == IF v = Stored(vs) THEN vs ELSE Publish(vs, v)

\* Mutant: the API server takes every write, as a patch would be.
AnswerUnchecked(vs, fresh) == IF Stored(vs).exists THEN "OK" ELSE "NotFound"

\* What the API server answers to an update from a copy with that freshness.
Answer(vs, fresh) ==
  IF ~Stored(vs).exists THEN "NotFound" ELSE IF fresh THEN "OK" ELSE "Conflict"

GoneTarget == [exists |-> FALSE, replicas |-> 0, saved |-> None]
NewTarget == [exists |-> TRUE, replicas |-> Desired, saved |-> None]
GoneOrder == [exists |-> FALSE, deleting |-> FALSE, fin |-> FALSE,
              state |-> None, original |-> None]
NewOrder == [GoneOrder EXCEPT !.exists = TRUE]

\* A deleted object goes when its last finalizer does.
Settle(v) == IF v.deleting /\ ~v.fin THEN GoneOrder ELSE v

Idle == [pc |-> "idle", path |-> "act", order |-> None, verdict |-> "Awake",
         count |-> None, tries |-> 0,
         copy |-> [replicas |-> 0, saved |-> None],
         tfresh |-> FALSE, ofresh |-> FALSE]

Init ==
  /\ target = <<NewTarget>>
  /\ order = [o \in Orders |-> <<GoneOrder>>]
  /\ phase \in [Orders -> {"Sleeping", "Awake"}]
  /\ spoilt = FALSE
  /\ worker = Idle

-----------------------------------------------------------------------------
(* How the worker goes on.                                                 *)

\* Mutant: handleSleep scales down without a snapshot.
ProceedUnsaved(wk) ==
  [wk EXCEPT !.path = "act",
             !.pc = IF wk.verdict = "Sleeping" THEN "zero"
                    ELSE IF wk.count = 0 THEN "restoreGet" ELSE "status"]

\* Mutant: handleWake only reports.
ProceedNoWake(wk) ==
  [wk EXCEPT !.path = "act",
             !.pc = IF wk.verdict = "Awake" THEN "status"
                    ELSE IF wk.copy.saved = None THEN "snapGet" ELSE "zero"]

\* handleFinalizer said "not done": act on the verdict with what was read
\* before it, whether or not it also returned an error.
Proceed(wk) ==
  IF wk.verdict = "Sleeping" /\ wk.copy.saved \in {Garbled, Empty}
  THEN Idle
  ELSE [wk EXCEPT !.path = "act",
                  !.pc = IF wk.verdict = "Sleeping"
                         THEN IF wk.copy.saved = None THEN "snapGet" ELSE "zero"
                         ELSE IF wk.count = 0 THEN "restoreGet" ELSE "status"]

\* Mutant: a conflict is retried without counting.
FailForever(wk, err) ==
  IF wk.path # "finalizer" THEN Idle
  ELSE IF err = "Conflict" THEN [wk EXCEPT !.pc = "finalizer", !.tries = @ + 1]
       ELSE Proceed(wk)

\* A call returned an error.  Outside handleFinalizer the reconcile ends.
\* Inside, a conflict is retried; any other error, and the last conflict, is
\* dropped by the caller because shouldStop is still false.
Fail(wk, err) ==
  IF wk.path # "finalizer" THEN Idle
  ELSE IF err = "Conflict" /\ wk.tries < MaxTries
       THEN [wk EXCEPT !.pc = "finalizer", !.tries = @ + 1]
       ELSE Proceed(wk)

\* r.Update(ctx, sleepOrder): v replaces the stored order.
PutOrder(v, onOK, onNotFound) ==
  LET vs == order[worker.order]
      answer == Answer(vs, worker.ofresh)
  IN /\ order' = IF answer = "OK"
                 THEN [order EXCEPT ![worker.order] = Save(vs, Settle(v))]
                 ELSE order
     /\ worker' = CASE answer = "OK" -> onOK
                    [] answer = "NotFound" -> onNotFound
                    [] answer = "Conflict" -> Fail(worker, "Conflict")
     /\ UNCHANGED <<target, phase, spoilt>>

\* r.Update(ctx, target): the worker's copy, with c's fields, replaces the
\* stored workload.
PutTarget(c, onOK, onNotFound) ==
  LET answer == Answer(target, worker.tfresh)
  IN /\ target' = IF answer = "OK"
                  THEN Save(target, [exists |-> TRUE, replicas |-> c.replicas,
                                     saved |-> c.saved])
                  ELSE target
     /\ worker' = CASE answer = "OK" -> onOK
                    [] answer = "NotFound" -> onNotFound
                    [] answer = "Conflict" -> Fail(worker, "Conflict")
     /\ UNCHANGED <<order, phase, spoilt>>

At(step) == worker.pc = step
Goto(step) == [worker EXCEPT !.pc = step]
CopyOf(v) == [replicas |-> v.replicas, saved |-> v.saved]
ReadOnly == UNCHANGED <<target, order, phase, spoilt>>

(***************************************************************************)
(* What ends the controller's hold on the count of the manifest: somebody  *)
(* else sets the replicas or edits the annotation, or restoreReplicas      *)
(* answers 0 for a workload that is there.  spoilt remembers it.           *)
(***************************************************************************)
Spoils == spoilt' = TRUE

-----------------------------------------------------------------------------
(* The worker's steps.                                                     *)

\* A reconcile starts: an event, the timer, a retry and the resync all lead
\* here, so it may start whenever the worker is free.
Reconcile(o) ==
  /\ At("idle")
  /\ Cached(order[o]).exists
  /\ worker' = [Idle EXCEPT !.pc = "target", !.order = o,
                            !.ofresh = Synced(order[o])]
  /\ ReadOnly

\* getTargetObject, GetTimeState and getReplicas.
GetTargetObject ==
  LET seen == Cached(target)
      verdict == phase[worker.order]
  IN /\ At("target")
     /\ worker' =
          IF ~seen.exists THEN Goto("missing")
          ELSE IF verdict = "invalid" THEN Idle
          ELSE [worker EXCEPT !.pc = "finalizer", !.path = "finalizer",
                              !.verdict = verdict, !.count = seen.replicas,
                              !.copy = CopyOf(seen),
                              !.tfresh = Synced(target)]
     /\ ReadOnly

\* Mutant: the order is deleted with its target.
RemoveOrderTargetMissing ==
  At("missing") /\ PutOrder(GoneOrder, Idle, Idle)

\* The target is not there: drop the finalizer, note it in the status.
RemoveFinalizerTargetMissing ==
  /\ At("missing")
  /\ PutOrder([Stored(order[worker.order]) EXCEPT !.fin = FALSE],
              [worker EXCEPT !.pc = "status",
                             !.verdict = "Error TargetNotFound"],
              Idle)

\* Mutant: the finalizer is never added.
NeedsNoFinalizer(seen, count) ==
  IF ~seen.exists THEN "stop" ELSE IF seen.deleting THEN "dropFin" ELSE "act"

\* Mutant: the finalizer is removed without restoring the workload.
NeedsNoRestore(seen, count) ==
  IF ~seen.exists \/ (seen.deleting /\ ~seen.fin) THEN "stop"
  ELSE IF seen.deleting THEN "dropFin" ELSE IF seen.fin THEN "act" ELSE "addFin"

\* Mutant: the finalizer of an order whose workload runs is kept.
NeedsKeptFinalizer(seen, count) ==
  IF ~seen.exists \/ (seen.deleting /\ (~seen.fin \/ count # 0)) THEN "stop"
  ELSE IF seen.deleting THEN "restoreGet"
  ELSE IF seen.fin THEN "act" ELSE "addFin"

\* Mutant: the workload is restored whatever count was read.
NeedsAlwaysRestores(seen, count) ==
  IF ~seen.exists \/ (seen.deleting /\ ~seen.fin) THEN "stop"
  ELSE IF seen.deleting THEN "restoreGet"
  ELSE IF seen.fin THEN "act" ELSE "addFin"

\* What handleFinalizer has to do for an order whose workload has count
\* replicas.
Needs(seen, count) ==
  IF ~seen.exists \/ (seen.deleting /\ ~seen.fin) THEN "stop"
  ELSE IF seen.deleting THEN IF count = 0 THEN "restoreGet" ELSE "dropFin"
  ELSE IF seen.fin THEN "act" ELSE "addFin"

\* handleFinalizer up to its first write.
HandleFinalizer ==
  LET needs == Needs(Cached(order[worker.order]), worker.count)
      wk == [worker EXCEPT !.ofresh = Synced(order[worker.order])]
  IN /\ At("finalizer")
     /\ worker' = CASE needs = "stop" -> Idle
                    [] needs = "act" -> Proceed(wk)
                    [] OTHER -> [wk EXCEPT !.pc = needs]
     /\ ReadOnly

\* A NotFound is ignored here: the worker goes on as if it had succeeded.
AddFinalizer ==
  /\ At("addFin")
  /\ PutOrder([Stored(order[worker.order]) EXCEPT !.fin = TRUE],
              Proceed(worker), Proceed(worker))

\* restoreReplicas up to its write.  For a workload that has annotations but
\* not this one, or has it empty, it answers 0, which the caller writes; no
\* annotation at all, or one that is no number, is an error.
AnswersZero(seen) ==
  seen.exists /\ (seen.saved = Empty \/ (seen.saved = None /\ ~Bare))

RestoreGet ==
  LET seen == Cached(target)
      wk == [worker EXCEPT !.copy = CopyOf(seen), !.tfresh = Synced(target)]
  IN /\ At("restoreGet")
     /\ worker' =
          IF ~seen.exists THEN Fail(worker, "NotFound")
          ELSE IF AnswersZero(seen)
          THEN [wk EXCEPT !.pc = "rewrite", !.copy.replicas = 0]
          ELSE IF seen.saved \notin Nat THEN Fail(wk, "Error")
          ELSE [wk EXCEPT !.pc = "restorePut",
                          !.copy = [replicas |-> seen.saved, saved |-> None]]
     /\ IF AnswersZero(seen) THEN Spoils ELSE UNCHANGED spoilt
     /\ UNCHANGED <<target, order, phase>>

\* The write inside restoreReplicas.
RestorePut ==
  /\ At("restorePut")
  /\ PutTarget(worker.copy, Goto("rewrite"), Fail(worker, "NotFound"))

\* Mutant: the second write sets zero.
RewriteZero ==
  /\ At("rewrite")
  /\ PutTarget([worker.copy EXCEPT !.replicas = 0],
               Goto(IF worker.path = "finalizer" THEN "dropFin" ELSE "status"),
               Idle)

\* The callers' second write of the same count, after restoreReplicas.
Rewrite ==
  /\ At("rewrite")
  /\ IF worker.path = "finalizer"
     THEN PutTarget(worker.copy, Goto("dropFin"), Proceed(worker))
     ELSE PutTarget(worker.copy,
                    [worker EXCEPT !.pc = "status",
                                   !.count = worker.copy.replicas],
                    Idle)

\* handleFinalizer's last write.  A NotFound leaves shouldStop false.
DropFinalizer ==
  /\ At("dropFin")
  /\ PutOrder([Stored(order[worker.order]) EXCEPT !.fin = FALSE],
              Idle, Proceed(worker))

\* Mutant: the count comes from the fresh read too.
SnapshotGetFresh ==
  LET seen == Cached(target)
  IN /\ At("snapGet")
     /\ worker' = IF ~seen.exists THEN Idle
                  ELSE [worker EXCEPT !.pc = "snapPut",
                          !.copy = [replicas |-> seen.replicas,
                                    saved |-> seen.replicas],
                          !.tfresh = Synced(target)]
     /\ ReadOnly

\* snapshotReplicas: the count comes from the old copy, the rest from a
\* fresh read.
SnapshotGet ==
  LET seen == Cached(target)
  IN /\ At("snapGet")
     /\ worker' = IF ~seen.exists THEN Idle
                  ELSE [worker EXCEPT !.pc = "snapPut",
                          !.copy = [replicas |-> seen.replicas,
                                    saved |-> worker.copy.replicas],
                          !.tfresh = Synced(target)]
     /\ ReadOnly

SnapshotPut ==
  /\ At("snapPut")
  /\ PutTarget(worker.copy, Goto("zero"), Idle)

\* Mutant: the status reports the count after scaling down.
ScaleToZeroCountLost ==
  /\ At("zero")
  /\ PutTarget([worker.copy EXCEPT !.replicas = 0],
               [worker EXCEPT !.pc = "status", !.count = 0], Idle)

\* handleSleep's own write.
ScaleToZero ==
  /\ At("zero")
  /\ PutTarget([worker.copy EXCEPT !.replicas = 0],
               [worker EXCEPT !.pc = "status", !.count = worker.copy.saved],
               Idle)

\* The count a status reports next to the state.
Original == IF worker.verdict = "Error TargetNotFound" THEN None
            ELSE worker.count

\* updateStatus up to its write.  Nothing is written when nothing changed;
\* NextOperationTime may have changed when the other two fields have not.
UpdateStatus ==
  LET seen == Cached(order[worker.order])
      same == seen.state = worker.verdict /\ seen.original = Original
  IN /\ At("status")
     /\ \/ (~seen.exists \/ same) /\ worker' = Idle
        \/ /\ seen.exists
           /\ worker' = [worker EXCEPT !.pc = "statusPut",
                           !.ofresh = Synced(order[worker.order])]
     /\ ReadOnly

StatusPut ==
  LET vs == order[worker.order]
  IN /\ At("statusPut")
     /\ order' = IF Answer(vs, worker.ofresh) = "OK"
                 THEN [order EXCEPT ![worker.order] =
                         Publish(vs, [Stored(vs) EXCEPT
                                        !.state = worker.verdict,
                                        !.original = Original])]
                 ELSE order
     /\ worker' = Idle
     /\ UNCHANGED <<target, phase, spoilt>>

WorkerStep ==
  \/ GetTargetObject \/ RemoveFinalizerTargetMissing
  \/ HandleFinalizer \/ AddFinalizer \/ DropFinalizer
  \/ RestoreGet \/ RestorePut \/ Rewrite
  \/ SnapshotGet \/ SnapshotPut \/ ScaleToZero
  \/ UpdateStatus \/ StatusPut

Controller == (\E o \in Orders : Reconcile(o)) \/ WorkerStep

-----------------------------------------------------------------------------
(* The rest of the cluster.  A write by anybody else makes the worker's    *)
(* copy of that object outdated.                                           *)

WriteTarget(v) ==
  /\ target' = Publish(target, v)
  /\ worker' = [worker EXCEPT !.tfresh = FALSE]
  /\ UNCHANGED <<order, phase>>

WriteOrder(o, v) ==
  /\ order' = [order EXCEPT ![o] = Publish(@, v)]
  /\ worker' = IF worker.order = o THEN [worker EXCEPT !.ofresh = FALSE]
               ELSE worker
  /\ UNCHANGED <<target, spoilt>>

\* The deployment controller writes the status, kubectl a label.
Touch ==
  /\ "touch" \in Env /\ Stored(target).exists
  /\ WriteTarget(Stored(target)) /\ UNCHANGED spoilt

\* kubectl scale, or an autoscaler.
Scale(n) ==
  /\ "scale" \in Env /\ Stored(target).exists /\ Stored(target).replicas # n
  /\ WriteTarget([Stored(target) EXCEPT !.replicas = n]) /\ Spoils

DeleteTarget ==
  /\ "recreate" \in Env /\ Stored(target).exists
  /\ WriteTarget(GoneTarget) /\ UNCHANGED spoilt

CreateTarget ==
  /\ ~Stored(target).exists
  /\ WriteTarget(NewTarget) /\ UNCHANGED spoilt

\* Somebody edits the annotation into something that is no number, or
\* empties it.
Garble ==
  /\ "garble" \in Env /\ Stored(target).exists
  /\ Stored(target).saved \in Nat
  /\ \E text \in {Garbled, Empty} :
       WriteTarget([Stored(target) EXCEPT !.saved = text])
  /\ Spoils

\* The policy controller, or a user, creates the order: no finalizer yet.
CreateOrder(o) ==
  /\ ~Stored(order[o]).exists
  /\ WriteOrder(o, NewOrder)
  /\ phase' \in {[phase EXCEPT ![o] = p] : p \in {"Sleeping", "Awake"}}

\* A deletion waits for the finalizer; "early" is one that finds none.
DeleteOrder(o) ==
  LET v == Stored(order[o])
  IN /\ v.exists /\ ~v.deleting
     /\ (IF v.fin THEN "delete" ELSE "early") \in Env
     /\ WriteOrder(o, Settle([v EXCEPT !.deleting = TRUE]))
     /\ UNCHANGED phase

\* DeploySleepOrderResource updates the order with an object it built from
\* nothing but the new spec, so the update carries no finalizer.
PolicyUpdate(o) ==
  LET v == Stored(order[o])
  IN /\ "policy" \in Env /\ v.exists
     /\ WriteOrder(o, Settle([v EXCEPT !.fin = FALSE]))
     /\ phase' \in {[phase EXCEPT ![o] = p] : p \in Phases}

\* A user edits the spec in place.
EditSchedule(o) ==
  LET v == Stored(order[o])
  IN /\ "edit" \in Env /\ v.exists
     /\ WriteOrder(o, v)
     /\ phase' \in {[phase EXCEPT ![o] = p] : p \in Phases}

\* The clock crosses a boundary of the schedule.
Tick(o) ==
  /\ phase[o] # "invalid"
  /\ phase' = [phase EXCEPT ![o] = IF @ = "Sleeping" THEN "Awake"
                                   ELSE "Sleeping"]
  /\ UNCHANGED <<target, order, spoilt, worker>>

\* The informer delivers its next event.
DeliverTarget ==
  /\ ~Synced(target) /\ target' = Tail(target)
  /\ UNCHANGED <<order, phase, spoilt, worker>>

DeliverOrder(o) ==
  /\ ~Synced(order[o]) /\ order' = [order EXCEPT ![o] = Tail(@)]
  /\ UNCHANGED <<target, phase, spoilt, worker>>

\* The API server answers a write with an error that is neither a conflict
\* nor a NotFound; the write is not made.
ApiError ==
  /\ "apierror" \in Env
  /\ worker.pc \in {"missing", "addFin", "restorePut", "rewrite", "dropFin",
                    "snapPut", "zero", "statusPut"}
  /\ worker' = Fail(worker, "Error")
  /\ ReadOnly

\* The manager stops and its successor starts: its caches are filled anew.
Crash ==
  /\ "crash" \in Env
  /\ worker' = Idle
  /\ target' = <<Stored(target)>>
  /\ order' = [o \in Orders |-> <<Stored(order[o])>>]
  /\ UNCHANGED <<phase, spoilt>>

Environment ==
  \/ Touch \/ DeleteTarget \/ CreateTarget \/ Garble
  \/ DeliverTarget \/ ApiError \/ Crash
  \/ \E n \in Counts : Scale(n)
  \/ \E o \in Orders : \/ CreateOrder(o) \/ DeleteOrder(o) \/ PolicyUpdate(o)
                       \/ EditSchedule(o) \/ Tick(o) \/ DeliverOrder(o)

Next == Controller \/ Environment

Spec == Init /\ [][Next]_vars

(***************************************************************************)
(* The worker runs, the informers deliver, and every existing order is     *)
(* reconciled again and again: the queue is first-in first-out and the     *)
(* manager resyncs its caches.  The manager does not crash for ever (the   *)
(* end of a reconcile, which may look like a crash, is not meant), and the *)
(* others leave the workload alone some day: they write its status after a *)
(* scaling, and there are only so many of those.                           *)
(***************************************************************************)
FairSpec ==
  /\ Spec
  /\ WF_vars(WorkerStep)
  /\ WF_vars(DeliverTarget)
  /\ \A o \in Orders : SF_vars(Reconcile(o)) /\ WF_vars(DeliverOrder(o))
  /\ <>[][WorkerStep \/ ~(Crash \/ Touch \/ DeleteTarget)]_vars

-----------------------------------------------------------------------------
(* Properties.                                                             *)

Versions(S) == {vs \in Seq(S) : Len(vs) \in 1..(MaxLag + 1)}

TypeOK ==
  /\ target \in Versions(Target)
  /\ order \in [Orders -> Versions(Order)]
  /\ phase \in [Orders -> Phases]
  /\ spoilt \in BOOLEAN
  /\ worker \in Worker

(***************************************************************************)
(* As long as nobody else scales the workload or edits the annotation, and *)
(* restoreReplicas does not answer 0: whatever the controller has done to  *)
(* the workload, the count of its manifest can be read off the stored      *)
(* object.  The workload runs with it, or it is scaled to zero and the     *)
(* annotation holds it.                                                    *)
(***************************************************************************)
RecoverableAs(v, n) ==
  v.exists => \/ v.replicas = n /\ v.saved \in {None, n}
              \/ v.replicas = 0 /\ v.saved = n

Recoverable == ~spoilt => RecoverableAs(Stored(target), Desired)

(***************************************************************************)
(* restoreReplicas removes the annotation and sets the replicas in one     *)
(* write, from a copy the API server checks: whenever a live workload      *)
(* loses a numeric annotation by a step of the controller, it runs with    *)
(* the number that annotation had at that very moment.                     *)
(***************************************************************************)
RestoreExact ==
  [][LET old == Stored(target)
         new == Stored(target')
     IN Controller /\ old.saved \in Nat /\ new.saved = None
          => new.replicas = old.saved]_vars

(***************************************************************************)
(* A workload the controller has put to zero is watched: some order with   *)
(* the finalizer still exists, so deleting the order brings the workload   *)
(* back first.                                                             *)
(***************************************************************************)
Asleep == Stored(target).exists /\ Stored(target).replicas = 0

Guarded ==
  ~spoilt /\ Asleep
  => \E o \in Orders : Stored(order[o]).exists /\ Stored(order[o]).fin

(***************************************************************************)
(* The status of an order reports, next to the state, the count of the     *)
(* workload's manifest, unless that was spoilt.                            *)
(***************************************************************************)
StatusOriginal ==
  ~spoilt => \A o \in Orders :
               LET v == Stored(order[o])
               IN v.original # None => v.original = Desired

(***************************************************************************)
(* An order being deleted does go: its finalizer is not kept for ever.     *)
(***************************************************************************)
DeletionCompletes ==
  \A o \in Orders : Stored(order[o]).deleting ~> ~Stored(order[o]).exists

(***************************************************************************)
(* Orders whose schedules all settle on one state take the workload there, *)
(* and keep it there, whatever orders were deleted before: to sleep in any *)
(* case, to the count of the manifest unless that was spoilt.              *)
(***************************************************************************)
AllSettled(p) ==
  LET live == {o \in Orders : Stored(order[o]).exists}
  IN /\ live # {} /\ Stored(target).exists
     /\ \A o \in live : ~Stored(order[o]).deleting /\ phase[o] = p

Converges ==
  /\ <>[]AllSettled("Sleeping") => <>[]Asleep
  /\ <>[]AllSettled("Awake") =>
       <>[](spoilt \/ Stored(target).replicas = Desired)

(***************************************************************************)
(* When an order that held the workload by its finalizer goes, the         *)
(* workload, if it is there, runs with the count of its manifest.  This is *)
(* what the tests say of a deletion; the code keeps it only as long as     *)
(* restoreReplicas does not answer 0.                                      *)
(***************************************************************************)
RestoresAtDeletion ==
  \A o \in Orders :
    Stored(order[o]).fin /\ ~Stored(order'[o]).exists /\ Stored(target').exists
    => Stored(target').replicas = Desired

DeletionRestores == [][RestoresAtDeletion]_vars

\* The part of it the code keeps: nobody else scaled the workload or edited
\* its annotation, and restoreReplicas found the count it looked for.
DeletionRestoresUnspoilt == [][~spoilt => RestoresAtDeletion]_vars

(***************************************************************************)
(* restoreReplicas, which answers 0 for a workload that runs without the   *)
(* annotation, is asked that only by a retry: another attempt after a      *)
(* conflict, with the count read before the first.                         *)
(***************************************************************************)
OnlyRetriesSpoil ==
  [][Controller /\ ~spoilt /\ spoilt' => worker.tries > 0]_vars

-----------------------------------------------------------------------------
(* The promise the controller implements: the stored workload, and the     *)
(* orders that hold it by their finalizer.  It ends where the count is     *)
(* spoilt: from then on the workload is none the promise speaks of.        *)

Kept == Stored(target).exists /\ ~spoilt

Promise == INSTANCE Workload WITH
  live <- Kept,
  replicas <- IF Kept THEN Stored(target).replicas ELSE 0,
  saved <- IF Kept THEN Stored(target).saved ELSE None,
  holders <- {o \in Orders : Stored(order[o]).exists /\ Stored(order[o]).fin}

(***************************************************************************)
(* Every step of the controller and of the cluster around it is a step the *)
(* abstract workload may take, or changes nothing it shows.                *)
(***************************************************************************)
ImplementsWorkload == Promise!Spec
=============================================================================
