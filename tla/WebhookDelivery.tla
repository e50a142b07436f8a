-------------------------- MODULE WebhookDelivery --------------------------
(***************************************************************************)
(* Outbound webhooks: from the transaction that writes a record to the     *)
(* receiver's answer.                                                      *)
(*                                                                         *)
(* The webhook hook runs inside the transaction and spawns one background  *)
(* task per matching webhook; the task commits a delivery row, and then    *)
(* enqueues a webhook_delivery job.  A queue worker that executes the job  *)
(* posts the payload and records the outcome in the row.  The job obeys    *)
(* the lease protocol of JobLease; the job of a delivery is <<o, h>>, the  *)
(* operation it tells of and the webhook it is for.                        *)
(***************************************************************************)
EXTENDS Integers, FiniteSets, JobLease

CONSTANTS
  Ops,           \* record operations, one transaction each
  Webhooks,      \* the webhooks of the collection that match them
  MaxAttempts,   \* max_retries of a webhook_delivery job
  MaxMishaps,    \* bound: crashes, errors, overruns
  MaxAdmin       \* bound: toggles and deletions of webhooks, retries and deletions of jobs

ASSUME WebhookDeliveryAssumption ==
  /\ Jobs = Ops \X Webhooks
  /\ MaxAttempts \in Nat \ {0} /\ MaxMishaps \in Nat /\ MaxAdmin \in Nat

VARIABLES
  op,         \* op[o]: the transaction of o
  webhook,    \* webhook[h]: enabled, disabled or deleted
  task,       \* task[j]: the background task that dispatches j
  row,        \* row[j]: the status column of the delivery; "none" and "gone" mean no row
  failures,   \* failures[j]: attempt_number of the job
  at,         \* at[w]: where worker w is in its handler
  mishaps, admin,
  accepted    \* history: deliveries the receiver has answered with 2xx

world == <<op, webhook, task>>
vars == <<leaseVars, world, row, failures, at, mishaps, admin, accepted>>

At == {"idle", "post", "success", "failure", "reportSuccess", "reportFailure"}

TypeOK ==
  /\ LeaseTypeOK
  /\ op \in [Ops -> {"none", "open", "fired", "committed", "rolledback"}]
  /\ webhook \in [Webhooks -> {"enabled", "disabled", "deleted"}]
  /\ task \in [Jobs -> {"none", "create", "enqueue", "ended"}]
  /\ row \in [Jobs -> {"none", "pending", "delivered", "failed", "gone"}]
  /\ failures \in [Jobs -> 0..MaxAttempts]
  /\ at \in [Workers -> At]
  /\ \A w \in Workers : at[w] = "idle" <=> \A j \in Jobs : w \notin runners[j]
  /\ mishaps \in 0..MaxMishaps /\ admin \in 0..MaxAdmin
  /\ accepted \subseteq Jobs

Init ==
  /\ LeaseInit
  /\ op = [o \in Ops |-> "none"]
  /\ webhook = [h \in Webhooks |-> "enabled"]
  /\ task = [j \in Jobs |-> "none"]
  /\ row = [j \in Jobs |-> "none"]
  /\ failures = [j \in Jobs |-> 0]
  /\ at = [w \in Workers |-> "idle"]
  /\ mishaps = 0 /\ admin = 0
  /\ accepted = {}

-----------------------------------------------------------------------------
(* The transaction and the background tasks, in the server process.        *)

Begin(o) ==
  /\ op[o] = "none"
  /\ op' = [op EXCEPT ![o] = "open"]
  /\ UNCHANGED <<leaseVars, webhook, task, row, failures, at, mishaps, admin, accepted>>

\* _dispatch_webhooks, called after the record is written and before the commit: a task for
\* every enabled webhook.
FireHook(o) ==
  /\ op[o] = "open"
  /\ op' = [op EXCEPT ![o] = "fired"]
  /\ task' = [j \in Jobs |-> IF j[1] = o /\ webhook[j[2]] = "enabled" THEN "create" ELSE task[j]]
  /\ UNCHANGED <<leaseVars, webhook, row, failures, at, mishaps, admin, accepted>>

\* The request commits, or a later record of the batch or the commit itself fails.
EndTransaction(o, outcome) ==
  /\ op[o] = "fired"
  /\ op' = [op EXCEPT ![o] = outcome]
  /\ UNCHANGED <<leaseVars, webhook, task, row, failures, at, mishaps, admin, accepted>>

\* dispatch_webhook commits the delivery row; without the webhook's row it fails.
CreateDelivery(j) ==
  /\ task[j] = "create"
  /\ IF webhook[j[2]] = "deleted"
     THEN task' = [task EXCEPT ![j] = "ended"] /\ UNCHANGED row
     ELSE task' = [task EXCEPT ![j] = "enqueue"] /\ row' = [row EXCEPT ![j] = "pending"]
  /\ UNCHANGED <<leaseVars, op, webhook, failures, at, mishaps, admin, accepted>>

\* Faulty variant: the task forgets to enqueue the job.
EnqueueNothing(j) ==
  /\ task[j] = "enqueue"
  /\ task' = [task EXCEPT ![j] = "ended"]
  /\ UNCHANGED <<leaseVars, op, webhook, row, failures, at, mishaps, admin, accepted>>

\* ... and enqueues the job in a transaction of its own.
Enqueue(j) ==
  /\ task[j] = "enqueue"
  /\ Offer(j)
  /\ task' = [task EXCEPT ![j] = "ended"]
  /\ UNCHANGED <<op, webhook, row, failures, at, mishaps, admin, accepted>>

Mishap == mishaps < MaxMishaps /\ mishaps' = mishaps + 1

\* The task meets a database error: it is logged, and the delivery ends there.
TaskFails(j) ==
  /\ task[j] \in {"create", "enqueue"}
  /\ Mishap
  /\ task' = [task EXCEPT ![j] = "ended"]
  /\ UNCHANGED <<leaseVars, op, webhook, row, failures, at, admin, accepted>>

\* The server process dies: open transactions roll back, and its tasks are gone.
ServerDies ==
  /\ Mishap
  /\ op' = [o \in Ops |-> IF op[o] \in {"open", "fired"} THEN "rolledback" ELSE op[o]]
  /\ task' = [j \in Jobs |-> IF task[j] = "none" THEN "none" ELSE "ended"]
  /\ UNCHANGED <<leaseVars, webhook, row, failures, at, admin, accepted>>

-----------------------------------------------------------------------------
(* A queue worker: attempt_webhook_delivery.                               *)

Take(w, j) ==
  /\ Lease(j, w)
  /\ at' = [at EXCEPT ![w] = "post"]
  /\ UNCHANGED <<world, row, failures, mishaps, admin, accepted>>

\* The POST: accepted, refused, never received, or accepted with the answer lost.
Post(w, j, reaches, accepts, answered) ==
  /\ w \in runners[j] /\ at[w] = "post"
  /\ accepted' = IF reaches /\ accepts THEN accepted \cup {j} ELSE accepted
  /\ at' = [at EXCEPT ![w] = IF reaches /\ accepts /\ answered THEN "success" ELSE "failure"]
  /\ UNCHANGED <<leaseVars, world, row, failures, mishaps, admin>>

\* update_status of the delivery, by id; then the handler returns or raises.
RecordOutcome(w, j) ==
  /\ w \in runners[j] /\ at[w] \in {"success", "failure"}
  /\ row' = [row EXCEPT ![j] = IF @ = "gone" THEN "gone"
                               ELSE IF at[w] = "success" THEN "delivered" ELSE "failed"]
  /\ at' = [at EXCEPT ![w] = IF @ = "success" THEN "reportSuccess" ELSE "reportFailure"]
  /\ UNCHANGED <<leaseVars, world, failures, mishaps, admin, accepted>>

\* Faulty variant: the handler does not raise when the receiver refuses.
RaisesNever(w) == FALSE

Raises(w) == at[w] = "reportFailure"

\* The queue's side: done, to be tried again later, or dead.
Fails(j) == IF failures[j] + 1 >= MaxAttempts THEN "dead" ELSE "queued"

Report(w, j) ==
  /\ w \in runners[j] /\ at[w] \in {"reportSuccess", "reportFailure"}
  /\ Settle(j, w, IF Raises(w) THEN Fails(j) ELSE "done")
  /\ failures' = [failures EXCEPT ![j] = IF Raises(w) /\ @ < MaxAttempts THEN @ + 1 ELSE @]
  /\ at' = [at EXCEPT ![w] = "idle"]
  /\ UNCHANGED <<world, row, mishaps, admin, accepted>>

\* Recording the outcome fails, or the handler exceeds job_execution_timeout.
HandlerFails(w, j) ==
  /\ at[w] \in {"post", "success", "failure"}
  /\ Mishap
  /\ Settle(j, w, Fails(j))
  /\ failures' = [failures EXCEPT ![j] = IF @ < MaxAttempts THEN @ + 1 ELSE @]
  /\ at' = [at EXCEPT ![w] = "idle"]
  /\ UNCHANGED <<world, row, admin, accepted>>

WorkerDies(w, j) ==
  /\ Drop(j, w)
  /\ Mishap
  /\ at' = [at EXCEPT ![w] = "idle"]
  /\ UNCHANGED <<world, row, failures, admin, accepted>>

\* Faulty variant: only jobs whose worker is alive are reset.
StaleResetAlive(j) ==
  /\ runners[j] # {}
  /\ Expire({j})
  /\ Mishap
  /\ UNCHANGED <<world, row, failures, at, admin, accepted>>

\* reset_stale_jobs: the job of a dead worker, or of one that overruns its deadline.
StaleReset(j) ==
  /\ Expire({j})
  /\ IF runners[j] = {} THEN UNCHANGED mishaps ELSE Mishap
  /\ UNCHANGED <<world, row, failures, at, admin, accepted>>

-----------------------------------------------------------------------------
(* The endpoints.                                                          *)

Admin == admin < MaxAdmin /\ admin' = admin + 1

\* PUT /webhooks/{id}: jobs that are queued keep the url and secret they were given.
SetEnabled(h, value) ==
  /\ webhook[h] \in {"enabled", "disabled"} \ {value}
  /\ Admin
  /\ webhook' = [webhook EXCEPT ![h] = value]
  /\ UNCHANGED <<leaseVars, op, task, row, failures, at, mishaps, accepted>>

\* DELETE /webhooks/{id} cascades to the deliveries, not to their jobs.
DeleteWebhook(h) ==
  /\ webhook[h] # "deleted"
  /\ Admin
  /\ webhook' = [webhook EXCEPT ![h] = "deleted"]
  /\ row' = [j \in Jobs |-> IF j[2] = h /\ row[j] # "none" THEN "gone" ELSE row[j]]
  /\ UNCHANGED <<leaseVars, op, task, failures, at, mishaps, accepted>>

\* POST /admin/jobs/{id}/retry of a dead job starts its attempts afresh.
RetryJob(j) ==
  /\ Revive(j)
  /\ Admin
  /\ failures' = [failures EXCEPT ![j] = 0]
  /\ UNCHANGED <<world, row, at, mishaps, accepted>>

\* DELETE /admin/jobs/{id}: whoever has seen a job pending, as every job begins, deletes it by
\* id whatever it has become since; the delivery's row stays as it is.
DeleteJob(j) ==
  /\ phase[j] # "gone"
  /\ Remove({j})
  /\ Admin
  /\ UNCHANGED <<world, row, failures, at, mishaps, accepted>>

-----------------------------------------------------------------------------
TaskStep(j)   == CreateDelivery(j) \/ Enqueue(j)
WorkerStep(w) ==
  \E j \in Jobs :
    \/ Take(w, j) \/ RecordOutcome(w, j) \/ Report(w, j)
    \/ \E reaches, accepts, answered \in BOOLEAN : Post(w, j, reaches, accepts, answered)

Next ==
  \/ \E o \in Ops : \/ Begin(o) \/ FireHook(o)
                    \/ \E outcome \in {"committed", "rolledback"} : EndTransaction(o, outcome)
  \/ \E j \in Jobs : TaskStep(j) \/ TaskFails(j) \/ StaleReset(j) \/ RetryJob(j) \/ DeleteJob(j)
  \/ \E w \in Workers : \/ WorkerStep(w)
                        \/ \E j \in Jobs : HandlerFails(w, j) \/ WorkerDies(w, j)
  \/ ServerDies
  \/ \E h \in Webhooks : \/ \E value \in {"enabled", "disabled"} : SetEnabled(h, value)
                         \/ DeleteWebhook(h)

Spec == Init /\ [][Next]_vars

\* Tasks run on, workers poll and get their answers or time out, leases of dead workers end.
FairSpec ==
  /\ Spec
  /\ \A j \in Jobs : WF_vars(TaskStep(j)) /\ WF_vars(runners[j] = {} /\ StaleReset(j))
  /\ \A w \in Workers : WF_vars(WorkerStep(w))

-----------------------------------------------------------------------------
\* A delivery that is shown as delivered, or whose job is completed, was accepted by the
\* receiver; workers may die, overrun their lease or lose a write.
DeliveredWasAccepted ==
  \A j \in Jobs : row[j] = "delivered" \/ phase[j] = "done" => j \in accepted

\* A delivery is not forgotten as long as no task or worker has failed: while it is pending, a
\* task or a job is still to carry it out, unless an administrator has deleted the job.  The
\* row of such a delivery stays pending for good.
PendingIsUnderway ==
  mishaps = 0 =>
    \A j \in Jobs : row[j] = "pending" =>
      task[j] = "enqueue" \/ phase[j] \in {"queued", "leased", "gone"}

\* The job of every delivery ends: done, dead or deleted.
EveryDeliveryEnds == \A j \in Jobs : phase[j] = "queued" ~> [](phase[j] \in {"done", "dead", "gone"})

=============================================================================
