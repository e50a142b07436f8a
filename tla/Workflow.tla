------------------------------ MODULE Workflow ------------------------------
(***************************************************************************)
(* The life of one workflow instance: its row, the executors that run it   *)
(* and the endpoints that cancel, resume, edit and delete it.              *)
(*                                                                         *)
(* An executor is a background task of the API process (a trigger or a     *)
(* manual resume) or a queue worker that handles a workflow_resume job.    *)
(* The jobs obey the lease protocol of JobLease.  Every database           *)
(* transaction is one action, except those that read the row, await, and   *)
(* write it: they are two.  A loop or parallel step never touches the row, *)
(* so it is an action step here; its inner steps are not told apart.       *)
(***************************************************************************)
EXTENDS Integers, Sequences, FiniteSets, JobLease

CONSTANTS
  Tasks,             \* background tasks of the API process
  NoJob, NoStep,     \* resume_job_id and next_step are null
  StepNames,         \* the names steps can have
  Definitions,       \* the successive versions of wf.steps, see MCWorkflow
  Fragile,           \* executors that can die or meet a database error
  MaxAttempts,       \* max_retries of a workflow_resume job
  MaxMishaps,        \* bound: crashes, errors and overruns
  MaxManualResumes,  \* bound: uses of the resume endpoint
  MaxEdits           \* bound: edits, toggles and deletion of the workflow, requests about its jobs

Executors == Tasks \cup Workers

ASSUME WorkflowAssumption ==
  /\ Tasks \cap Workers = {}
  /\ NoJob \notin Jobs
  /\ NoStep \notin StepNames
  /\ 1 \in DOMAIN Definitions
  /\ Fragile \subseteq Executors
  /\ MaxAttempts \in Nat \ {0}
  /\ MaxMishaps \in Nat /\ MaxManualResumes \in Nat /\ MaxEdits \in Nat

VARIABLES
  status,         \* the status column; "none" and "gone" stand for no row
  current,        \* the current_step column
  resumeJob,      \* the resume_job_id column
  version,        \* index in Definitions of the workflow's present steps
  enabled,        \* the workflow's enabled column
  target,         \* target[j]: next_step in the payload of resume job j
  due,            \* the jobs whose run_at has come
  failures,       \* failures[j]: the attempt_number of j
  exec,           \* exec[e]: the local state of executor e
  cancelling,     \* a cancel request has passed its status test
  mishaps, manualResumes, edits,
  ran,            \* history: ran[s] counts the executions of step s
  quiet,          \* history: the instance was cancelled while no executor was on it
  waker,          \* history: the resume job of the pause that was saved last
  early           \* history: jobs a worker took before the pause that relies on them was saved

rowVars   == <<status, current, resumeJob>>
wfVars    == <<version, enabled>>
jobVars   == <<phase, runners, broken, target, due, failures>>
bounds    == <<mishaps, manualResumes, edits>>
pauses    == <<waker, early>>
vars == <<rowVars, wfVars, jobVars, exec, cancelling, bounds, ran, quiet, pauses>>

Status == {"none", "pending", "running", "waiting", "completed", "failed", "cancelled", "gone"}
At     == {"idle", "resume", "resumeWrite", "load", "loadWrite", "step", "persist", "finish",
           "report", "lost"}
Outcome == {"success", "failed", "paused"}

\* Where an executor is, and its local variables: start_step, the status it read, the
\* version of the steps it took, the step at hand and what is left of step_iter, then
\* the outcome of the step, explicit_next and the job a wait step has enqueued.
Local == [at : At, start : StepNames \cup {NoStep}, saw : Status, def : DOMAIN Definitions,
          step : StepNames \cup {NoStep}, rest : Seq(StepNames), outcome : Outcome,
          goto : StepNames \cup {NoStep}, job : Jobs \cup {NoJob}]

Idle == [at |-> "idle", start |-> NoStep, saw |-> "none", def |-> 1, step |-> NoStep,
         rest |-> <<>>, outcome |-> "success", goto |-> NoStep, job |-> NoJob]

TypeOK ==
  /\ LeaseTypeOK
  /\ status \in Status
  /\ current \in StepNames \cup {NoStep}
  /\ resumeJob \in Jobs \cup {NoJob}
  /\ version \in DOMAIN Definitions
  /\ enabled \in BOOLEAN
  /\ target \in [Jobs -> StepNames \cup {NoStep}]
  /\ due \subseteq Jobs
  /\ failures \in [Jobs -> 0..MaxAttempts]
  /\ exec \in [Executors -> Local]
  /\ \A w \in Workers : exec[w].at = "idle" <=> \A j \in Jobs : w \notin runners[j]
  /\ cancelling \in BOOLEAN
  /\ mishaps \in 0..MaxMishaps
  /\ manualResumes \in 0..MaxManualResumes
  /\ edits \in 0..MaxEdits
  /\ ran \in [StepNames -> Nat]
  /\ quiet \in BOOLEAN
  /\ waker \in Jobs \cup {NoJob}
  /\ early \subseteq Jobs

Init ==
  /\ LeaseInit
  /\ status = "none" /\ current = NoStep /\ resumeJob = NoJob
  /\ version = 1 /\ enabled = TRUE
  /\ target = [j \in Jobs |-> NoStep] /\ due = {} /\ failures = [j \in Jobs |-> 0]
  /\ exec = [e \in Executors |-> Idle]
  /\ cancelling = FALSE
  /\ mishaps = 0 /\ manualResumes = 0 /\ edits = 0
  /\ ran = [s \in StepNames |-> 0] /\ quiet = FALSE /\ waker = NoJob /\ early = {}

InFlight(e) == exec[e].at \notin {"idle", "report", "lost"}
RowExists   == status \notin {"none", "gone"}

\* e returns: a task is gone, a worker reports to the queue.
Returned(e) == IF e \in Workers THEN [Idle EXCEPT !.at = "report"] ELSE Idle

-----------------------------------------------------------------------------
(* Starting executors.                                                     *)

\* The next task to spawn: tasks are interchangeable, and a lost one does not return.
FreeTasks == {t \in Tasks : exec[t].at = "idle"}
FreeTask  == CHOOSE t \in FreeTasks : TRUE

\* The trigger endpoint, a webhook or an event creates the row and spawns a task; only
\* the manual endpoint does so for a disabled workflow.
Trigger(manual) ==
  /\ status = "none"
  /\ manual \/ enabled
  /\ status' = "pending"
  /\ exec' = [exec EXCEPT ![FreeTask] = [Idle EXCEPT !.at = "load"]]
  /\ UNCHANGED <<current, resumeJob, wfVars, jobVars, cancelling, bounds, ran, quiet, pauses>>

\* POST /workflow-instances/{id}/resume: from the current step, in a new task.
ManualResume ==
  /\ status \in {"failed", "waiting"}
  /\ FreeTasks # {}
  /\ manualResumes < MaxManualResumes
  /\ manualResumes' = manualResumes + 1
  /\ exec' = [exec EXCEPT ![FreeTask] = [Idle EXCEPT !.at = "resume", !.start = current]]
  /\ UNCHANGED <<rowVars, wfVars, jobVars, cancelling, mishaps, edits, ran, quiet, pauses>>

\* run_at of a resume job comes.
DelayElapses(j) ==
  /\ phase[j] = "queued"
  /\ j \notin due
  /\ due' = due \cup {j}
  /\ UNCHANGED <<rowVars, wfVars, leaseVars, target, failures, exec, cancelling, bounds, ran,
                 quiet, pauses>>

\* The executor that has enqueued j has yet to save that the instance waits.
Pausing(j) == \E e \in Executors : exec[e].at = "persist" /\ exec[e].job = j

\* A worker takes a workflow_resume job and calls resume_instance.
WakeUp(w, j) ==
  /\ j \in due
  /\ Lease(j, w)
  /\ exec' = [exec EXCEPT ![w] = [Idle EXCEPT !.at = "resume", !.start = target[j]]]
  /\ early' = IF Pausing(j) THEN early \cup {j} ELSE early
  /\ UNCHANGED <<rowVars, wfVars, target, due, failures, cancelling, bounds, ran, quiet, waker>>

-----------------------------------------------------------------------------
(* resume_instance, then the head of run_instance.                         *)

\* Faulty variant: a cancelled instance is resumed.
ResumeReadCancelled(e) ==
  /\ exec[e].at = "resume"
  /\ exec' = [exec EXCEPT ![e] =
       IF RowExists /\ status # "completed"
       THEN [@ EXCEPT !.at = "resumeWrite", !.saw = status, !.job = resumeJob]
       ELSE Returned(e)]
  /\ UNCHANGED <<rowVars, wfVars, jobVars, cancelling, bounds, ran, quiet, pauses>>

\* Faulty variant: only a waiting instance is resumed.
ResumeReadWaiting(e) ==
  /\ exec[e].at = "resume"
  /\ exec' = [exec EXCEPT ![e] =
       IF RowExists /\ status = "waiting"
       THEN [@ EXCEPT !.at = "resumeWrite", !.saw = status, !.job = resumeJob]
       ELSE Returned(e)]
  /\ UNCHANGED <<rowVars, wfVars, jobVars, cancelling, bounds, ran, quiet, pauses>>

\* Reading the row; a missing, cancelled or completed instance is left alone.
ResumeRead(e) ==
  /\ exec[e].at = "resume"
  /\ exec' = [exec EXCEPT ![e] =
       IF RowExists /\ status \notin {"cancelled", "completed"}
       THEN [@ EXCEPT !.at = "resumeWrite", !.saw = status, !.job = resumeJob]
       ELSE Returned(e)]
  /\ UNCHANGED <<rowVars, wfVars, jobVars, cancelling, bounds, ran, quiet, pauses>>

\* A column is written only if it differs from what was read; an UPDATE that finds no
\* row raises.
Store(e, newStatus) == IF exec[e].saw = newStatus THEN status ELSE newStatus
Writes(e)           == exec[e].saw # "running" \/ exec[e].job # NoJob

ResumeWrite(e) ==
  /\ exec[e].at = "resumeWrite"
  /\ Writes(e) => RowExists
  /\ status' = Store(e, "running")
  /\ resumeJob' = IF exec[e].job = NoJob THEN resumeJob ELSE NoJob
  /\ exec' = [exec EXCEPT ![e] = [@ EXCEPT !.at = "load", !.job = NoJob]]
  /\ UNCHANGED <<current, wfVars, jobVars, cancelling, bounds, ran, quiet, pauses>>

\* Faulty variant: start_step is ignored.
LoadReadCurrent(e) ==
  LET D     == Definitions[version].order
      known == {i \in DOMAIN D : D[i] = current}
  IN
  /\ exec[e].at = "load"
  /\ exec' = [exec EXCEPT ![e] =
       IF RowExists /\ status \notin {"cancelled", "completed"}
       THEN [@ EXCEPT !.at = "loadWrite", !.saw = status, !.def = version,
                      !.rest = IF known = {} THEN D
                               ELSE SubSeq(D, CHOOSE i \in known : TRUE, Len(D))]
       ELSE Returned(e)]
  /\ UNCHANGED <<rowVars, wfVars, jobVars, cancelling, bounds, ran, quiet, pauses>>

\* Reading the row and the workflow; start_step or else current_step decides where to
\* begin, an unknown name means at the beginning.
LoadRead(e) ==
  LET D     == Definitions[version].order
      begin == IF exec[e].start # NoStep THEN exec[e].start ELSE current
      known == {i \in DOMAIN D : D[i] = begin}
  IN
  /\ exec[e].at = "load"
  /\ exec' = [exec EXCEPT ![e] =
       IF RowExists /\ status \notin {"cancelled", "completed"}
       THEN [@ EXCEPT !.at = "loadWrite", !.saw = status, !.def = version,
                      !.rest = IF known = {} THEN D
                               ELSE SubSeq(D, CHOOSE i \in known : TRUE, Len(D))]
       ELSE Returned(e)]
  /\ UNCHANGED <<rowVars, wfVars, jobVars, cancelling, bounds, ran, quiet, pauses>>

\* The top of the while loop: the step explicit_next names, else the next of step_iter;
\* a name that no step has, or an exhausted iterator, ends the loop.
Proceed(local, goto, rest) ==
  CASE goto \in {Definitions[local.def].order[i] : i \in DOMAIN Definitions[local.def].order} ->
         [local EXCEPT !.at = "step", !.step = goto, !.rest = rest, !.goto = NoStep]
    [] goto = NoStep /\ rest # <<>> ->
         [local EXCEPT !.at = "step", !.step = Head(rest), !.rest = Tail(rest), !.goto = NoStep]
    [] OTHER -> [local EXCEPT !.at = "finish", !.rest = <<>>, !.goto = NoStep]

LoadWrite(e) ==
  /\ exec[e].at = "loadWrite"
  /\ Writes(e) => RowExists
  /\ status' = Store(e, "running")
  /\ exec' = [exec EXCEPT ![e] = Proceed(@, NoStep, @.rest)]
  /\ UNCHANGED <<current, resumeJob, wfVars, jobVars, cancelling, bounds, ran, quiet, pauses>>

\* The row has gone since it was read: the UPDATE raises, which ends a task; a worker's
\* job fails and is retried, or is dead after its last attempt.
WriteFails(e) ==
  /\ exec[e].at \in {"resumeWrite", "loadWrite"}
  /\ Writes(e) /\ ~RowExists
  /\ exec' = [exec EXCEPT ![e] = Idle]
  /\ IF e \in Tasks
     THEN UNCHANGED <<leaseVars, failures, due>>
     ELSE \E j \in Jobs :
            /\ Settle(j, e, IF failures[j] + 1 >= MaxAttempts THEN "dead" ELSE "queued")
            /\ failures' = [failures EXCEPT ![j] = IF @ < MaxAttempts THEN @ + 1 ELSE @]
            /\ due' = due \ {j}
  /\ UNCHANGED <<rowVars, wfVars, target, cancelling, bounds, ran, quiet, pauses>>

-----------------------------------------------------------------------------
(* One step of the workflow, and what is saved after it.                   *)

StepType(e) == Definitions[exec[e].def].type[exec[e].step]

Done(e, outcome, goto, job) ==
  /\ exec[e].at = "step"
  /\ exec' = [exec EXCEPT ![e] = [@ EXCEPT !.at = "persist", !.outcome = outcome,
                                           !.goto = goto, !.job = job]]
  /\ ran' = [ran EXCEPT ![exec[e].step] = @ + 1]
  /\ UNCHANGED <<rowVars, wfVars, cancelling, bounds, quiet, pauses>>

\* An action, loop or parallel step succeeds or raises; the wait steps that are not yet
\* implemented are skipped.
ExecuteAction(e, outcome) ==
  /\ exec[e].at = "step"
  /\ \/ StepType(e) = "action" /\ outcome \in {"success", "failed"}
     \/ StepType(e) = "skip" /\ outcome = "success"
  /\ Done(e, outcome, NoStep, NoJob)
  /\ UNCHANGED jobVars

\* A condition step picks its branch.
ExecuteCondition(e, holds) ==
  LET d == Definitions[exec[e].def] s == exec[e].step IN
  /\ exec[e].at = "step"
  /\ StepType(e) = "condition"
  /\ Done(e, "success", IF holds THEN d.onTrue[s] ELSE d.onFalse[s], NoJob)
  /\ UNCHANGED jobVars

\* A wait_delay step enqueues its resume job, in a transaction of its own.
ExecuteWait(e) ==
  LET fresh == {k \in Jobs : phase[k] = "none"}
      j     == CHOOSE k \in fresh : TRUE
  IN
  /\ exec[e].at = "step"
  /\ StepType(e) = "wait"
  /\ fresh # {}
  /\ Offer(j)
  /\ target' = [target EXCEPT ![j] = Definitions[exec[e].def].next[exec[e].step]]
  /\ Done(e, "paused", NoStep, j)
  /\ UNCHANGED <<due, failures>>

\* Setting up a wait fails: its duration cannot be parsed, or the job is not enqueued.
ExecuteWaitFails(e) ==
  /\ exec[e].at = "step"
  /\ StepType(e) = "wait"
  /\ Done(e, "failed", NoStep, NoJob)
  /\ UNCHANGED jobVars

\* The step log and the row are saved; what comes next depends on the outcome, on the
\* branch of a condition and on the step's next, which exhausts the iterator.
Persist(e) ==
  LET step == exec[e].step
      next == Definitions[exec[e].def].next[step]
      jump == StepType(e) # "condition" /\ next # NoStep
  IN
  /\ exec[e].at = "persist"
  /\ IF ~RowExists
     THEN /\ exec' = [exec EXCEPT ![e] = Returned(e)]
          /\ UNCHANGED <<rowVars, waker>>
     ELSE /\ current' = step
          /\ status' = CASE exec[e].outcome = "failed" -> "failed"
                         [] exec[e].outcome = "paused" -> "waiting"
                         [] OTHER                      -> status
          /\ resumeJob' = IF exec[e].outcome = "paused" THEN exec[e].job ELSE resumeJob
          /\ waker' = IF exec[e].outcome = "paused" THEN exec[e].job ELSE waker
          /\ exec' = [exec EXCEPT ![e] =
               IF @.outcome # "success" THEN Returned(e)
                 ELSE IF jump THEN Proceed(@, next, <<>>)
                 ELSE Proceed(@, @.goto, @.rest)]
  /\ UNCHANGED <<wfVars, jobVars, cancelling, bounds, ran, quiet, early>>

\* All steps are done: completed, whatever the status has become.
Finish(e) ==
  /\ exec[e].at = "finish"
  /\ status' = IF RowExists THEN "completed" ELSE status
  /\ exec' = [exec EXCEPT ![e] = Returned(e)]
  /\ UNCHANGED <<current, resumeJob, wfVars, jobVars, cancelling, bounds, ran, quiet, pauses>>

\* The job handler has returned: the queue records the job as completed.
Report(w, j) ==
  /\ exec[w].at = "report"
  /\ Settle(j, w, "done")
  /\ exec' = [exec EXCEPT ![w] = Idle]
  /\ UNCHANGED <<rowVars, wfVars, target, due, failures, cancelling, bounds, ran, quiet, pauses>>

-----------------------------------------------------------------------------
(* Failures.                                                               *)

Mishap ==
  /\ mishaps < MaxMishaps
  /\ mishaps' = mishaps + 1
  /\ UNCHANGED <<rowVars, wfVars, target, cancelling, manualResumes, edits, ran, quiet, pauses>>

\* A task is lost with its process, or raises: nobody takes over, and it stays lost.
TaskLost(t) ==
  /\ t \in Fragile
  /\ InFlight(t)
  /\ Mishap
  /\ exec' = [exec EXCEPT ![t] = [Idle EXCEPT !.at = "lost"]]
  /\ UNCHANGED <<leaseVars, due, failures>>

\* A worker dies: its job stays leased until it expires.
WorkerDies(w, j) ==
  /\ w \in Fragile
  /\ Drop(j, w)
  /\ Mishap
  /\ exec' = [exec EXCEPT ![w] = Idle]
  /\ UNCHANGED <<due, failures>>

\* Faulty variant: the handler swallows its errors, and the job counts as done.
HandlerFailsSilently(w, j) ==
  /\ w \in Fragile
  /\ InFlight(w)
  /\ Settle(j, w, "done")
  /\ Mishap
  /\ exec' = [exec EXCEPT ![w] = Idle]
  /\ UNCHANGED <<due, failures>>

\* The handler raises or exceeds job_execution_timeout: the job is retried later.
HandlerFails(w, j) ==
  /\ w \in Fragile
  /\ InFlight(w)
  /\ Settle(j, w, IF failures[j] + 1 >= MaxAttempts THEN "dead" ELSE "queued")
  /\ failures' = [failures EXCEPT ![j] = IF @ < MaxAttempts THEN @ + 1 ELSE @]
  /\ due' = due \ {j}
  /\ Mishap
  /\ exec' = [exec EXCEPT ![w] = Idle]

\* reset_stale_jobs: the job of a dead worker, or of one that overruns its deadline.
StaleReset(j) ==
  /\ phase[j] = "leased"
  /\ Expire({j})
  /\ IF runners[j] = {}
     THEN UNCHANGED <<rowVars, wfVars, target, cancelling, bounds, ran, quiet, pauses>>
     ELSE Mishap
  /\ UNCHANGED <<due, failures, exec>>

-----------------------------------------------------------------------------
(* The endpoints that act on a live instance.                              *)

\* POST /workflow-instances/{id}/cancel: the status test ...
CancelRead ==
  /\ RowExists
  /\ status \notin {"completed", "cancelled"}
  /\ ~cancelling
  /\ cancelling' = TRUE
  /\ UNCHANGED <<rowVars, wfVars, jobVars, exec, bounds, ran, quiet, pauses>>

\* ... and the write; it raises if the row has gone.
CancelWrite ==
  /\ cancelling
  /\ cancelling' = FALSE
  /\ status' = IF RowExists THEN "cancelled" ELSE status
  /\ quiet' = (quiet \/ (RowExists /\ \A e \in Executors : ~InFlight(e)))
  /\ UNCHANGED <<current, resumeJob, wfVars, jobVars, exec, bounds, ran, pauses>>

Edit ==
  /\ edits < MaxEdits
  /\ edits' = edits + 1
  /\ UNCHANGED <<jobVars, exec, cancelling, mishaps, manualResumes, ran, quiet, pauses>>

\* PUT /workflows/{id}: new steps, also for instances that wait.
UpdateWorkflow ==
  /\ version + 1 \in DOMAIN Definitions
  /\ version' = version + 1
  /\ Edit
  /\ UNCHANGED <<rowVars, enabled>>

\* PATCH /workflows/{id}/toggle
ToggleWorkflow ==
  /\ enabled' = ~enabled
  /\ Edit
  /\ UNCHANGED <<rowVars, version>>

\* DELETE /workflows/{id} cascades to the instance.
DeleteWorkflow ==
  /\ status' = "gone" /\ current' = NoStep /\ resumeJob' = NoJob
  /\ Edit
  /\ UNCHANGED wfVars

EditJobs ==
  /\ edits < MaxEdits
  /\ edits' = edits + 1
  /\ UNCHANGED <<rowVars, wfVars, target, exec, cancelling, mishaps, manualResumes, ran, quiet, pauses>>

\* DELETE /admin/jobs/{id}: whoever has seen a job pending, as every job begins, deletes it by
\* id whatever it has become since.
DeleteJob(j) ==
  /\ phase[j] # "gone"
  /\ Remove({j})
  /\ EditJobs
  /\ UNCHANGED <<due, failures>>

\* POST /admin/jobs/{id}/retry: a dead job is due at once and has all its attempts again.
RetryJob(j) ==
  /\ Revive(j)
  /\ due' = due \cup {j}
  /\ failures' = [failures EXCEPT ![j] = 0]
  /\ EditJobs

-----------------------------------------------------------------------------
ExecutorStep(e) ==
  \/ ResumeRead(e) \/ ResumeWrite(e) \/ LoadRead(e) \/ LoadWrite(e) \/ WriteFails(e)
  \/ \E outcome \in {"success", "failed"} : ExecuteAction(e, outcome)
  \/ \E holds \in BOOLEAN : ExecuteCondition(e, holds)
  \/ ExecuteWait(e) \/ ExecuteWaitFails(e) \/ Persist(e) \/ Finish(e)

WorkerStep(w) ==
  \/ ExecutorStep(w)
  \/ \E j \in Jobs : WakeUp(w, j) \/ Report(w, j)

Next ==
  \/ \E manual \in BOOLEAN : Trigger(manual)
  \/ ManualResume
  \/ \E t \in Tasks : ExecutorStep(t) \/ TaskLost(t)
  \/ \E w \in Workers :
        \/ WorkerStep(w)
        \/ \E j \in Jobs : WorkerDies(w, j) \/ HandlerFails(w, j)
  \/ \E j \in Jobs : DelayElapses(j) \/ StaleReset(j) \/ DeleteJob(j) \/ RetryJob(j)
  \/ CancelRead \/ CancelWrite
  \/ UpdateWorkflow \/ ToggleWorkflow \/ DeleteWorkflow

Spec == Init /\ [][Next]_vars

(***************************************************************************)
(* Fairness: delays elapse, workers poll, executors run on (every await    *)
(* returns), and the queue resets the jobs of dead workers.  Nothing is    *)
(* assumed of failures and of the endpoints.                               *)
(***************************************************************************)
Fairness ==
  /\ \A t \in Tasks : WF_vars(ExecutorStep(t))
  /\ \A w \in Workers : WF_vars(WorkerStep(w))
  /\ \A j \in Jobs : WF_vars(DelayElapses(j)) /\ WF_vars(runners[j] = {} /\ StaleReset(j))

FairSpec == Spec /\ Fairness

-----------------------------------------------------------------------------
(* Properties.                                                             *)

\* An instance that waits will be woken by the job that was enqueued for this pause: the job is
\* queued, or whoever executes it has yet to write "running", whatever dies, overruns, is
\* retried, edited or resumed by hand meanwhile.  There are three ways to lose a wake-up: the
\* job is dead, and waits for a retry by hand; an administrator has deleted it; or it was taken
\* before the pause was saved, because its delay was that short.
NoLostWakeup ==
  status = "waiting" /\ waker \notin early =>
    \/ phase[waker] \in {"queued", "dead", "gone"}
    \/ /\ phase[waker] = "leased"
       /\ \A w \in runners[waker] : exec[w].at \in {"resume", "resumeWrite"}

\* Cancelling an instance that nobody executes is final: the resume job that is still
\* queued, a stale read or a retry does not bring it back.
QuietCancelIsFinal == quiet => status \in {"cancelled", "gone"}

\* Every repetition of a step is paid for by a crash, an error, an overrun, a manual resume
\* or an edit.  The first four may leave one more copy of the instance in execution each, and
\* every copy may run the steps of each version of the workflow once: an instance that waits
\* for a step which an edit removes starts again.
RepeatsArePaidFor ==
  \A s \in StepNames : ran[s] <= version * (1 + mishaps + manualResumes)

\* Once triggered, an instance comes to rest in a terminal state, unless its task is lost
\* with the process, a resume job has used up its attempts or was deleted by an administrator,
\* or it waits for a job that was taken too early.
ComesToRest ==
  status = "pending" ~>
    [](\/ status \in {"completed", "failed", "cancelled", "gone"}
       \/ status = "waiting" /\ waker \in early
       \/ \E t \in Tasks : exec[t].at = "lost"
       \/ \E j \in Jobs : phase[j] \in {"dead", "gone"})

=============================================================================
