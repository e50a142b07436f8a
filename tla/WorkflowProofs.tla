--------------------------- MODULE WorkflowProofs ---------------------------
(* Proofs about Workflow, for any tasks, workers, jobs and definitions, any *)
(* numbers of attempts, mishaps, manual resumes and edits: an instance that *)
(* was cancelled at rest stays cancelled, one that waits will be woken, and *)
(* every repetition of a step is paid for.                                  *)
EXTENDS Workflow, FiniteSetTheorems, TLAPS

USE WorkflowAssumption

-----------------------------------------------------------------------------
(* The inductive invariants.                                                *)

LeaseIsTyped == phase = [j \in Jobs |-> phase[j]] /\ runners \in [Jobs -> SUBSET Workers]

LocalFields == {"at", "start", "saw", "def", "step", "rest", "outcome", "goto", "job"}
ExecIsTyped == exec = [e \in Executors |-> exec[e]] /\ \A e \in Executors : DOMAIN exec[e] = LocalFields

\* After a quiet cancellation an executor is at most about to read that the instance is
\* cancelled, or gone.
CancelledAtRest ==
  quiet => /\ status \in {"cancelled", "gone"}
           /\ \A e \in Executors : exec[e].at \in {"idle", "report", "lost", "resume"}

WInv == LeaseIsTyped /\ OneJobEach /\ ExecIsTyped /\ CancelledAtRest

\* A job that was never offered is not due, and nobody executes it or has taken it too early.
FreshIsUntouched == \A j \in Jobs : phase[j] = "none" => j \notin due \cup early /\ runners[j] = {}

\* Who is about to save that the instance waits has a resume job that nobody has taken, or that
\* somebody took too early.
NotTaken(j) == phase[j] \in {"queued", "gone"} /\ runners[j] = {}
PauseIsPrepared ==
  \A e \in Executors : exec[e].at = "persist" /\ exec[e].outcome = "paused" =>
    exec[e].job \in Jobs /\ (exec[e].job \in early \/ NotTaken(exec[e].job))

\* Whoever executes the job has yet to make the instance run.
YetToWake(local) == \/ local.at = "resume"
                    \/ local.at = "resumeWrite" /\ local.saw # "running"
Alive == {"queued", "dead", "leased", "gone"}
WillWake(j) == phase[j] \in Alive /\ \A w \in runners[j] : YetToWake(exec[w])

WakeupIsComing == status = "waiting" => waker \in Jobs /\ (waker \in early \/ WillWake(waker))

WakeInv == FreshIsUntouched /\ PauseIsPrepared /\ WakeupIsComing

-----------------------------------------------------------------------------
(* The jobs.                                                                *)

\* Executors treat their resume jobs as the lease protocol says.
LEMMA StepsAreLeaseSteps == [Next]_vars => [LeaseNext]_leaseVars
<1>. SUFFICES ASSUME [Next]_vars PROVE [LeaseNext]_leaseVars
  OBVIOUS
<1>. USE DEF jobVars, leaseVars
<1>1. ASSUME NEW e \in Executors, ExecutorStep(e) PROVE [LeaseNext]_leaseVars
  <2>1. ASSUME WriteFails(e) PROVE [LeaseNext]_leaseVars
    <3>1. CASE e \in Tasks
      BY <2>1, <3>1 DEF WriteFails
    <3>2. CASE e \in Workers
      <4>1. PICK j \in Jobs : Settle(j, e, IF failures[j] + 1 >= MaxAttempts THEN "dead" ELSE "queued")
        BY <2>1, <3>2 DEF WriteFails
      <4>2. \E outcome \in {"queued", "done", "dead"} : Settle(j, e, outcome)
        BY <4>1
      <4>. QED
        BY <3>2, <4>2 DEF LeaseNext
    <3>. QED
      BY <3>1, <3>2 DEF Executors
  <2>2. ASSUME ExecuteWait(e) PROVE [LeaseNext]_leaseVars
    BY <2>2 DEF ExecuteWait, LeaseNext
  <2>3. CASE \/ ResumeRead(e) \/ ResumeWrite(e) \/ LoadRead(e) \/ LoadWrite(e)
             \/ \E outcome \in {"success", "failed"} : ExecuteAction(e, outcome)
             \/ \E holds \in BOOLEAN : ExecuteCondition(e, holds)
             \/ ExecuteWaitFails(e) \/ Persist(e) \/ Finish(e)
    BY <2>3 DEF ResumeRead, ResumeWrite, LoadRead, LoadWrite, ExecuteAction, ExecuteCondition, ExecuteWaitFails,
                Persist, Finish
  <2>. QED
    BY <1>1, <2>1, <2>2, <2>3 DEF ExecutorStep
<1>2. ASSUME NEW w \in Workers, NEW j \in Jobs,
             WakeUp(w, j) \/ Report(w, j) \/ WorkerDies(w, j) \/ HandlerFails(w, j)
      PROVE  [LeaseNext]_leaseVars
  <2>1. \/ Lease(j, w) \/ Drop(j, w)
        \/ \E outcome \in {"queued", "done", "dead"} : Settle(j, w, outcome)
    BY <1>2 DEF WakeUp, Report, WorkerDies, HandlerFails
  <2>. QED
    BY <2>1 DEF LeaseNext
<1>3. ASSUME NEW j \in Jobs, StaleReset(j) PROVE [LeaseNext]_leaseVars
  <2>1. {j} \in SUBSET Jobs /\ Expire({j})
    BY <1>3 DEF StaleReset
  <2>. QED
    BY <2>1 DEF LeaseNext
<1>6. ASSUME NEW j \in Jobs, DeleteJob(j) \/ RetryJob(j) PROVE [LeaseNext]_leaseVars
  <2>1. {j} \in SUBSET Jobs /\ (Remove({j}) \/ Revive(j))
    BY <1>6 DEF DeleteJob, RetryJob
  <2>. QED
    BY <2>1 DEF LeaseNext
<1>4. ASSUME NEW t \in Tasks, TaskLost(t) PROVE [LeaseNext]_leaseVars
  BY <1>4 DEF TaskLost
<1>5. CASE \/ \E manual \in BOOLEAN : Trigger(manual)
           \/ ManualResume \/ CancelRead \/ CancelWrite
           \/ \E j \in Jobs : DelayElapses(j)
           \/ UpdateWorkflow \/ ToggleWorkflow \/ DeleteWorkflow
           \/ UNCHANGED vars
  BY <1>5 DEF Trigger, ManualResume, CancelRead, CancelWrite, DelayElapses, UpdateWorkflow, ToggleWorkflow,
              DeleteWorkflow, Edit, vars
<1>. QED
  BY <1>1, <1>2, <1>3, <1>4, <1>5, <1>6 DEF Next, WorkerStep, Executors

\* The jobs that resume instances are leased as JobLease says: what it promises holds of them.
THEOREM ResumeJobsAreLeased == Spec => LeaseSpec
<1>1. Init => LeaseInit
  BY DEF Init
<1>. QED
  BY <1>1, StepsAreLeaseSteps, PTL DEF Spec, LeaseSpec

\* Whoever takes a job has none.
LEMMA LeaseStepKeepsOneJobEach ==
  LeaseIsTyped /\ OneJobEach /\ [LeaseNext]_leaseVars => LeaseIsTyped' /\ OneJobEach'
<1>. SUFFICES ASSUME LeaseIsTyped, OneJobEach, [LeaseNext]_leaseVars PROVE LeaseIsTyped' /\ OneJobEach'
  OBVIOUS
<1>. USE DEF LeaseIsTyped, OneJobEach
<1>1. ASSUME NEW j \in Jobs, Offer(j) \/ Revive(j) PROVE LeaseIsTyped' /\ OneJobEach'
  BY <1>1 DEF Offer, Revive
<1>2. ASSUME NEW j \in Jobs, NEW w \in Workers, Lease(j, w) PROVE LeaseIsTyped' /\ OneJobEach'
  <2>1. /\ runners' \in [Jobs -> SUBSET Workers] /\ runners'[j] = runners[j] \cup {w}
        /\ \A k \in Jobs \ {j} : runners'[k] = runners[k]
        /\ \A k \in Jobs : w \notin runners[k]
        /\ phase' = [k \in Jobs |-> phase'[k]]
    BY <1>2 DEF Lease
  <2>. QED
    BY <2>1
<1>3. ASSUME NEW j \in Jobs, NEW w \in Workers,
             Drop(j, w) \/ \E outcome \in {"queued", "done", "dead"} : Settle(j, w, outcome)
      PROVE  LeaseIsTyped' /\ OneJobEach'
  <2>1. runners' = [runners EXCEPT ![j] = @ \ {w}] /\ phase' = [k \in Jobs |-> phase'[k]]
    BY <1>3 DEF Drop, Settle
  <2>. QED
    BY <2>1
<1>4. ASSUME NEW S \in SUBSET Jobs, Expire(S) \/ Remove(S) PROVE LeaseIsTyped' /\ OneJobEach'
  BY <1>4 DEF Expire, Remove
<1>5. CASE UNCHANGED leaseVars
  BY <1>5 DEF leaseVars
<1>. QED
  BY <1>1, <1>2, <1>3, <1>4, <1>5 DEF LeaseNext

-----------------------------------------------------------------------------
(* The executors.                                                           *)

\* The records an executor's local state is made of.
LEMMA RecordDomains ==
  /\ DOMAIN Idle = LocalFields
  /\ Idle.at = "idle" /\ Idle.outcome = "success"
BY DEF Idle, LocalFields

LEMMA ReturnedRests ==
  ASSUME NEW e
  PROVE  DOMAIN Returned(e) = LocalFields /\ Returned(e).at \in {"idle", "report"}
BY DEF Returned, Idle, LocalFields

LEMMA ProceedGoesOn ==
  ASSUME NEW local, DOMAIN local = LocalFields, NEW goto, NEW rest
  PROVE  DOMAIN Proceed(local, goto, rest) = LocalFields /\ Proceed(local, goto, rest).at \in {"step", "finish"}
<1>. DEFINE named == goto \in {Definitions[local.def].order[i] : i \in DOMAIN Definitions[local.def].order}
            a == [local EXCEPT !.at = "step", !.step = goto, !.rest = rest, !.goto = NoStep]
            b == [local EXCEPT !.at = "step", !.step = Head(rest), !.rest = Tail(rest), !.goto = NoStep]
            c == [local EXCEPT !.at = "finish", !.rest = <<>>, !.goto = NoStep]
<1>1. /\ DOMAIN a = LocalFields /\ a.at = "step"
      /\ DOMAIN b = LocalFields /\ b.at = "step"
      /\ DOMAIN c = LocalFields /\ c.at = "finish"
  BY DEF LocalFields
<1>2. Proceed(local, goto, rest) \in {a, b, c}
  <2>. HIDE DEF named, a, b, c
  <2>1. Proceed(local, goto, rest) = CASE named -> a [] goto = NoStep /\ rest # <<>> -> b [] OTHER -> c
    BY DEF Proceed, named, a, b, c
  <2>. QED
    BY <2>1
<1>. HIDE DEF a, b, c
<1>. QED
  BY <1>1, <1>2

\* What an executor does changes its own local state only.
LEMMA ExecutorStepMovesOne ==
  ASSUME ExecIsTyped, NEW e \in Executors, ExecutorStep(e)
  PROVE  exec' = [exec EXCEPT ![e] = exec'[e]] /\ DOMAIN exec'[e] = LocalFields
<1>. USE DEF ExecIsTyped
<1>1. CASE ResumeRead(e)
  <2>1. DOMAIN [exec[e] EXCEPT !.at = "resumeWrite", !.saw = status, !.job = resumeJob] = LocalFields
    OBVIOUS
  <2>. QED
    BY <1>1, <2>1, ReturnedRests DEF ResumeRead
<1>8. CASE ResumeWrite(e)
  <2>1. DOMAIN [exec[e] EXCEPT !.at = "load", !.job = NoJob] = LocalFields
    OBVIOUS
  <2>. QED
    BY <1>8, <2>1 DEF ResumeWrite
<1>2. CASE LoadRead(e)
  <2>1. PICK rest : exec' = [exec EXCEPT ![e] =
       IF RowExists /\ status \notin {"cancelled", "completed"}
       THEN [@ EXCEPT !.at = "loadWrite", !.saw = status, !.def = version, !.rest = rest]
       ELSE Returned(e)]
    BY <1>2 DEF LoadRead
  <2>. QED
    BY <2>1, ReturnedRests
<1>3. CASE LoadWrite(e)
  BY <1>3, ProceedGoesOn DEF LoadWrite
<1>4. CASE WriteFails(e)
  BY <1>4, RecordDomains DEF WriteFails
<1>5. CASE \/ \E outcome \in {"success", "failed"} : ExecuteAction(e, outcome)
           \/ \E holds \in BOOLEAN : ExecuteCondition(e, holds)
           \/ ExecuteWait(e) \/ ExecuteWaitFails(e)
  <2>1. PICK outcome, goto, job : Done(e, outcome, goto, job)
    BY <1>5 DEF ExecuteAction, ExecuteCondition, ExecuteWait, ExecuteWaitFails
  <2>. QED
    BY <2>1 DEF Done
<1>6. CASE Persist(e)
  <2>1. CASE ~RowExists
    BY <1>6, <2>1, ReturnedRests DEF Persist
  <2>2. CASE RowExists
    <3>1. PICK jump, next : exec' = [exec EXCEPT ![e] =
               IF @.outcome # "success" THEN Returned(e)
                 ELSE IF jump THEN Proceed(@, next, <<>>)
                 ELSE Proceed(@, @.goto, @.rest)]
      BY <1>6, <2>2 DEF Persist
    <3>. QED
      BY <3>1, ReturnedRests, ProceedGoesOn
  <2>. QED
    BY <2>1, <2>2
<1>7. CASE Finish(e)
  BY <1>7, ReturnedRests DEF Finish
<1>. QED
  BY <1>1, <1>2, <1>3, <1>4, <1>5, <1>6, <1>7, <1>8 DEF ExecutorStep

LEMMA StepKeepsExecTyped == ExecIsTyped /\ [Next]_vars => ExecIsTyped'
<1>. SUFFICES ASSUME ExecIsTyped, [Next]_vars PROVE ExecIsTyped'
  OBVIOUS
<1>1. ASSUME NEW e, NEW r, exec' = [exec EXCEPT ![e] = r], DOMAIN r = LocalFields PROVE ExecIsTyped'
  BY <1>1 DEF ExecIsTyped
<1>2. ASSUME NEW e \in Executors, ExecutorStep(e) PROVE ExecIsTyped'
  BY <1>1, <1>2, ExecutorStepMovesOne
<1>3. CASE \/ \E manual \in BOOLEAN : Trigger(manual)
           \/ ManualResume
           \/ \E t \in Tasks : TaskLost(t)
           \/ \E w \in Workers, j \in Jobs : WakeUp(w, j)
           \/ \E w \in Workers, j \in Jobs : Report(w, j) \/ WorkerDies(w, j) \/ HandlerFails(w, j)
  <2>1. \E e, r : exec' = [exec EXCEPT ![e] = r] /\ DOMAIN r = DOMAIN Idle
    <3>1. \A at : DOMAIN [Idle EXCEPT !.at = at] = DOMAIN Idle
      OBVIOUS
    <3>2. \A at, start : DOMAIN [Idle EXCEPT !.at = at, !.start = start] = DOMAIN Idle
      OBVIOUS
    <3>3. CASE \E manual \in BOOLEAN : Trigger(manual)
      BY <3>1, <3>3 DEF Trigger
    <3>4. CASE ManualResume
      BY <3>2, <3>4 DEF ManualResume
    <3>5. CASE \E t \in Tasks : TaskLost(t)
      <4>1. PICK t \in Tasks : TaskLost(t)
        BY <3>5
      <4>2. exec' = [exec EXCEPT ![t] = [Idle EXCEPT !.at = "lost"]]
        BY <4>1 DEF TaskLost
      <4>. QED
        BY <3>1, <4>2
    <3>6. CASE \E w \in Workers, j \in Jobs : WakeUp(w, j)
      <4>1. PICK w \in Workers, j \in Jobs : WakeUp(w, j)
        BY <3>6
      <4>2. exec' = [exec EXCEPT ![w] = [Idle EXCEPT !.at = "resume", !.start = target[j]]]
        BY <4>1 DEF WakeUp
      <4>. QED
        BY <3>2, <4>2
    <3>7. CASE \E w \in Workers, j \in Jobs : Report(w, j) \/ WorkerDies(w, j) \/ HandlerFails(w, j)
      BY <3>7 DEF Report, WorkerDies, HandlerFails
    <3>. QED
      BY <1>3, <3>3, <3>4, <3>5, <3>6, <3>7
  <2>. QED
    BY <2>1, <1>1, RecordDomains
<1>4. CASE \/ \E j \in Jobs : DelayElapses(j) \/ StaleReset(j) \/ DeleteJob(j) \/ RetryJob(j)
           \/ CancelRead \/ CancelWrite
           \/ UpdateWorkflow \/ ToggleWorkflow \/ DeleteWorkflow \/ UNCHANGED vars
  <2>1. UNCHANGED exec
    BY <1>4 DEF DelayElapses, StaleReset, CancelRead, CancelWrite, UpdateWorkflow, ToggleWorkflow,
                DeleteWorkflow, Edit, DeleteJob, RetryJob, EditJobs, vars, jobVars
  <2>. QED
    BY <2>1 DEF ExecIsTyped
<1>. QED
  BY <1>2, <1>3, <1>4 DEF Next, WorkerStep, Executors

-----------------------------------------------------------------------------
(* Cancelled is final.                                                      *)

LEMMA StepKeepsCancelledAtRest == ExecIsTyped /\ CancelledAtRest /\ [Next]_vars => CancelledAtRest'
<1>. SUFFICES ASSUME ExecIsTyped, CancelledAtRest, [Next]_vars PROVE CancelledAtRest'
  OBVIOUS
<1>. USE DEF ExecIsTyped, CancelledAtRest
<1>r. \A at, start : /\ [Idle EXCEPT !.at = at].at = at
                     /\ [Idle EXCEPT !.at = at, !.start = start].at = at
  BY DEF Idle
<1>1. ASSUME NEW e \in Executors, ExecutorStep(e) PROVE CancelledAtRest'
  <2>1. UNCHANGED quiet
    BY <1>1 DEF ExecutorStep, ResumeRead, ResumeWrite, LoadRead, LoadWrite, WriteFails, ExecuteAction,
                ExecuteCondition, ExecuteWait, ExecuteWaitFails, Done, Persist, Finish
  <2>2. SUFFICES ASSUME quiet PROVE CancelledAtRest'
    BY <2>1
  <2>3. exec[e].at \in {"idle", "report", "lost", "resume"}
    BY <2>2
  <2>4. ResumeRead(e)
    BY <1>1, <2>3 DEF ExecutorStep, ResumeWrite, LoadRead, LoadWrite, WriteFails, ExecuteAction,
                ExecuteCondition, ExecuteWait, ExecuteWaitFails, Done, Persist, Finish
  <2>5. exec' = [exec EXCEPT ![e] = Returned(e)] /\ UNCHANGED <<status, quiet>>
    BY <2>2, <2>4 DEF ResumeRead, RowExists, rowVars
  <2>. QED
    BY <2>5, ReturnedRests
<1>2. CASE (\E manual \in BOOLEAN : Trigger(manual)) \/ ManualResume
  <2>1. ~quiet /\ UNCHANGED quiet
    BY <1>2 DEF Trigger, ManualResume
  <2>. QED
    BY <2>1
<1>3. ASSUME NEW t \in Tasks, TaskLost(t) PROVE CancelledAtRest'
  BY <1>3, <1>r DEF TaskLost, Mishap, rowVars
<1>4. ASSUME NEW w \in Workers, NEW j \in Jobs, WakeUp(w, j) PROVE CancelledAtRest'
  BY <1>4, <1>r DEF WakeUp, rowVars
<1>5. ASSUME NEW w \in Workers, NEW j \in Jobs, Report(w, j) \/ WorkerDies(w, j) \/ HandlerFails(w, j)
      PROVE  CancelledAtRest'
  <2>1. exec' = [exec EXCEPT ![w] = Idle] /\ UNCHANGED <<status, quiet>>
    BY <1>5 DEF Report, WorkerDies, HandlerFails, Mishap, rowVars
  <2>. QED
    BY <2>1, RecordDomains
<1>6. CASE \/ \E j \in Jobs : DelayElapses(j) \/ StaleReset(j) \/ DeleteJob(j) \/ RetryJob(j)
           \/ UpdateWorkflow \/ ToggleWorkflow \/ UNCHANGED vars
  <2>1. UNCHANGED <<status, exec, quiet>>
    BY <1>6 DEF DelayElapses, StaleReset, Mishap, UpdateWorkflow, ToggleWorkflow, Edit, DeleteJob, RetryJob,
                EditJobs, vars, rowVars
  <2>. QED
    BY <2>1
<1>7. CASE CancelRead \/ CancelWrite \/ DeleteWorkflow
  BY <1>7 DEF CancelRead, CancelWrite, DeleteWorkflow, Edit, rowVars, RowExists, InFlight
<1>. QED
  BY <1>1, <1>2, <1>3, <1>4, <1>5, <1>6, <1>7 DEF Next, WorkerStep, Executors

LEMMA InitHasWInv == Init => WInv
<1>1. Init => LeaseIsTyped /\ OneJobEach
  BY DEF Init, LeaseInit, LeaseIsTyped, OneJobEach
<1>2. Init => ExecIsTyped /\ CancelledAtRest
  BY RecordDomains DEF Init, ExecIsTyped, CancelledAtRest
<1>. QED
  BY <1>1, <1>2 DEF WInv

LEMMA StepKeepsWInv == WInv /\ [Next]_vars => WInv'
BY StepsAreLeaseSteps, LeaseStepKeepsOneJobEach, StepKeepsExecTyped, StepKeepsCancelledAtRest DEF WInv

\* Cancelling an instance that nobody executes is final: whatever is queued, retried, reset,
\* resumed by hand or triggered later finds it cancelled (cancel_instance, resume_instance).
THEOREM QuietCancelIsFinalHolds == Spec => []QuietCancelIsFinal
<1>1. WInv => QuietCancelIsFinal
  BY DEF WInv, CancelledAtRest, QuietCancelIsFinal
<1>. QED
  BY <1>1, InitHasWInv, StepKeepsWInv, PTL DEF Spec

-----------------------------------------------------------------------------
(* Waiting is temporary.                                                    *)

\* An executor moves on, and no job is touched.
LEMMA OwnMoveKeepsWakeInv ==
  ASSUME ExecIsTyped, LeaseIsTyped, WakeInv,
         NEW e, NEW r, exec' = [exec EXCEPT ![e] = r], ~(r.at = "persist" /\ r.outcome = "paused"),
         UNCHANGED <<phase, runners, due, waker, early>>,
         status' = "waiting" =>
           status = "waiting" /\ \A j \in Jobs : WillWake(j) /\ e \in runners[j] => YetToWake(r)
  PROVE  WakeInv'
<1>. USE DEF ExecIsTyped, LeaseIsTyped
<1>1. FreshIsUntouched'
  BY DEF WakeInv, FreshIsUntouched
<1>2. PauseIsPrepared'
  <2>1. SUFFICES ASSUME NEW x \in Executors, exec'[x].at = "persist", exec'[x].outcome = "paused"
                 PROVE  exec'[x].job \in Jobs /\ (exec'[x].job \in early \/ NotTaken(exec'[x].job))
    BY DEF PauseIsPrepared, NotTaken
  <2>2. exec'[x] = exec[x]
    BY <2>1
  <2>. QED
    BY <2>1, <2>2 DEF WakeInv, PauseIsPrepared
<1>3. WakeupIsComing'
  <2>1. SUFFICES ASSUME status' = "waiting", waker \notin early PROVE waker \in Jobs /\ WillWake(waker)'
    BY DEF WakeupIsComing, WakeInv
  <2>2. waker \in Jobs /\ WillWake(waker)
    BY <2>1 DEF WakeInv, WakeupIsComing
  <2>3. ASSUME NEW w \in runners[waker] PROVE exec'[w] = exec[w] \/ (w = e /\ exec'[w] = r)
    <3>1. w \in Executors
      BY <2>2 DEF Executors
    <3>2. CASE w = e
      BY <3>1, <3>2
    <3>3. CASE w # e
      BY <3>1, <3>3
    <3>. QED
      BY <3>2, <3>3
  <2>4. \A w \in runners[waker] : YetToWake(exec'[w])
    BY <2>1, <2>2, <2>3 DEF WillWake
  <2>. QED
    BY <2>2, <2>4 DEF WillWake, YetToWake
<1>. QED
  BY <1>1, <1>2, <1>3 DEF WakeInv

\* A worker has done with its job.
LEMMA SettledJobKeepsWakeInv ==
  ASSUME ExecIsTyped, LeaseIsTyped, OneJobEach, WakeInv,
         NEW w \in Workers, NEW j \in Jobs, NEW p, w \in runners[j],
         exec' = [exec EXCEPT ![w] = Idle], runners' = [runners EXCEPT ![j] = @ \ {w}],
         phase' = [phase EXCEPT ![j] = p], p # "none", due' \subseteq due, UNCHANGED <<waker, early>>,
         status' = "waiting" => status = "waiting" /\ (WillWake(j) => p \in Alive)
  PROVE  WakeInv'
<1>. USE DEF ExecIsTyped, LeaseIsTyped
<1>1. FreshIsUntouched'
  BY DEF WakeInv, FreshIsUntouched
<1>2. PauseIsPrepared'
  <2>1. SUFFICES ASSUME NEW x \in Executors, exec'[x].at = "persist", exec'[x].outcome = "paused"
                 PROVE  /\ exec'[x].job \in Jobs
                        /\ \/ exec'[x].job \in early
                           \/ phase'[exec'[x].job] \in {"queued", "gone"} /\ runners'[exec'[x].job] = {}
    BY DEF PauseIsPrepared, NotTaken
  <2>2. exec'[x] = exec[x]
    BY <2>1, RecordDomains
  <2>3. exec[x].job \in Jobs /\ (exec[x].job \in early \/ NotTaken(exec[x].job))
    BY <2>1, <2>2 DEF WakeInv, PauseIsPrepared
  <2>4. exec[x].job \in early \/ exec[x].job # j
    BY <2>3 DEF NotTaken
  <2>. QED
    BY <2>2, <2>3, <2>4 DEF NotTaken
<1>3. WakeupIsComing'
  <2>1. SUFFICES ASSUME status' = "waiting", waker \notin early PROVE waker \in Jobs /\ WillWake(waker)'
    BY DEF WakeupIsComing, WakeInv
  <2>2. waker \in Jobs /\ WillWake(waker)
    BY <2>1 DEF WakeInv, WakeupIsComing
  <2>3. w \notin runners'[waker] /\ runners'[waker] \subseteq runners[waker]
    BY <2>2 DEF OneJobEach
  <2>4. \A v \in runners'[waker] : exec'[v] = exec[v]
    BY <2>2, <2>3 DEF Executors
  <2>5. \A v \in runners'[waker] : YetToWake(exec'[v])
    BY <2>2, <2>3, <2>4 DEF WillWake
  <2>6. phase'[waker] \in Alive
    BY <2>1, <2>2 DEF WillWake
  <2>. QED
    BY <2>2, <2>5, <2>6 DEF WillWake, YetToWake
<1>. QED
  BY <1>1, <1>2, <1>3 DEF WakeInv

\* A step of an executor.
LEMMA ExecutorStepKeepsWakeInv ==
  ASSUME ExecIsTyped, LeaseIsTyped, OneJobEach, WakeInv, NEW e \in Executors, ExecutorStep(e)
  PROVE  WakeInv'
<1>. USE DEF ExecIsTyped
<1>d. DOMAIN exec[e] = LocalFields
  OBVIOUS
<1>n. ASSUME ~YetToWake(exec[e]), NEW j \in Jobs, WillWake(j) PROVE e \notin runners[j]
  BY <1>n DEF WillWake
<1>1. CASE ResumeRead(e)
  <2>1. PICK r : r = IF RowExists /\ status \notin {"cancelled", "completed"}
       THEN [exec[e] EXCEPT !.at = "resumeWrite", !.saw = status, !.job = resumeJob]
       ELSE Returned(e)
    OBVIOUS
  <2>2. exec' = [exec EXCEPT ![e] = r] /\ UNCHANGED <<status, phase, runners, due, waker, early>>
    BY <1>1, <2>1 DEF ResumeRead, rowVars, jobVars, pauses
  <2>3. r.at # "persist" /\ (status = "waiting" => YetToWake(r))
    BY <1>d, <2>1, ReturnedRests DEF YetToWake, RowExists, LocalFields
  <2>. QED
    BY <2>2, <2>3, OwnMoveKeepsWakeInv
<1>2. CASE ResumeWrite(e)
  <2>1. PICK r : r = [exec[e] EXCEPT !.at = "load", !.job = NoJob]
    OBVIOUS
  <2>2. /\ exec' = [exec EXCEPT ![e] = r] /\ UNCHANGED <<phase, runners, due, waker, early>>
        /\ exec[e].at = "resumeWrite" /\ status' = Store(e, "running")
    BY <1>2, <2>1 DEF ResumeWrite, jobVars, pauses
  <2>3. r.at = "load"
    BY <1>d, <2>1 DEF LocalFields
  <2>4. status' = "waiting" => status = "waiting" /\ ~YetToWake(exec[e])
    BY <2>2 DEF Store, YetToWake
  <2>. QED
    BY <1>n, <2>2, <2>3, <2>4, OwnMoveKeepsWakeInv
<1>3. CASE LoadRead(e)
  <2>1. PICK rest : exec' = [exec EXCEPT ![e] =
       IF RowExists /\ status \notin {"cancelled", "completed"}
       THEN [@ EXCEPT !.at = "loadWrite", !.saw = status, !.def = version, !.rest = rest]
       ELSE Returned(e)]
    BY <1>3 DEF LoadRead
  <2>2. PICK r : r = IF RowExists /\ status \notin {"cancelled", "completed"}
       THEN [exec[e] EXCEPT !.at = "loadWrite", !.saw = status, !.def = version, !.rest = rest]
       ELSE Returned(e)
    OBVIOUS
  <2>3. exec' = [exec EXCEPT ![e] = r] /\ UNCHANGED <<status, phase, runners, due, waker, early>> /\ exec[e].at = "load"
    BY <1>3, <2>1, <2>2 DEF LoadRead, rowVars, jobVars, pauses
  <2>4. r.at # "persist"
    BY <1>d, <2>2, ReturnedRests DEF LocalFields
  <2>. QED
    BY <1>n, <2>3, <2>4, OwnMoveKeepsWakeInv DEF YetToWake
<1>4. CASE LoadWrite(e)
  <2>1. PICK r : r = Proceed(exec[e], NoStep, exec[e].rest)
    OBVIOUS
  <2>2. /\ exec' = [exec EXCEPT ![e] = r] /\ UNCHANGED <<phase, runners, due, waker, early>>
        /\ exec[e].at = "loadWrite" /\ status' = Store(e, "running")
    BY <1>4, <2>1 DEF LoadWrite, jobVars, pauses
  <2>3. r.at # "persist"
    BY <1>d, <2>1, ProceedGoesOn
  <2>4. status' = "waiting" => status = "waiting"
    BY <2>2 DEF Store
  <2>. QED
    BY <1>n, <2>2, <2>3, <2>4, OwnMoveKeepsWakeInv DEF YetToWake
<1>5. CASE WriteFails(e)
  <2>1. exec' = [exec EXCEPT ![e] = Idle] /\ UNCHANGED <<status, waker, early>> /\ status # "waiting"
    BY <1>5 DEF WriteFails, RowExists, rowVars, pauses
  <2>2. CASE e \in Tasks
    <3>1. UNCHANGED <<phase, runners, due, waker, early>>
      BY <1>5, <2>2 DEF WriteFails, leaseVars, pauses
    <3>. QED
      BY <2>1, <3>1, RecordDomains, OwnMoveKeepsWakeInv
  <2>3. CASE e \in Workers
    <3>1. e \notin Tasks
      BY <2>3
    <3>2. PICK j \in Jobs : Settle(j, e, IF failures[j] + 1 >= MaxAttempts THEN "dead" ELSE "queued") /\ due' = due \ {j}
      BY <1>5, <3>1 DEF WriteFails
    <3>3. PICK p : p = IF phase[j] = "gone" THEN "gone" ELSE IF failures[j] + 1 >= MaxAttempts THEN "dead" ELSE "queued"
      OBVIOUS
    <3>4. /\ e \in runners[j] /\ runners' = [runners EXCEPT ![j] = @ \ {e}]
          /\ phase' = [phase EXCEPT ![j] = p] /\ p # "none"
      BY <3>2, <3>3 DEF Settle
    <3>. QED
      BY <2>1, <2>3, <3>2, <3>4, SettledJobKeepsWakeInv
  <2>. QED
    BY <2>2, <2>3 DEF Executors
<1>6. CASE \/ \E outcome \in {"success", "failed"} : ExecuteAction(e, outcome)
           \/ \E holds \in BOOLEAN : ExecuteCondition(e, holds)
           \/ ExecuteWaitFails(e)
  <2>1. PICK outcome, goto : outcome \in {"success", "failed"} /\ Done(e, outcome, goto, NoJob)
    BY <1>6 DEF ExecuteAction, ExecuteCondition, ExecuteWaitFails
  <2>2. PICK r : r = [exec[e] EXCEPT !.at = "persist", !.outcome = outcome, !.goto = goto, !.job = NoJob]
    OBVIOUS
  <2>3. exec' = [exec EXCEPT ![e] = r] /\ UNCHANGED <<status, phase, runners, due, waker, early>> /\ exec[e].at = "step"
    BY <1>6, <2>1, <2>2 DEF Done, ExecuteAction, ExecuteCondition, ExecuteWaitFails, rowVars, jobVars, pauses
  <2>4. r.outcome # "paused"
    BY <1>d, <2>1, <2>2 DEF LocalFields
  <2>. QED
    BY <1>n, <2>3, <2>4, OwnMoveKeepsWakeInv DEF YetToWake
<1>7. CASE ExecuteWait(e)
  <2>1. PICK j : j = CHOOSE k \in {i \in Jobs : phase[i] = "none"} : TRUE
    OBVIOUS
  <2>2. PICK r : r = [exec[e] EXCEPT !.at = "persist", !.outcome = "paused", !.goto = NoStep, !.job = j]
    OBVIOUS
  <2>3. j \in Jobs /\ phase[j] = "none"
    BY <1>7, <2>1 DEF ExecuteWait
  <2>4. /\ exec' = [exec EXCEPT ![e] = r] /\ UNCHANGED <<status, runners, due, waker, early>>
        /\ exec[e].at = "step" /\ phase' = [phase EXCEPT ![j] = "queued"]
    BY <1>7, <2>1, <2>2 DEF ExecuteWait, Offer, Done, rowVars, pauses
  <2>5. r.job = j
    BY <1>d, <2>2 DEF LocalFields
  <2>6. j \notin due \cup early /\ runners[j] = {}
    BY <2>3 DEF WakeInv, FreshIsUntouched
  <2>7. FreshIsUntouched'
    BY <2>3, <2>4 DEF WakeInv, FreshIsUntouched, LeaseIsTyped
  <2>8. PauseIsPrepared'
    <3>1. SUFFICES ASSUME NEW x \in Executors, exec'[x].at = "persist", exec'[x].outcome = "paused"
                   PROVE  /\ exec'[x].job \in Jobs
                          /\ \/ exec'[x].job \in early
                             \/ phase'[exec'[x].job] \in {"queued", "gone"} /\ runners[exec'[x].job] = {}
      BY <2>4 DEF PauseIsPrepared, NotTaken
    <3>2. CASE x = e
      BY <2>3, <2>4, <2>5, <2>6, <3>2 DEF LeaseIsTyped
    <3>3. CASE x # e
      <4>1. exec'[x] = exec[x]
        BY <2>4, <3>3
      <4>2. exec[x].job \in Jobs /\ (exec[x].job \in early \/ NotTaken(exec[x].job))
        BY <3>1, <4>1 DEF WakeInv, PauseIsPrepared
      <4>. QED
        BY <2>3, <2>4, <4>1, <4>2 DEF LeaseIsTyped, NotTaken
    <3>. QED
      BY <3>2, <3>3
  <2>9. WakeupIsComing'
    <3>1. SUFFICES ASSUME status = "waiting", waker \notin early PROVE waker \in Jobs /\ WillWake(waker)'
      BY <2>4 DEF WakeupIsComing, WakeInv
    <3>2. waker \in Jobs /\ WillWake(waker)
      BY <3>1 DEF WakeInv, WakeupIsComing
    <3>3. e \notin runners[waker]
      BY <1>n, <2>4, <3>2 DEF YetToWake
    <3>4. \A v \in runners[waker] : exec'[v] = exec[v]
      BY <2>4, <3>2, <3>3 DEF Executors, LeaseIsTyped
    <3>5. phase'[waker] = phase[waker]
      BY <2>3, <2>4, <3>2 DEF WillWake, Alive, LeaseIsTyped
    <3>6. \A v \in runners'[waker] : YetToWake(exec'[v])
      BY <2>4, <3>2, <3>4 DEF WillWake
    <3>. QED
      BY <2>4, <3>2, <3>5, <3>6 DEF WillWake, YetToWake
  <2>. QED
    BY <2>7, <2>8, <2>9 DEF WakeInv
<1>8. CASE Persist(e)
  <2>1. exec[e].at = "persist" /\ UNCHANGED <<phase, runners, due, early>>
    BY <1>8 DEF Persist, jobVars
  <2>2. PICK r : exec' = [exec EXCEPT ![e] = r] /\ r.at \in {"idle", "report", "step", "finish"}
    <3>1. CASE ~RowExists
      BY <1>8, <3>1, ReturnedRests DEF Persist
    <3>2. CASE RowExists
      <4>1. PICK jump, next : exec' = [exec EXCEPT ![e] =
                 IF @.outcome # "success" THEN Returned(e)
                   ELSE IF jump THEN Proceed(@, next, <<>>)
                   ELSE Proceed(@, @.goto, @.rest)]
        BY <1>8, <3>2 DEF Persist
      <4>2. PICK r : r = IF exec[e].outcome # "success" THEN Returned(e)
                          ELSE IF jump THEN Proceed(exec[e], next, <<>>)
                          ELSE Proceed(exec[e], exec[e].goto, exec[e].rest)
        OBVIOUS
      <4>3. r \in {Returned(e), Proceed(exec[e], next, <<>>), Proceed(exec[e], exec[e].goto, exec[e].rest)}
        BY <4>2
      <4>4. r.at \in {"idle", "report", "step", "finish"}
        BY <1>d, <4>3, ReturnedRests, ProceedGoesOn
      <4>. QED
        BY <4>1, <4>2, <4>4
    <3>. QED
      BY <3>1, <3>2
  <2>3. CASE RowExists /\ exec[e].outcome = "paused"
    <3>1. PICK j : j = exec[e].job
      OBVIOUS
    <3>2. j \in Jobs /\ (j \in early \/ NotTaken(j)) /\ waker' = j
      BY <1>8, <2>1, <2>3, <3>1 DEF Persist, WakeInv, PauseIsPrepared
    <3>3. WakeupIsComing'
      BY <2>1, <3>2 DEF WakeupIsComing, WillWake, NotTaken, Alive
    <3>4. FreshIsUntouched'
      BY <2>1 DEF WakeInv, FreshIsUntouched
    <3>5. PauseIsPrepared'
      <4>1. SUFFICES ASSUME NEW x \in Executors, exec'[x].at = "persist", exec'[x].outcome = "paused"
                     PROVE  exec'[x].job \in Jobs /\ (exec'[x].job \in early \/ NotTaken(exec'[x].job))
        BY <2>1 DEF PauseIsPrepared, NotTaken
      <4>2. exec'[x] = exec[x]
        BY <2>2, <4>1
      <4>. QED
        BY <4>1, <4>2 DEF WakeInv, PauseIsPrepared
    <3>. QED
      BY <3>3, <3>4, <3>5 DEF WakeInv
  <2>4. CASE ~(RowExists /\ exec[e].outcome = "paused")
    <3>1. (status' = "waiting" => status = "waiting") /\ waker' = waker
      BY <1>8, <2>4 DEF Persist, rowVars
    <3>. QED
      BY <1>n, <2>1, <2>2, <3>1, OwnMoveKeepsWakeInv DEF YetToWake
  <2>. QED
    BY <2>3, <2>4
<1>9. CASE Finish(e)
  <2>1. exec' = [exec EXCEPT ![e] = Returned(e)] /\ UNCHANGED <<phase, runners, due, waker, early>> /\ status' # "waiting"
    BY <1>9 DEF Finish, RowExists, jobVars, pauses
  <2>. QED
    BY <2>1, ReturnedRests, OwnMoveKeepsWakeInv
<1>. QED
  BY <1>1, <1>2, <1>3, <1>4, <1>5, <1>6, <1>7, <1>8, <1>9 DEF ExecutorStep

\* The steps that are not an executor's own.
LEMMA StepKeepsWakeInv ==
  ASSUME ExecIsTyped, LeaseIsTyped, OneJobEach, WakeInv, [Next]_vars
  PROVE  WakeInv'
<1>. USE DEF ExecIsTyped, LeaseIsTyped
<1>r. \A at, start : /\ [Idle EXCEPT !.at = at].at = at
                     /\ [Idle EXCEPT !.at = at, !.start = start].at = at
  BY DEF Idle
<1>1. ASSUME NEW manual, Trigger(manual) PROVE WakeInv'
  <2>1. PICK r : r = [Idle EXCEPT !.at = "load"]
    OBVIOUS
  <2>2. exec' = [exec EXCEPT ![FreeTask] = r] /\ UNCHANGED <<phase, runners, due, waker, early>> /\ status' = "pending"
    BY <1>1, <2>1 DEF Trigger, jobVars, pauses
  <2>3. r.at = "load"
    BY <1>r, <2>1
  <2>. QED
    BY <2>2, <2>3, OwnMoveKeepsWakeInv
<1>2. CASE ManualResume
  <2>1. PICK r : r = [Idle EXCEPT !.at = "resume", !.start = current]
    OBVIOUS
  <2>2. exec' = [exec EXCEPT ![FreeTask] = r] /\ UNCHANGED <<status, phase, runners, due, waker, early>>
    BY <1>2, <2>1 DEF ManualResume, jobVars, rowVars, pauses
  <2>3. r.at = "resume" /\ YetToWake(r)
    BY <1>r, <2>1 DEF YetToWake
  <2>. QED
    BY <2>2, <2>3, OwnMoveKeepsWakeInv
<1>3. ASSUME NEW t \in Tasks, TaskLost(t) PROVE WakeInv'
  <2>1. PICK r : r = [Idle EXCEPT !.at = "lost"]
    OBVIOUS
  <2>2. exec' = [exec EXCEPT ![t] = r] /\ UNCHANGED <<status, phase, runners, due, waker, early>>
    BY <1>3, <2>1 DEF TaskLost, Mishap, leaseVars, rowVars, pauses
  <2>3. r.at = "lost"
    BY <1>r, <2>1
  <2>4. \A j \in Jobs : t \notin runners[j]
    OBVIOUS
  <2>. QED
    BY <2>2, <2>3, <2>4, OwnMoveKeepsWakeInv
<1>4. ASSUME NEW w \in Workers, NEW j \in Jobs, WakeUp(w, j) PROVE WakeInv'
  <2>1. PICK r : r = [Idle EXCEPT !.at = "resume", !.start = target[j]]
    OBVIOUS
  <2>2. /\ exec' = [exec EXCEPT ![w] = r] /\ UNCHANGED <<status, due, waker>> /\ phase[j] = "queued"
        /\ phase' = [phase EXCEPT ![j] = "leased"] /\ runners' = [runners EXCEPT ![j] = @ \cup {w}]
        /\ \A k \in Jobs : w \notin runners[k]
        /\ early \subseteq early' /\ early' \subseteq early \cup {j} /\ (Pausing(j) => j \in early')
    BY <1>4, <2>1 DEF WakeUp, Lease, rowVars
  <2>3. r.at = "resume"
    BY <1>r, <2>1
  <2>4. FreshIsUntouched'
    BY <2>2 DEF WakeInv, FreshIsUntouched
  <2>5. PauseIsPrepared'
    <3>1. SUFFICES ASSUME NEW x \in Executors, exec'[x].at = "persist", exec'[x].outcome = "paused"
                   PROVE  /\ exec'[x].job \in Jobs
                          /\ \/ exec'[x].job \in early'
                             \/ phase'[exec'[x].job] \in {"queued", "gone"} /\ runners'[exec'[x].job] = {}
      BY DEF PauseIsPrepared, NotTaken
    <3>2. exec'[x] = exec[x]
      BY <2>2, <2>3, <3>1
    <3>3. exec[x].job \in Jobs /\ (exec[x].job \in early \/ NotTaken(exec[x].job))
      BY <3>1, <3>2 DEF WakeInv, PauseIsPrepared
    <3>4. CASE exec[x].job = j
      BY <2>2, <3>1, <3>2, <3>4 DEF Pausing
    <3>5. CASE exec[x].job # j
      BY <2>2, <3>2, <3>3, <3>5 DEF NotTaken
    <3>. QED
      BY <3>4, <3>5
  <2>6. WakeupIsComing'
    <3>1. SUFFICES ASSUME status = "waiting", waker \notin early' PROVE waker \in Jobs /\ WillWake(waker)'
      BY <2>2 DEF WakeupIsComing, WakeInv
    <3>2. waker \in Jobs /\ WillWake(waker)
      BY <2>2, <3>1 DEF WakeInv, WakeupIsComing
    <3>3. ASSUME NEW v \in runners'[waker] PROVE YetToWake(exec'[v])
      <4>1. runners' \in [Jobs -> SUBSET Workers] /\ runners'[waker] \subseteq runners[waker] \cup {w}
        BY <2>2, <3>2
      <4>4. v \in Executors /\ (v = w \/ v \in runners[waker])
        BY <3>2, <4>1 DEF Executors
      <4>2. CASE v = w
        BY <2>2, <2>3, <4>2, <4>4 DEF YetToWake
      <4>3. CASE v # w
        BY <2>2, <3>2, <4>3, <4>4 DEF WillWake
      <4>. QED
        BY <4>2, <4>3
    <3>4. phase'[waker] \in Alive
      BY <2>2, <3>2 DEF WillWake, Alive
    <3>. QED
      BY <2>2, <3>2, <3>3, <3>4 DEF WillWake, YetToWake
  <2>. QED
    BY <2>4, <2>5, <2>6 DEF WakeInv
<1>5. ASSUME NEW w \in Workers, NEW j \in Jobs, Report(w, j) PROVE WakeInv'
  <2>1. PICK p : p = IF phase[j] = "gone" THEN "gone" ELSE "done"
    OBVIOUS
  <2>2. /\ exec' = [exec EXCEPT ![w] = Idle] /\ UNCHANGED <<status, due, waker, early>> /\ exec[w].at = "report"
        /\ w \in runners[j] /\ runners' = [runners EXCEPT ![j] = @ \ {w}]
        /\ phase' = [phase EXCEPT ![j] = p] /\ p # "none"
    BY <1>5, <2>1 DEF Report, Settle, rowVars, pauses
  <2>3. ~WillWake(j)
    BY <2>2 DEF WillWake, YetToWake
  <2>. QED
    BY <2>2, <2>3, SettledJobKeepsWakeInv
<1>6. ASSUME NEW w \in Workers, NEW j \in Jobs, WorkerDies(w, j) PROVE WakeInv'
  <2>1. PICK p : p = phase[j]
    OBVIOUS
  <2>2. /\ exec' = [exec EXCEPT ![w] = Idle] /\ UNCHANGED <<status, due, waker, early>>
        /\ w \in runners[j] /\ runners' = [runners EXCEPT ![j] = @ \ {w}]
        /\ phase' = [phase EXCEPT ![j] = p]
    BY <1>6, <2>1 DEF WorkerDies, Drop, Mishap, rowVars, pauses
  <2>3. p # "none" /\ (WillWake(j) => p \in Alive)
    BY <2>1, <2>2 DEF WillWake, WakeInv, FreshIsUntouched
  <2>. QED
    BY <2>2, <2>3, SettledJobKeepsWakeInv
<1>7. ASSUME NEW w \in Workers, NEW j \in Jobs, HandlerFails(w, j) PROVE WakeInv'
  <2>1. PICK p : p = IF phase[j] = "gone" THEN "gone" ELSE IF failures[j] + 1 >= MaxAttempts THEN "dead" ELSE "queued"
    OBVIOUS
  <2>2. /\ exec' = [exec EXCEPT ![w] = Idle] /\ UNCHANGED <<status, waker, early>> /\ due' = due \ {j}
        /\ w \in runners[j] /\ runners' = [runners EXCEPT ![j] = @ \ {w}]
        /\ phase' = [phase EXCEPT ![j] = p]
    BY <1>7, <2>1 DEF HandlerFails, Settle, Mishap, rowVars, pauses
  <2>3. p # "none" /\ (WillWake(j) => p \in Alive)
    BY <2>1 DEF WillWake, Alive
  <2>. QED
    BY <2>2, <2>3, SettledJobKeepsWakeInv
<1>8. ASSUME NEW j \in Jobs, DelayElapses(j) PROVE WakeInv'
  <2>1. UNCHANGED <<status, exec, phase, runners, waker, early>> /\ due' = due \cup {j} /\ phase[j] = "queued"
    BY <1>8 DEF DelayElapses, leaseVars, rowVars, pauses
  <2>. QED
    BY <2>1 DEF WakeInv, FreshIsUntouched, PauseIsPrepared, NotTaken, WakeupIsComing, WillWake, YetToWake
<1>9. ASSUME NEW j \in Jobs, NEW p, UNCHANGED <<status, exec, runners, waker, early>>,
             phase' = [phase EXCEPT ![j] = p], phase[j] # "none", due' \subseteq due \cup {j},
             p = "gone" \/ (p = "queued" /\ phase[j] \in {"leased", "dead"})
      PROVE  WakeInv'
  <2>2. FreshIsUntouched'
    BY <1>9 DEF WakeInv, FreshIsUntouched
  <2>3. PauseIsPrepared'
    BY <1>9 DEF WakeInv, PauseIsPrepared, NotTaken
  <2>4. WakeupIsComing'
    BY <1>9 DEF WakeInv, WakeupIsComing, WillWake, YetToWake, Alive
  <2>. QED
    BY <2>2, <2>3, <2>4 DEF WakeInv
<1>11. ASSUME NEW j \in Jobs, StaleReset(j) PROVE WakeInv'
  <2>1. /\ UNCHANGED <<status, exec, runners, due, waker, early>> /\ phase[j] = "leased"
        /\ phase' = [phase EXCEPT ![j] = "queued"]
    BY <1>11 DEF StaleReset, Expire, Mishap, rowVars, pauses
  <2>. QED
    BY <1>9, <2>1
<1>12. ASSUME NEW j \in Jobs, DeleteJob(j) PROVE WakeInv'
  <2>1. /\ UNCHANGED <<status, exec, runners, due, waker, early>> /\ phase[j] # "none"
        /\ phase' = [phase EXCEPT ![j] = "gone"]
    BY <1>12 DEF DeleteJob, Remove, EditJobs, rowVars, pauses
  <2>. QED
    BY <1>9, <2>1
<1>13. ASSUME NEW j \in Jobs, RetryJob(j) PROVE WakeInv'
  <2>1. /\ UNCHANGED <<status, exec, runners, waker, early>> /\ phase[j] = "dead" /\ due' = due \cup {j}
        /\ phase' = [phase EXCEPT ![j] = "queued"]
    BY <1>13 DEF RetryJob, Revive, EditJobs, rowVars, pauses
  <2>. QED
    BY <1>9, <2>1
<1>10. CASE CancelRead \/ CancelWrite \/ UpdateWorkflow \/ ToggleWorkflow \/ DeleteWorkflow \/ UNCHANGED vars
  <2>1. UNCHANGED <<exec, phase, runners, due, waker, early>> /\ (status' = "waiting" => status = "waiting")
    BY <1>10 DEF CancelRead, CancelWrite, UpdateWorkflow, ToggleWorkflow, DeleteWorkflow, Edit, rowVars, jobVars,
                 leaseVars, pauses, vars
  <2>2. FreshIsUntouched'
    BY <2>1 DEF WakeInv, FreshIsUntouched
  <2>3. PauseIsPrepared'
    BY <2>1 DEF WakeInv, PauseIsPrepared, NotTaken
  <2>4. WakeupIsComing'
    BY <2>1 DEF WakeInv, WakeupIsComing, WillWake, YetToWake, Alive
  <2>. QED
    BY <2>2, <2>3, <2>4 DEF WakeInv
<1>. QED
  BY <1>1, <1>2, <1>3, <1>4, <1>5, <1>6, <1>7, <1>8, <1>10, <1>11, <1>12, <1>13, ExecutorStepKeepsWakeInv
  DEF Next, WorkerStep, Executors

LEMMA InitHasWakeInv == Init => WakeInv
<1>. SUFFICES ASSUME Init PROVE WakeInv
  OBVIOUS
<1>1. FreshIsUntouched
  BY DEF Init, LeaseInit, FreshIsUntouched
<1>2. PauseIsPrepared /\ WakeupIsComing
  BY RecordDomains DEF Init, PauseIsPrepared, WakeupIsComing
<1>. QED
  BY <1>1, <1>2 DEF WakeInv

\* An instance that waits will be woken: _execute_wait_delay enqueued its resume job before the
\* row said so, and no crash, retry, stale reset, cancel, edit or manual resume uses the job up
\* without making the instance run.  Only an administrator's deletion of the job, and a worker
\* that took it before the pause was saved, leave the instance without it.
THEOREM NoLostWakeupHolds == Spec => []NoLostWakeup
<1>1. WInv /\ WakeInv /\ [Next]_vars => WakeInv'
  BY StepKeepsWakeInv DEF WInv
<1>2. WakeInv => NoLostWakeup
  BY DEF WakeInv, WakeupIsComing, WillWake, YetToWake, Alive, NoLostWakeup
<1>. QED
  BY <1>1, <1>2, InitHasWInv, InitHasWakeInv, StepKeepsWInv, PTL DEF Spec

-----------------------------------------------------------------------------
(* How often a step is executed.  A point of a version's flow is a step at   *)
(* hand and what is left of step_iter after it.                              *)

\* The steps from the named one on, or all of them.
ListFrom(d, begin) ==
  LET D     == Definitions[d].order
      known == {i \in DOMAIN D : D[i] = begin}
  IN  IF known = {} THEN D ELSE SubSeq(D, CHOOSE i \in known : TRUE, Len(D))

\* Where Proceed goes.
Onward(d, goto, rest) ==
  IF goto \in {Definitions[d].order[i] : i \in DOMAIN Definitions[d].order} THEN {<<goto, rest>>}
  ELSE IF goto = NoStep /\ rest # <<>> THEN {<<Head(rest), Tail(rest)>>}
  ELSE {}

\* Where an undisturbed instance goes from a point.
Successors(d, p) ==
  LET D == Definitions[d] IN
  IF D.type[p[1]] = "wait" THEN Onward(d, NoStep, ListFrom(d, D.next[p[1]]))
  ELSE IF D.type[p[1]] = "condition"
       THEN Onward(d, D.onTrue[p[1]], p[2]) \cup Onward(d, D.onFalse[p[1]], p[2])
  ELSE IF D.next[p[1]] # NoStep THEN Onward(d, D.next[p[1]], <<>>)
  ELSE Onward(d, NoStep, p[2])

Closed(d, P) == \A p \in P : Successors(d, p) \subseteq P

\* The steps it may execute after that of point p.
Ahead(d, p) ==
  {s \in StepNames : \A P : Successors(d, p) \subseteq P /\ Closed(d, P) => \E q \in P : q[1] = s}

\* Wherever it begins, the flow of version d leads to no step twice, and every delay that it
\* reaches names the step that comes next.
IsStraight(d, P) ==
  /\ \A i \in DOMAIN Definitions[d].order : Definitions[d].order[i] \in StepNames
  /\ P \subseteq StepNames \X Seq(StepNames)
  /\ \A begin : Onward(d, NoStep, ListFrom(d, begin)) \subseteq P
  /\ Closed(d, P)
  /\ \A p \in P : /\ p[1] \notin Ahead(d, p)
                  /\ Definitions[d].type[p[1]] = "wait" => Definitions[d].next[p[1]] # NoStep

FlowsAreStraight == \A d \in DOMAIN Definitions : \E P : IsStraight(d, P)

Points(d) == CHOOSE P : IsStraight(d, P)

\* The steps that may be executed from one of the points of Q on, or from a named step on.
StepsOf(d, Q) == {s \in StepNames : \E q \in Q : s = q[1] \/ s \in Ahead(d, q)}
StepsFrom(d, begin) == StepsOf(d, Onward(d, NoStep, ListFrom(d, begin)))

(* A copy of the instance in execution is an executor that may still execute *)
(* a step, or a resume job that nobody has taken, whose worker has died, or  *)
(* that is dead itself until someone retries it.                             *)
(* The copies are numbered; used[s] holds the copies that have executed step *)
(* s, each with the version of the workflow it did it by.                    *)

BeforeSteps == {"resume", "resumeWrite", "load", "loadWrite"}
Goes(local) == local.at \in BeforeSteps \cup {"step"} \/ (local.at = "persist" /\ local.outcome = "success")
Queues(j) == phase[j] \in {"queued", "dead"} \/ (phase[j] = "leased" /\ runners[j] = {})
Copies == 1 + mishaps + manualResumes

\* What copy n has executed by version v.
Spent(n, v, used) == {s \in StepNames : <<n, v>> \in used[s]}

JobIsFresh(next, n, used, ver) == Spent(n, ver, used) \cap StepsFrom(ver, next) = {}

\* No step that lies ahead of the executor has been executed by its copy before.
LocalIsFresh(local, n, used, ver) ==
  /\ local.at \in BeforeSteps =>
       IF local.start = NoStep THEN Spent(n, ver, used) = {} ELSE JobIsFresh(local.start, n, used, ver)
  /\ local.at \in {"loadWrite", "step", "persist"} => \A v \in Nat : v > local.def => Spent(n, v, used) = {}
  /\ local.at = "loadWrite" =>
       Spent(n, local.def, used) \cap StepsOf(local.def, Onward(local.def, NoStep, local.rest)) = {}
  /\ local.at = "step" =>
       Spent(n, local.def, used) \cap StepsOf(local.def, {<<local.step, local.rest>>}) = {}
  /\ local.at = "persist" =>
       Spent(n, local.def, used) \cap Ahead(local.def, <<local.step, local.rest>>) = {}

\* What an executor has at hand belongs to the version it has read.
LocalIsKnown(local, ver) ==
  /\ local.at \in {"loadWrite", "step", "persist"} => local.def \in 1..ver /\ local.def \in DOMAIN Definitions
  /\ local.at = "loadWrite" => Onward(local.def, NoStep, local.rest) \subseteq Points(local.def)
  /\ local.at \in {"step", "persist"} => <<local.step, local.rest>> \in Points(local.def)
  /\ local.at = "persist" /\ local.outcome = "success" =>
       LET D == Definitions[local.def] IN
       /\ D.type[local.step] # "wait"
       /\ IF D.type[local.step] = "condition" THEN local.goto \in {D.onTrue[local.step], D.onFalse[local.step]}
          ELSE local.goto = NoStep

\* What the model of the flow relies on: what executors and jobs have at hand, and that a
\* worker which has yet to execute a step begins where its job says.
FlowInv ==
  /\ version \in Nat \ {0} /\ version \in DOMAIN Definitions /\ mishaps \in Nat /\ manualResumes \in Nat
  /\ target = [j \in Jobs |-> target[j]] /\ ran = [s \in StepNames |-> ran[s]]
  /\ \A e \in Executors : LocalIsKnown(exec[e], version)
  /\ \A j \in Jobs : IF phase[j] = "none" THEN runners[j] = {} ELSE target[j] # NoStep
  /\ \A j \in Jobs : \A w \in runners[j] : exec[w].at \in BeforeSteps => exec[w].start = target[j]
  /\ status = "none" => (\A e \in Executors : exec[e].at = "idle") /\ \A j \in Jobs : phase[j] = "none"

\* Executor e is copy es[e], job j is copy js[j]; no two are the same, and none has executed
\* what lies ahead of it.
NumberedBy(es, js, used) ==
  /\ \A e \in Executors : Goes(exec[e]) => es[e] \in 1..Copies /\ LocalIsFresh(exec[e], es[e], used, version)
  /\ \A j \in Jobs : Queues(j) => js[j] \in 1..Copies /\ JobIsFresh(target[j], js[j], used, version)
  /\ \A e, f \in Executors : Goes(exec[e]) /\ Goes(exec[f]) /\ es[e] = es[f] => e = f
  /\ \A j, k \in Jobs : Queues(j) /\ Queues(k) /\ js[j] = js[k] => j = k
  /\ \A e \in Executors, j \in Jobs : Goes(exec[e]) /\ Queues(j) => es[e] # js[j]
  /\ \A s \in StepNames : used[s] \in SUBSET ((1..Copies) \X (1..version)) /\ ran[s] = Cardinality(used[s])
  /\ status = "none" => \A s \in StepNames : used[s] = {}

CopyInv == \E es, js, used : NumberedBy(es, js, used)

\* What a point leads to lies ahead of it.
LEMMA AheadOfPoint ==
  ASSUME NEW d, NEW p, NEW q \in Successors(d, p), q[1] \in StepNames
  PROVE  q[1] \in Ahead(d, p) /\ Ahead(d, q) \subseteq Ahead(d, p)
<1>1. q[1] \in Ahead(d, p)
  BY DEF Ahead
<1>2. ASSUME NEW s \in Ahead(d, q) PROVE s \in Ahead(d, p)
  <2>1. ASSUME NEW P, Successors(d, p) \subseteq P, Closed(d, P) PROVE \E r \in P : r[1] = s
    <3>1. Successors(d, q) \subseteq P
      BY <2>1 DEF Closed
    <3>. QED
      BY <1>2, <2>1, <3>1 DEF Ahead
  <2>2. s \in StepNames
    BY <1>2 DEF Ahead
  <2>. QED
    BY <2>1, <2>2 DEF Ahead
<1>. QED
  BY <1>1, <1>2

\* What is known of the points of a straight flow.
LEMMA PointFacts ==
  ASSUME FlowsAreStraight, NEW d \in DOMAIN Definitions
  PROVE  /\ NoStep \notin {Definitions[d].order[i] : i \in DOMAIN Definitions[d].order}
         /\ \A begin : Onward(d, NoStep, ListFrom(d, begin)) \subseteq Points(d)
         /\ \A p \in Points(d) :
              /\ p[1] \in StepNames /\ p[1] \notin Ahead(d, p) /\ Successors(d, p) \subseteq Points(d)
              /\ StepsOf(d, Successors(d, p)) \subseteq Ahead(d, p)
              /\ StepsOf(d, {p}) = {p[1]} \cup Ahead(d, p)
              /\ Definitions[d].type[p[1]] = "wait" => Definitions[d].next[p[1]] # NoStep
<1>1. IsStraight(d, Points(d))
  BY DEF FlowsAreStraight, Points
<1>2. ASSUME NEW p \in Points(d) PROVE p[1] \in StepNames
  BY <1>1, <1>2 DEF IsStraight
<1>3. ASSUME NEW p \in Points(d)
      PROVE  StepsOf(d, Successors(d, p)) \subseteq Ahead(d, p) /\ StepsOf(d, {p}) = {p[1]} \cup Ahead(d, p)
  <2>1. \A q \in Successors(d, p) : q[1] \in StepNames
    BY <1>1, <1>2 DEF IsStraight, Closed
  <2>2. StepsOf(d, Successors(d, p)) \subseteq Ahead(d, p)
    BY <2>1, AheadOfPoint DEF StepsOf
  <2>3. Ahead(d, p) \subseteq StepNames
    BY DEF Ahead
  <2>4. StepsOf(d, {p}) = {p[1]} \cup Ahead(d, p)
    BY <1>2, <2>3 DEF StepsOf
  <2>. QED
    BY <2>2, <2>4
<1>. QED
  BY <1>1, <1>2, <1>3 DEF IsStraight, Closed

\* Where the loop goes on.
LEMMA ProceedFacts ==
  ASSUME FlowsAreStraight, NEW local, DOMAIN local = LocalFields, local.def \in DOMAIN Definitions,
         NEW goto, NEW rest, NEW r, r = Proceed(local, goto, rest)
  PROVE  /\ r.at \in {"step", "finish"}
         /\ r.at = "step" => r.def = local.def /\ <<r.step, r.rest>> \in Onward(local.def, goto, rest)
<1>. DEFINE named == goto \in {Definitions[local.def].order[i] : i \in DOMAIN Definitions[local.def].order}
            a == [local EXCEPT !.at = "step", !.step = goto, !.rest = rest, !.goto = NoStep]
            b == [local EXCEPT !.at = "step", !.step = Head(rest), !.rest = Tail(rest), !.goto = NoStep]
            c == [local EXCEPT !.at = "finish", !.rest = <<>>, !.goto = NoStep]
<1>1. /\ a.at = "step" /\ a.def = local.def /\ a.step = goto /\ a.rest = rest
      /\ b.at = "step" /\ b.def = local.def /\ b.step = Head(rest) /\ b.rest = Tail(rest)
      /\ c.at = "finish"
  BY DEF LocalFields
<1>5. NoStep \notin {Definitions[local.def].order[i] : i \in DOMAIN Definitions[local.def].order}
  BY PointFacts
<1>6. r = CASE named -> a [] goto = NoStep /\ rest # <<>> -> b [] OTHER -> c
  BY DEF Proceed
<1>7. ~(named /\ goto = NoStep)
  BY <1>5
<1>. HIDE DEF a, b, c
<1>2. CASE named
  <2>1. r = a
    <3>. HIDE DEF named
    <3>. QED
      BY <1>2, <1>6, <1>7
  <2>2. Onward(local.def, goto, rest) = {<<goto, rest>>}
    BY <1>2 DEF Onward
  <2>. QED
    BY <1>1, <2>1, <2>2
<1>3. CASE ~named /\ goto = NoStep /\ rest # <<>>
  <2>1. r = b
    <3>. HIDE DEF named
    <3>. QED
      BY <1>3, <1>6, <1>7
  <2>2. Onward(local.def, goto, rest) = {<<Head(rest), Tail(rest)>>}
    BY <1>3 DEF Onward
  <2>. QED
    BY <1>1, <2>1, <2>2
<1>4. CASE ~named /\ ~(goto = NoStep /\ rest # <<>>)
  <2>1. r = c
    <3>. HIDE DEF named
    <3>. QED
      BY <1>4, <1>6, <1>7
  <2>. QED
    BY <1>1, <2>1
<1>. QED
  BY <1>2, <1>3, <1>4

\* Freshness depends on what its own copy has executed only.
LEMMA SpentDecides ==
  ASSUME NEW n, NEW used, NEW used2, NEW ver, \A v : Spent(n, v, used2) = Spent(n, v, used)
  PROVE  /\ \A local : LocalIsFresh(local, n, used, ver) => LocalIsFresh(local, n, used2, ver)
         /\ \A next : JobIsFresh(next, n, used, ver) => JobIsFresh(next, n, used2, ver)
BY DEF LocalIsFresh, JobIsFresh

\* A number that no other executor and no other job has.
Free(n, e, j, es, js) == /\ \A f \in Executors \ {e} : Goes(exec[f]) => es[f] # n
                         /\ \A k \in Jobs \ {j} : Queues(k) => js[k] # n

\* One executor and one job change, and get the numbers m and n.
Moved(e, j, m, n, es, js, used, used2) ==
  /\ Copies \in Nat /\ Copies' \in Nat /\ Copies <= Copies' /\ UNCHANGED version
  /\ \A f \in Executors \ {e} : exec'[f] = exec[f]
  /\ \A k \in Jobs \ {j} : Queues(k)' => Queues(k) /\ target'[k] = target[k]
  /\ e \in Executors /\ Goes(exec'[e]) =>
       m \in 1..Copies' /\ LocalIsFresh(exec'[e], m, used2, version) /\ Free(m, e, j, es, js)
  /\ j \in Jobs /\ Queues(j)' =>
       n \in 1..Copies' /\ JobIsFresh(target'[j], n, used2, version) /\ Free(n, e, j, es, js)
  /\ e \in Executors /\ Goes(exec'[e]) /\ j \in Jobs /\ Queues(j)' => m # n
  /\ \A x, v : Spent(x, v, used2) # Spent(x, v, used) => e \in Executors /\ Goes(exec[e]) /\ x = es[e]
  /\ \A s \in StepNames : used2[s] \in SUBSET ((1..Copies') \X (1..version)) /\ ran'[s] = Cardinality(used2[s])
  /\ status' = "none" => \A s \in StepNames : used2[s] = {}

LEMMA MoveKeepsNumbers ==
  ASSUME NEW es, NEW js, NEW used, NumberedBy(es, js, used), NEW e, NEW j, NEW m, NEW n, NEW used2,
         Moved(e, j, m, n, es, js, used, used2)
  PROVE  CopyInv'
<1>. USE DEF Moved
<1>1. PICK es2 : es2 = [f \in Executors |-> IF f = e THEN m ELSE es[f]]
  OBVIOUS
<1>2. PICK js2 : js2 = [k \in Jobs |-> IF k = j THEN n ELSE js[k]]
  OBVIOUS
<1>3. \A i \in 1..Copies : i \in 1..Copies'
  OBVIOUS
<1>4. ASSUME NEW f \in Executors \ {e}, Goes(exec[f])
      PROVE  es[f] \in 1..Copies /\ LocalIsFresh(exec[f], es[f], used2, version)
  <2>1. es[f] \in 1..Copies /\ LocalIsFresh(exec[f], es[f], used, version)
    BY <1>4 DEF NumberedBy
  <2>2. \A v : Spent(es[f], v, used2) = Spent(es[f], v, used)
    BY <1>4 DEF NumberedBy
  <2>. QED
    BY <2>1, <2>2, SpentDecides
<1>5. ASSUME NEW k \in Jobs \ {j}, Queues(k)'
      PROVE  Queues(k) /\ js[k] \in 1..Copies /\ JobIsFresh(target'[k], js[k], used2, version)
  <2>1. Queues(k) /\ js[k] \in 1..Copies /\ JobIsFresh(target'[k], js[k], used, version)
    BY <1>5 DEF NumberedBy
  <2>2. \A v : Spent(js[k], v, used2) = Spent(js[k], v, used)
    BY <2>1 DEF NumberedBy
  <2>. QED
    BY <2>1, <2>2, SpentDecides
<1>6. ASSUME NEW f \in Executors, Goes(exec'[f])
      PROVE  es2[f] \in 1..Copies' /\ LocalIsFresh(exec'[f], es2[f], used2, version)
  <2>1. CASE f = e
    BY <1>1, <1>6, <2>1
  <2>2. CASE f # e
    BY <1>1, <1>3, <1>4, <1>6, <2>2
  <2>. QED
    BY <2>1, <2>2
<1>7. ASSUME NEW k \in Jobs, Queues(k)'
      PROVE  js2[k] \in 1..Copies' /\ JobIsFresh(target'[k], js2[k], used2, version)
  <2>1. CASE k = j
    BY <1>2, <1>7, <2>1
  <2>2. CASE k # j
    BY <1>2, <1>3, <1>5, <1>7, <2>2
  <2>. QED
    BY <2>1, <2>2
<1>8. ASSUME NEW f \in Executors, NEW g \in Executors, Goes(exec'[f]), Goes(exec'[g]), es2[f] = es2[g] PROVE f = g
  <2>1. CASE f # e /\ g # e
    BY <1>1, <1>8, <2>1 DEF NumberedBy
  <2>2. CASE f = e /\ g # e
    BY <1>1, <1>8, <2>2 DEF Free
  <2>3. CASE f # e /\ g = e
    BY <1>1, <1>8, <2>3 DEF Free
  <2>. QED
    BY <2>1, <2>2, <2>3
<1>9. ASSUME NEW k \in Jobs, NEW l \in Jobs, Queues(k)', Queues(l)', js2[k] = js2[l] PROVE k = l
  <2>1. CASE k # j /\ l # j
    BY <1>2, <1>5, <1>9, <2>1 DEF NumberedBy
  <2>2. CASE k = j /\ l # j
    BY <1>2, <1>5, <1>9, <2>2 DEF Free
  <2>3. CASE k # j /\ l = j
    BY <1>2, <1>5, <1>9, <2>3 DEF Free
  <2>. QED
    BY <2>1, <2>2, <2>3
<1>10. ASSUME NEW f \in Executors, NEW k \in Jobs, Goes(exec'[f]), Queues(k)' PROVE es2[f] # js2[k]
  <2>1. CASE f # e /\ k # j
    BY <1>1, <1>2, <1>5, <1>10, <2>1 DEF NumberedBy
  <2>2. CASE f = e /\ k # j
    BY <1>1, <1>2, <1>5, <1>10, <2>2 DEF Free
  <2>3. CASE f # e /\ k = j
    BY <1>1, <1>2, <1>10, <2>3 DEF Free
  <2>4. CASE f = e /\ k = j
    BY <1>1, <1>2, <1>10, <2>4
  <2>. QED
    BY <2>1, <2>2, <2>3, <2>4
<1>11. NumberedBy(es2, js2, used2)'
  <2>1. \A f \in Executors : Goes(exec[f])' <=> Goes(exec'[f])
    BY DEF Goes
  <2>. QED
    BY <1>6, <1>7, <1>8, <1>9, <1>10, <2>1 DEF NumberedBy
<1>. QED
  BY <1>11 DEF CopyInv

\* What an executor that executes no step does keeps what is known of its local state, and
\* leaves nothing ahead of it that its copy has executed.
Continues(l, r, ver) ==
  /\ LocalIsKnown(r, ver)
  /\ Goes(r) => Goes(l)
  /\ r.at \in BeforeSteps => l.at \in BeforeSteps /\ r.start = l.start
  /\ \A n, used : /\ \A v \in Nat : v > ver => Spent(n, v, used) = {}
                  /\ LocalIsFresh(l, n, used, ver)
                  /\ Goes(r)
                  => LocalIsFresh(r, n, used, ver)

LEMMA RestContinues ==
  ASSUME NEW l, NEW r, NEW ver, r.at \notin BeforeSteps \cup {"step", "persist"} PROVE Continues(l, r, ver)
BY DEF Continues, LocalIsKnown, Goes, BeforeSteps

LEMMA HeadContinues ==
  ASSUME FlowsAreStraight, FlowInv, ExecIsTyped, NEW e \in Executors, ResumeRead(e) \/ ResumeWrite(e) \/ LoadRead(e)
  PROVE  Continues(exec[e], exec'[e], version)
<1>1. PICK l : l = exec[e]
  OBVIOUS
<1>2. PICK r : r = exec'[e]
  OBVIOUS
<1>3. DOMAIN l = LocalFields /\ exec = [f \in Executors |-> exec[f]]
  BY <1>1 DEF ExecIsTyped
<1>4. CASE r = Returned(e)
  BY <1>1, <1>2, <1>4, ReturnedRests, RestContinues DEF BeforeSteps
<1>5. CASE ResumeRead(e) /\ r # Returned(e)
  <2>1. r = [l EXCEPT !.at = "resumeWrite", !.saw = status, !.job = resumeJob] /\ l.at = "resume"
    BY <1>1, <1>2, <1>3, <1>5 DEF ResumeRead
  <2>2. r.at = "resumeWrite" /\ r.start = l.start
    BY <1>3, <2>1 DEF LocalFields
  <2>. QED
    BY <1>1, <1>2, <2>1, <2>2 DEF Continues, LocalIsKnown, LocalIsFresh, Goes, BeforeSteps
<1>6. CASE ResumeWrite(e)
  <2>1. r = [l EXCEPT !.at = "load", !.job = NoJob] /\ l.at = "resumeWrite"
    BY <1>1, <1>2, <1>3, <1>6 DEF ResumeWrite
  <2>2. r.at = "load" /\ r.start = l.start
    BY <1>3, <2>1 DEF LocalFields
  <2>. QED
    BY <1>1, <1>2, <2>1, <2>2 DEF Continues, LocalIsKnown, LocalIsFresh, Goes, BeforeSteps
<1>7. CASE LoadRead(e) /\ r # Returned(e)
  <2>1. PICK begin : begin = IF l.start # NoStep THEN l.start ELSE current
    OBVIOUS
  <2>2. /\ r = [l EXCEPT !.at = "loadWrite", !.saw = status, !.def = version, !.rest = ListFrom(version, begin)]
        /\ l.at = "load"
    BY <1>1, <1>2, <1>3, <1>7, <2>1 DEF LoadRead, ListFrom
  <2>3. r.at = "loadWrite" /\ r.start = l.start /\ r.def = version /\ r.rest = ListFrom(version, begin)
    BY <1>3, <2>2 DEF LocalFields
  <2>4. LocalIsKnown(r, version)
    BY <2>3, PointFacts DEF LocalIsKnown, FlowInv
  <2>5. ASSUME NEW n, NEW used, \A v \in Nat : v > version => Spent(n, v, used) = {}, LocalIsFresh(l, n, used, version)
        PROVE  LocalIsFresh(r, n, used, version)
    <3>1. IF l.start = NoStep THEN Spent(n, version, used) = {} ELSE JobIsFresh(l.start, n, used, version)
      BY <2>2, <2>5 DEF LocalIsFresh, BeforeSteps
    <3>2. Spent(n, version, used) \cap StepsFrom(version, begin) = {}
      BY <2>1, <3>1 DEF JobIsFresh
    <3>. QED
      BY <2>3, <2>5, <3>1, <3>2 DEF LocalIsFresh, StepsFrom
  <2>. QED
    BY <1>1, <1>2, <2>2, <2>3, <2>4, <2>5 DEF Continues, Goes, BeforeSteps
<1>. QED
  BY <1>4, <1>5, <1>6, <1>7

\* The loop goes on from a point that was ahead.
LEMMA LoopContinues ==
  ASSUME FlowsAreStraight, FlowInv, ExecIsTyped, NEW e \in Executors, LoadWrite(e) \/ Persist(e) \/ Finish(e)
  PROVE  Continues(exec[e], exec'[e], version)
<1>1. PICK l : l = exec[e]
  OBVIOUS
<1>2. PICK r : r = exec'[e]
  OBVIOUS
<1>3. DOMAIN l = LocalFields /\ exec = [f \in Executors |-> exec[f]] /\ LocalIsKnown(l, version) /\ version \in Nat
  BY <1>1 DEF ExecIsTyped, FlowInv
<1>4. CASE r = Returned(e)
  BY <1>1, <1>2, <1>4, ReturnedRests, RestContinues DEF BeforeSteps
<1>5. ASSUME Goes(l), l.at \notin BeforeSteps \/ l.at = "loadWrite", l.def \in DOMAIN Definitions, l.def \in 1..version,
             NEW goto, NEW rest, r = Proceed(l, goto, rest), Onward(l.def, goto, rest) \subseteq Points(l.def),
             l.at \in {"loadWrite", "persist"},
             \A n, used : LocalIsFresh(l, n, used, version) =>
                            Spent(n, l.def, used) \cap StepsOf(l.def, Onward(l.def, goto, rest)) = {}
      PROVE  Continues(l, r, version)
  <2>1. r.at \in {"step", "finish"} /\ (r.at = "step" => r.def = l.def /\ <<r.step, r.rest>> \in Onward(l.def, goto, rest))
    BY <1>3, <1>5, ProceedFacts
  <2>2. CASE r.at = "finish"
    BY <2>2, RestContinues DEF BeforeSteps
  <2>3. CASE r.at = "step"
    <3>1. LocalIsKnown(r, version)
      BY <1>5, <2>1, <2>3 DEF LocalIsKnown
    <3>2. StepsOf(l.def, {<<r.step, r.rest>>}) \subseteq StepsOf(l.def, Onward(l.def, goto, rest))
      BY <2>1, <2>3 DEF StepsOf
    <3>3. ASSUME NEW n, NEW used, LocalIsFresh(l, n, used, version) PROVE LocalIsFresh(r, n, used, version)
      <4>1. Spent(n, l.def, used) \cap StepsOf(l.def, {<<r.step, r.rest>>}) = {}
        BY <1>5, <3>2, <3>3
      <4>2. \A v \in Nat : v > l.def => Spent(n, v, used) = {}
        BY <1>5, <3>3 DEF LocalIsFresh
      <4>. QED
        BY <2>1, <2>3, <4>1, <4>2 DEF LocalIsFresh, BeforeSteps
    <3>. QED
      BY <1>5, <2>3, <3>1, <3>3 DEF Continues, BeforeSteps
  <2>. QED
    BY <2>1, <2>2, <2>3
<1>6. CASE LoadWrite(e)
  <2>1. r = Proceed(l, NoStep, l.rest) /\ l.at = "loadWrite"
    BY <1>1, <1>2, <1>3, <1>6 DEF LoadWrite
  <2>2. /\ l.def \in DOMAIN Definitions /\ l.def \in 1..version
        /\ Onward(l.def, NoStep, l.rest) \subseteq Points(l.def)
    BY <1>3, <2>1 DEF LocalIsKnown
  <2>3. \A n, used : LocalIsFresh(l, n, used, version) =>
                       Spent(n, l.def, used) \cap StepsOf(l.def, Onward(l.def, NoStep, l.rest)) = {}
    BY <2>1 DEF LocalIsFresh
  <2>4. Goes(l)
    BY <2>1 DEF Goes, BeforeSteps
  <2>. QED
    BY <1>1, <1>2, <1>5, <2>1, <2>2, <2>3, <2>4
<1>7. CASE Persist(e) /\ r # Returned(e)
  <2>1. PICK p : p = <<l.step, l.rest>>
    OBVIOUS
  <2>2. PICK D : D = Definitions[l.def]
    OBVIOUS
  <2>3. PICK jump \in BOOLEAN : jump = (D.type[l.step] # "condition" /\ D.next[l.step] # NoStep)
    OBVIOUS
  <2>4. /\ l.at = "persist" /\ l.outcome = "success"
        /\ r = IF jump THEN Proceed(l, D.next[l.step], <<>>) ELSE Proceed(l, l.goto, l.rest)
    <3>1. l.at = "persist" /\ RowExists
      BY <1>1, <1>2, <1>3, <1>7 DEF Persist
    <3>2. r = IF l.outcome # "success" THEN Returned(e)
              ELSE IF jump THEN Proceed(l, D.next[l.step], <<>>)
              ELSE Proceed(l, l.goto, l.rest)
      BY <1>1, <1>2, <1>3, <1>7, <2>2, <2>3, <3>1 DEF Persist, StepType
    <3>. QED
      BY <1>7, <3>1, <3>2
  <2>5. /\ l.def \in DOMAIN Definitions /\ l.def \in 1..version /\ p \in Points(l.def) /\ p[1] = l.step /\ p[2] = l.rest
        /\ D.type[l.step] # "wait"
        /\ IF D.type[l.step] = "condition" THEN l.goto \in {D.onTrue[l.step], D.onFalse[l.step]} ELSE l.goto = NoStep
    BY <1>3, <2>1, <2>2, <2>4 DEF LocalIsKnown
  <2>6. PICK goto, rest : r = Proceed(l, goto, rest) /\ Onward(l.def, goto, rest) \subseteq Successors(l.def, p)
    <3>1. CASE jump
      BY <2>2, <2>3, <2>4, <2>5, <3>1 DEF Successors
    <3>2. CASE ~jump
      <4>1. Onward(l.def, l.goto, l.rest) \subseteq Successors(l.def, p)
        BY <2>2, <2>3, <2>5, <3>2 DEF Successors
      <4>. QED
        BY <2>4, <3>2, <4>1
    <3>. QED
      BY <3>1, <3>2
  <2>7. Successors(l.def, p) \subseteq Points(l.def) /\ StepsOf(l.def, Successors(l.def, p)) \subseteq Ahead(l.def, p)
    BY <2>5, PointFacts
  <2>8. StepsOf(l.def, Onward(l.def, goto, rest)) \subseteq Ahead(l.def, p)
    BY <2>6, <2>7 DEF StepsOf
  <2>9. \A n, used : LocalIsFresh(l, n, used, version) =>
                       Spent(n, l.def, used) \cap StepsOf(l.def, Onward(l.def, goto, rest)) = {}
    BY <2>1, <2>4, <2>8 DEF LocalIsFresh
  <2>10. Goes(l)
    BY <2>4 DEF Goes
  <2>. QED
    BY <1>1, <1>2, <1>5, <2>4, <2>5, <2>6, <2>7, <2>9, <2>10 DEF BeforeSteps
<1>8. CASE Finish(e)
  BY <1>1, <1>2, <1>3, <1>4, <1>8 DEF Finish
<1>. QED
  BY <1>4, <1>6, <1>7, <1>8

\* The number of a copy is its own; the next one is free, and nothing is spent of it.
LEMMA NumbersAreFree ==
  ASSUME FlowInv, NEW es, NEW js, NEW used, NumberedBy(es, js, used)
  PROVE  /\ Copies \in Nat /\ Copies + 1 \notin 1..Copies
         /\ \A e \in Executors : Goes(exec[e]) => \A j : Free(es[e], e, j, es, js)
         /\ \A j \in Jobs : Queues(j) => \A e : Free(js[j], e, j, es, js)
         /\ \A e, j : Free(Copies + 1, e, j, es, js)
         /\ \A n, v : n \notin 1..Copies \/ v \notin 1..version => Spent(n, v, used) = {}
<1>1. Copies \in Nat
  BY DEF FlowInv, Copies
<1>2. Copies + 1 \notin 1..Copies
  BY <1>1
<1>3. ASSUME NEW n, NEW v, n \notin 1..Copies \/ v \notin 1..version PROVE Spent(n, v, used) = {}
  <2>1. <<n, v>> \notin (1..Copies) \X (1..version)
    BY <1>3
  <2>. QED
    BY <2>1 DEF Spent, NumberedBy
<1>. QED
  BY <1>1, <1>2, <1>3 DEF NumberedBy, Free

\* A copy that has executed nothing is fresh, wherever it is.
LEMMA NewIsFresh ==
  ASSUME NEW n, NEW used, NEW ver, \A v : Spent(n, v, used) = {}
  PROVE  /\ \A local : LocalIsFresh(local, n, used, ver)
         /\ \A next : JobIsFresh(next, n, used, ver)
BY DEF LocalIsFresh, JobIsFresh

\* One executor and one job change.
LEMMA MoveKeepsFlow ==
  ASSUME FlowInv, LeaseIsTyped, NEW e, NEW j,
         UNCHANGED version, mishaps' \in Nat, manualResumes' \in Nat,
         target' = [k \in Jobs |-> target'[k]], ran' = [s \in StepNames |-> ran'[s]],
         \A f \in Executors \ {e} : exec'[f] = exec[f],
         e \in Executors => LocalIsKnown(exec'[e], version),
         \A k \in Jobs \ {j} : phase'[k] = phase[k] /\ runners'[k] = runners[k] /\ target'[k] = target[k],
         j \in Jobs => /\ IF phase'[j] = "none" THEN runners'[j] = {} ELSE target'[j] # NoStep
                       /\ runners'[j] \in SUBSET Workers
                       /\ \A w \in runners'[j] \ {e} : w \in runners[j] /\ target'[j] = target[j],
         e \in Executors /\ exec'[e].at \in BeforeSteps =>
           \A k \in Jobs : e \in runners'[k] => exec'[e].start = target'[k],
         status' # "none"
  PROVE  FlowInv'
<1>1. \A f \in Executors : LocalIsKnown(exec'[f], version')
  BY DEF FlowInv
<1>2. \A k \in Jobs : IF phase'[k] = "none" THEN runners'[k] = {} ELSE target'[k] # NoStep
  BY DEF FlowInv
<1>3. ASSUME NEW k \in Jobs, NEW w \in runners'[k], exec'[w].at \in BeforeSteps PROVE exec'[w].start = target'[k]
  <2>1. w \in Executors
    BY <1>3 DEF Executors, LeaseIsTyped
  <2>2. CASE w # e
    <3>1. w \in runners[k] /\ target'[k] = target[k] /\ exec'[w] = exec[w]
      BY <1>3, <2>1, <2>2
    <3>. QED
      BY <1>3, <3>1 DEF FlowInv
  <2>. QED
    BY <1>3, <2>1, <2>2
<1>4. version' \in Nat \ {0} /\ version' \in DOMAIN Definitions
  BY DEF FlowInv
<1>5. \A f \in Executors : LocalIsKnown(exec[f], version)' <=> LocalIsKnown(exec'[f], version')
  BY DEF LocalIsKnown
<1>. QED
  BY <1>1, <1>2, <1>3, <1>4, <1>5 DEF FlowInv

\* An executor that executes no step moves on.
LEMMA OwnMoveKeepsCopies ==
  ASSUME FlowInv, CopyInv, LeaseIsTyped, ExecIsTyped, NEW e \in Executors, exec' = [exec EXCEPT ![e] = exec'[e]],
         Continues(exec[e], exec'[e], version), exec[e].at # "idle", status' # "none",
         UNCHANGED <<phase, runners, target, version, mishaps, manualResumes, ran>>
  PROVE  FlowInv' /\ CopyInv'
<1>1. /\ \A f \in Executors \ {e} : exec'[f] = exec[f]
      /\ Copies' = Copies
      /\ \A k \in Jobs : Queues(k)' => Queues(k) /\ target'[k] = target[k]
  BY DEF Copies, Queues, ExecIsTyped
<1>2. FlowInv'
  <2>1. LocalIsKnown(exec'[e], version)
    BY DEF Continues
  <2>2. exec'[e].at \in BeforeSteps => \A k \in Jobs : e \in runners'[k] => exec'[e].start = target'[k]
    BY DEF Continues, FlowInv
  <2>3. NoJob \notin Jobs
    OBVIOUS
  <2>4. /\ mishaps' \in Nat /\ manualResumes' \in Nat
        /\ target' = [k \in Jobs |-> target'[k]] /\ ran' = [s \in StepNames |-> ran'[s]]
    BY DEF FlowInv
  <2>. QED
    BY <1>1, <2>1, <2>2, <2>3, <2>4, MoveKeepsFlow
<1>3. CopyInv'
  <2>1. PICK es, js, used : NumberedBy(es, js, used)
    BY DEF CopyInv
  <2>2. PICK m : m = es[e]
    OBVIOUS
  <2>3. Copies \in Nat /\ \A n, v : n \notin 1..Copies \/ v \notin 1..version => Spent(n, v, used) = {}
    BY <2>1, NumbersAreFree
  <2>4. ASSUME Goes(exec'[e])
        PROVE  m \in 1..Copies' /\ LocalIsFresh(exec'[e], m, used, version) /\ Free(m, e, NoJob, es, js)
    <3>1. Goes(exec[e])
      BY <2>4 DEF Continues
    <3>2. m \in 1..Copies /\ LocalIsFresh(exec[e], m, used, version)
      BY <2>1, <2>2, <3>1 DEF NumberedBy
    <3>3. \A v \in Nat : v > version => Spent(m, v, used) = {}
      BY <2>3 DEF FlowInv
    <3>4. LocalIsFresh(exec'[e], m, used, version)
      BY <2>4, <3>2, <3>3 DEF Continues
    <3>5. Free(m, e, NoJob, es, js)
      BY <2>1, <2>2, <3>1, NumbersAreFree
    <3>. QED
      BY <1>1, <3>2, <3>4, <3>5
  <2>5. \A s \in StepNames : used[s] \in SUBSET ((1..Copies') \X (1..version)) /\ ran'[s] = Cardinality(used[s])
    BY <1>1, <2>1 DEF NumberedBy
  <2>6. NoJob \notin Jobs /\ Copies <= Copies' /\ Copies' \in Nat
    BY <1>1, <2>3
  <2>7. PICK j, n : j = NoJob /\ n = 0
    OBVIOUS
  <2>8. Moved(e, j, m, n, es, js, used, used)
    BY <1>1, <2>3, <2>4, <2>5, <2>6, <2>7 DEF Moved
  <2>. QED
    BY <2>1, <2>8, MoveKeepsNumbers
<1>. QED
  BY <1>2, <1>3

LEMMA QuietStepKeepsCopies ==
  ASSUME FlowsAreStraight, FlowInv, CopyInv, LeaseIsTyped, ExecIsTyped, NEW e \in Executors,
         ResumeRead(e) \/ ResumeWrite(e) \/ LoadRead(e) \/ LoadWrite(e) \/ Persist(e) \/ Finish(e)
  PROVE  FlowInv' /\ CopyInv'
<1>1. Continues(exec[e], exec'[e], version)
  BY HeadContinues, LoopContinues
<1>2. exec' = [exec EXCEPT ![e] = exec'[e]]
  BY ExecutorStepMovesOne DEF ExecutorStep
<1>3. /\ exec[e].at # "idle"
      /\ UNCHANGED <<phase, runners, target, version, mishaps, manualResumes, ran>>
  BY DEF ResumeRead, ResumeWrite, LoadRead, LoadWrite, Persist, Finish, jobVars, wfVars, bounds
<1>4. status # "none"
  BY <1>3 DEF FlowInv
<1>5. status' # "none"
  BY <1>4 DEF ResumeRead, ResumeWrite, LoadRead, LoadWrite, Persist, Finish, Store, rowVars
<1>. QED
  BY <1>1, <1>2, <1>3, <1>5, OwnMoveKeepsCopies

\* An executor ends, one way or another, and its job may be offered again: by itself, or as
\* another copy.
LEMMA EndingKeepsCopies ==
  ASSUME FlowInv, CopyInv, LeaseIsTyped, ExecIsTyped, NEW e, NEW j, status' # "none",
         \A f \in Executors \ {e} : exec'[f] = exec[f],
         e \in Executors => exec'[e].at \in {"idle", "lost"},
         UNCHANGED <<target, version, manualResumes, ran>>, mishaps' \in {mishaps, mishaps + 1},
         \A k \in Jobs \ {j} : phase'[k] = phase[k] /\ runners'[k] = runners[k],
         j \in Jobs => phase[j] # "none" /\ phase'[j] # "none" /\ runners'[j] \subseteq runners[j],
         j \in Jobs /\ Queues(j)' =>
           \/ Queues(j)
           \/ e \in Executors /\ exec[e].at \in BeforeSteps /\ exec[e].start = target[j]
           \/ mishaps' = mishaps + 1
  PROVE  FlowInv' /\ CopyInv'
<1>1. e \in Executors => LocalIsKnown(exec'[e], version) /\ ~Goes(exec'[e]) /\ exec'[e].at \notin BeforeSteps
  BY DEF LocalIsKnown, Goes, BeforeSteps
<1>2. FlowInv'
  <2>1. /\ mishaps' \in Nat /\ manualResumes' \in Nat
        /\ target' = [k \in Jobs |-> target'[k]] /\ ran' = [s \in StepNames |-> ran'[s]]
    BY DEF FlowInv
  <2>2. j \in Jobs => /\ IF phase'[j] = "none" THEN runners'[j] = {} ELSE target'[j] # NoStep
                      /\ runners'[j] \in SUBSET Workers
                      /\ \A w \in runners'[j] \ {e} : w \in runners[j] /\ target'[j] = target[j]
    BY DEF FlowInv, LeaseIsTyped
  <2>. QED
    BY <1>1, <2>1, <2>2, MoveKeepsFlow
<1>3. CopyInv'
  <2>1. PICK es, js, used : NumberedBy(es, js, used)
    BY DEF CopyInv
  <2>2. Copies \in Nat /\ Copies' \in Nat /\ Copies <= Copies' /\ \A i \in 1..Copies : i \in 1..Copies'
    BY DEF FlowInv, Copies
  <2>3. \A k \in Jobs \ {j} : Queues(k)' => Queues(k) /\ target'[k] = target[k]
    BY DEF Queues
  <2>4. ASSUME j \in Jobs, Queues(j)'
        PROVE  \E n : n \in 1..Copies' /\ JobIsFresh(target'[j], n, used, version) /\ Free(n, e, j, es, js)
    <3>1. CASE Queues(j)
      <4>1. js[j] \in 1..Copies /\ JobIsFresh(target[j], js[j], used, version)
        BY <2>1, <2>4, <3>1 DEF NumberedBy
      <4>2. Free(js[j], e, j, es, js)
        BY <2>1, <2>4, <3>1, NumbersAreFree
      <4>. QED
        BY <2>2, <4>1, <4>2
    <3>2. CASE e \in Executors /\ exec[e].at \in BeforeSteps /\ exec[e].start = target[j]
      <4>1. Goes(exec[e])
        BY <3>2 DEF Goes
      <4>2. es[e] \in 1..Copies /\ LocalIsFresh(exec[e], es[e], used, version)
        BY <2>1, <3>2, <4>1 DEF NumberedBy
      <4>3. target[j] # NoStep
        BY <2>4 DEF FlowInv
      <4>4. JobIsFresh(target[j], es[e], used, version)
        BY <3>2, <4>2, <4>3 DEF LocalIsFresh
      <4>5. Free(es[e], e, j, es, js)
        BY <2>1, <3>2, <4>1, NumbersAreFree
      <4>. QED
        BY <2>2, <4>2, <4>4, <4>5
    <3>3. CASE mishaps' = mishaps + 1
      <4>1. PICK n : n = Copies + 1
        OBVIOUS
      <4>2. Copies' = Copies + 1
        BY <3>3 DEF Copies, FlowInv
      <4>3. n \in 1..Copies'
        BY <2>2, <4>1, <4>2
      <4>4. n \notin 1..Copies /\ Free(n, e, j, es, js)
        BY <2>1, <4>1, NumbersAreFree
      <4>5. \A v : Spent(n, v, used) = {}
        BY <2>1, <4>4, NumbersAreFree
      <4>6. JobIsFresh(target'[j], n, used, version)
        BY <4>5, NewIsFresh
      <4>. QED
        BY <4>3, <4>4, <4>6
    <3>. QED
      BY <2>4, <3>1, <3>2, <3>3
  <2>5. PICK n : j \in Jobs /\ Queues(j)' =>
                   n \in 1..Copies' /\ JobIsFresh(target'[j], n, used, version) /\ Free(n, e, j, es, js)
    BY <2>4
  <2>6. \A s \in StepNames : used[s] \in SUBSET ((1..Copies') \X (1..version)) /\ ran'[s] = Cardinality(used[s])
    <3>1. (1..Copies) \X (1..version) \subseteq (1..Copies') \X (1..version)
      BY <2>2
    <3>. QED
      BY <2>1, <3>1 DEF NumberedBy
  <2>7. Moved(e, j, n, n, es, js, used, used)
    BY <1>1, <2>2, <2>3, <2>5, <2>6 DEF Moved
  <2>. QED
    BY <2>1, <2>7, MoveKeepsNumbers
<1>. QED
  BY <1>2, <1>3

\* One copy more has executed the step.
Adds(step, m, d, c, used, used2) ==
  /\ step \in StepNames /\ c \in Nat /\ m \in 1..c /\ d \in 1..version /\ <<m, d>> \notin used[step]
  /\ \A s \in StepNames : /\ used[s] \in SUBSET ((1..c) \X (1..version)) /\ ran[s] = Cardinality(used[s])
                          /\ used2[s] = IF s = step THEN used[s] \cup {<<m, d>>} ELSE used[s]
                          /\ ran'[s] = IF s = step THEN ran[s] + 1 ELSE ran[s]

LEMMA Counted ==
  ASSUME FlowInv, NEW step, NEW m, NEW d, NEW c, NEW used, NEW used2, Adds(step, m, d, c, used, used2)
  PROVE  /\ \A s \in StepNames : used2[s] \in SUBSET ((1..c) \X (1..version)) /\ ran'[s] = Cardinality(used2[s])
         /\ \A n, v : Spent(n, v, used2) = IF n = m /\ v = d THEN Spent(n, v, used) \cup {step} ELSE Spent(n, v, used)
<1>. USE DEF Adds
<1>1. IsFiniteSet(used[step])
  <2>1. IsFiniteSet((1..c) \X (1..version))
    <3>1. IsFiniteSet(1..c) /\ IsFiniteSet(1..version)
      <4>1. 1 \in Int /\ c \in Int /\ version \in Int
        BY DEF FlowInv
      <4>. QED
        BY <4>1, FS_Interval
    <3>. QED
      BY <3>1, FS_Product
  <2>. QED
    BY <2>1, FS_Subset
<1>2. Cardinality(used[step] \cup {<<m, d>>}) = Cardinality(used[step]) + 1
  BY <1>1, FS_AddElement
<1>3. ASSUME NEW s \in StepNames PROVE used2[s] \in SUBSET ((1..c) \X (1..version)) /\ ran'[s] = Cardinality(used2[s])
  <2>1. CASE s = step
    <3>1. used2[s] = used[s] \cup {<<m, d>>} /\ ran'[s] = ran[s] + 1 /\ ran[s] = Cardinality(used[s])
      BY <2>1
    <3>2. <<m, d>> \in (1..c) \X (1..version)
      OBVIOUS
    <3>3. Cardinality(used2[s]) = Cardinality(used[s]) + 1
      BY <1>2, <2>1, <3>1
    <3>. QED
      BY <3>1, <3>2, <3>3
  <2>2. CASE s # step
    BY <2>2
  <2>. QED
    BY <2>1, <2>2
<1>4. ASSUME NEW n, NEW v
      PROVE  Spent(n, v, used2) = IF n = m /\ v = d THEN Spent(n, v, used) \cup {step} ELSE Spent(n, v, used)
  <2>1. \A s \in StepNames : <<n, v>> \in used2[s] <=> (<<n, v>> \in used[s] \/ (s = step /\ n = m /\ v = d))
    <3>1. <<n, v>> = <<m, d>> <=> n = m /\ v = d
      OBVIOUS
    <3>. QED
      BY <3>1
  <2>. QED
    BY <2>1 DEF Spent
<1>. QED
  BY <1>3, <1>4

\* A step is executed; a delay enqueues job j.
LEMMA ExecutionKeepsCopies ==
  ASSUME FlowsAreStraight, FlowInv, CopyInv, LeaseIsTyped, ExecIsTyped, NEW e \in Executors,
         NEW outcome, NEW goto, NEW j, Done(e, outcome, goto, j),
         UNCHANGED runners, target' = [k \in Jobs |-> target'[k]],
         \A k \in Jobs \ {j} : phase'[k] = phase[k] /\ target'[k] = target[k],
         outcome = "success" =>
           /\ StepType(e) # "wait"
           /\ IF StepType(e) = "condition"
              THEN goto \in {Definitions[exec[e].def].onTrue[exec[e].step], Definitions[exec[e].def].onFalse[exec[e].step]}
              ELSE goto = NoStep,
         j \in Jobs => /\ outcome = "paused" /\ StepType(e) = "wait" /\ phase[j] = "none" /\ phase'[j] = "queued"
                       /\ target'[j] = Definitions[exec[e].def].next[exec[e].step]
  PROVE  FlowInv' /\ CopyInv'
<1>1. PICK l : l = exec[e]
  OBVIOUS
<1>2. PICK r : r = exec'[e]
  OBVIOUS
<1>3. PICK p : p = <<l.step, l.rest>>
  OBVIOUS
<1>4. DOMAIN l = LocalFields /\ LocalIsKnown(l, version) /\ l.at = "step" /\ version \in Nat
  BY <1>1 DEF ExecIsTyped, FlowInv, Done
<1>5. /\ r.at = "persist" /\ r.outcome = outcome /\ r.goto = goto /\ r.def = l.def /\ r.step = l.step /\ r.rest = l.rest
      /\ \A f \in Executors \ {e} : exec'[f] = exec[f]
  <2>1. exec' = [exec EXCEPT ![e] = [l EXCEPT !.at = "persist", !.outcome = outcome, !.goto = goto, !.job = j]]
    BY <1>1 DEF Done
  <2>. QED
    BY <1>2, <1>4, <2>1 DEF ExecIsTyped, LocalFields
<1>6. l.def \in 1..version /\ l.def \in DOMAIN Definitions /\ p \in Points(l.def)
  BY <1>3, <1>4 DEF LocalIsKnown
<1>7. /\ l.step = p[1] /\ p[1] \in StepNames /\ p[1] \notin Ahead(l.def, p)
      /\ StepsOf(l.def, Successors(l.def, p)) \subseteq Ahead(l.def, p)
      /\ StepsOf(l.def, {p}) = {p[1]} \cup Ahead(l.def, p)
      /\ Definitions[l.def].type[p[1]] = "wait" => Definitions[l.def].next[p[1]] # NoStep
  BY <1>3, <1>6, PointFacts
<1>8. /\ UNCHANGED <<status, version, mishaps, manualResumes>> /\ status # "none"
      /\ ran' = [ran EXCEPT ![l.step] = @ + 1]
  BY <1>1, <1>4 DEF Done, rowVars, wfVars, bounds, FlowInv
<1>9. /\ StepType(e) = Definitions[l.def].type[l.step] /\ exec[e].step = l.step
      /\ Definitions[exec[e].def] = Definitions[l.def]
  BY <1>1 DEF StepType
<1>10. FlowInv'
  <2>1. LocalIsKnown(r, version)
    BY <1>3, <1>5, <1>6, <1>9 DEF LocalIsKnown
  <2>2. j \in Jobs => /\ IF phase'[j] = "none" THEN runners'[j] = {} ELSE target'[j] # NoStep
                      /\ runners'[j] \in SUBSET Workers
                      /\ \A w \in runners'[j] \ {e} : w \in runners[j] /\ target'[j] = target[j]
    BY <1>7, <1>9 DEF FlowInv, LeaseIsTyped
  <2>3. /\ mishaps' \in Nat /\ manualResumes' \in Nat /\ status' # "none"
        /\ ran' = [s \in StepNames |-> ran'[s]]
    BY <1>8 DEF FlowInv
  <2>4. e \in Executors /\ exec'[e].at \notin BeforeSteps
    BY <1>2, <1>5 DEF BeforeSteps
  <2>. QED
    BY <1>2, <1>5, <1>8, <2>1, <2>2, <2>3, <2>4, MoveKeepsFlow
<1>11. CopyInv'
  <2>1. PICK es, js, used : NumberedBy(es, js, used)
    BY DEF CopyInv
  <2>2. PICK m, d : m = es[e] /\ d = l.def
    OBVIOUS
  <2>3. Goes(exec[e])
    BY <1>1, <1>4 DEF Goes
  <2>4. m \in 1..Copies /\ LocalIsFresh(l, m, used, version) /\ Free(m, e, j, es, js)
    <3>1. es[e] \in 1..Copies /\ LocalIsFresh(exec[e], es[e], used, version)
      BY <2>1, <2>3 DEF NumberedBy
    <3>2. Free(es[e], e, j, es, js)
      BY <2>1, <2>3, NumbersAreFree
    <3>. QED
      BY <1>1, <2>2, <3>1, <3>2
  <2>5. /\ Spent(m, d, used) \cap ({l.step} \cup Ahead(d, p)) = {}
        /\ \A v \in Nat : v > d => Spent(m, v, used) = {}
    BY <1>3, <1>4, <1>7, <2>2, <2>4 DEF LocalIsFresh
  <2>6. <<m, d>> \notin used[l.step]
    BY <1>7, <2>5 DEF Spent
  <2>7. PICK c \in Nat : c = Copies
    BY DEF Copies, FlowInv
  <2>8. \A s \in StepNames : used[s] \in SUBSET ((1..c) \X (1..version)) /\ ran[s] = Cardinality(used[s])
    BY <2>1, <2>7 DEF NumberedBy
  <2>9. PICK used2 : \A s \in StepNames : used2[s] = IF s = l.step THEN used[s] \cup {<<m, d>>} ELSE used[s]
    <3>1. PICK x, step : x = <<m, d>> /\ step = l.step
      OBVIOUS
    <3>2. PICK u : u = [s \in StepNames |-> IF s = step THEN used[s] \cup {x} ELSE used[s]]
      OBVIOUS
    <3>3. \A s \in StepNames : u[s] = IF s = step THEN used[s] \cup {x} ELSE used[s]
      BY <3>2
    <3>. QED
      BY <3>1, <3>3
  <2>10. /\ \A s \in StepNames : used2[s] \in SUBSET ((1..c) \X (1..version)) /\ ran'[s] = Cardinality(used2[s])
         /\ \A n, v : Spent(n, v, used2) = IF n = m /\ v = d THEN Spent(n, v, used) \cup {l.step} ELSE Spent(n, v, used)
    <3>1. l.step \in StepNames /\ m \in 1..c /\ d \in 1..version
      BY <1>6, <1>7, <2>2, <2>4, <2>7
    <3>2. \A s \in StepNames : ran'[s] = IF s = l.step THEN ran[s] + 1 ELSE ran[s]
      <4>1. DOMAIN ran = StepNames
        BY DEF FlowInv
      <4>. QED
        BY <1>8, <4>1
    <3>3. \A s \in StepNames : /\ used2[s] = IF s = l.step THEN used[s] \cup {<<m, d>>} ELSE used[s]
                               /\ ran'[s] = IF s = l.step THEN ran[s] + 1 ELSE ran[s]
      BY <2>9, <3>2
    <3>4. Adds(l.step, m, d, c, used, used2)
      BY <2>6, <2>7, <2>8, <3>1, <3>3 DEF Adds
    <3>. QED
      BY <3>4, Counted
  <2>11. /\ Spent(m, d, used2) \cap Ahead(d, p) = {}
         /\ \A v \in Nat : v > d => Spent(m, v, used2) = {}
    <3>1. Spent(m, d, used2) = Spent(m, d, used) \cup {l.step} /\ l.step \notin Ahead(d, p)
      BY <1>7, <2>2, <2>10
    <3>2. ASSUME NEW v \in Nat, v > d PROVE Spent(m, v, used2) = Spent(m, v, used)
      <4>1. v # d
        BY <1>6, <2>2, <3>2
      <4>. QED
        BY <2>10, <4>1
    <3>. QED
      BY <2>5, <3>1, <3>2
  <2>12. LocalIsFresh(r, m, used2, version)
    BY <1>3, <1>5, <2>2, <2>11 DEF LocalIsFresh, BeforeSteps
  <2>13. ASSUME j \in Jobs PROVE JobIsFresh(target'[j], m, used2, version)
    <3>1. PICK next : next = Definitions[d].next[l.step]
      OBVIOUS
    <3>2. target'[j] = next
      BY <1>9, <2>2, <2>13, <3>1
    <3>3. CASE version = d
      <4>1. Successors(d, p) = Onward(d, NoStep, ListFrom(d, next))
        BY <1>7, <1>9, <2>2, <2>13, <3>1 DEF Successors
      <4>2. StepsFrom(d, next) \subseteq Ahead(d, p)
        BY <1>7, <2>2, <4>1 DEF StepsFrom
      <4>. QED
        BY <2>11, <3>2, <3>3, <4>2 DEF JobIsFresh
    <3>4. CASE version # d
      <4>1. version > d
        BY <1>4, <1>6, <2>2, <3>4
      <4>. QED
        BY <1>4, <2>11, <4>1 DEF JobIsFresh
    <3>. QED
      BY <3>3, <3>4
  <2>14. Copies' = Copies
    BY <1>8 DEF Copies
  <2>15. j \in Jobs => ~Goes(exec'[e])
    BY <1>2, <1>5 DEF Goes, BeforeSteps
  <2>16. \A k \in Jobs \ {j} : Queues(k)' => Queues(k) /\ target'[k] = target[k]
    BY DEF Queues
  <2>17. \A x, v : Spent(x, v, used2) # Spent(x, v, used) => e \in Executors /\ Goes(exec[e]) /\ x = es[e]
    BY <2>2, <2>3, <2>10
  <2>18. Moved(e, j, m, m, es, js, used, used2)
    BY <1>2, <1>5, <1>8, <2>4, <2>7, <2>10, <2>12, <2>13, <2>14, <2>15, <2>16, <2>17 DEF Moved
  <2>. QED
    BY <2>1, <2>18, MoveKeepsNumbers
<1>. QED
  BY <1>10, <1>11

\* A trigger, a manual resume and a worker start an executor.
LEMMA StartKeepsCopies ==
  ASSUME FlowInv, CopyInv, LeaseIsTyped, ExecIsTyped, NEW e, NEW j, NEW r, NEW start,
         exec' = [exec EXCEPT ![e] = r], r.at \in {"load", "resume"}, r.start = start, status' # "none",
         UNCHANGED <<target, version, ran, mishaps>>,
         \A k \in Jobs \ {j} : phase'[k] = phase[k] /\ runners'[k] = runners[k],
         \/ start = NoStep /\ status = "none" /\ UNCHANGED <<phase, runners, manualResumes>>
         \/ e \notin Workers /\ manualResumes' = manualResumes + 1 /\ UNCHANGED <<phase, runners>>
         \/ /\ j \in Jobs /\ Queues(j) /\ start = target[j] /\ e \in Workers /\ (\A k \in Jobs : e \notin runners[k])
            /\ phase'[j] = "leased" /\ runners'[j] = runners[j] \cup {e} /\ UNCHANGED manualResumes
  PROVE  FlowInv' /\ CopyInv'
<1>2. r.at \in BeforeSteps /\ r.at # "loadWrite"
  BY DEF BeforeSteps
<1>3. /\ \A f \in Executors \ {e} : exec'[f] = exec[f]
      /\ e \in Executors => exec'[e] = r
  BY DEF ExecIsTyped
<1>4. ASSUME NEW used, NEW n, \A v : Spent(n, v, used) = {} PROVE LocalIsFresh(r, n, used, version)
  BY <1>4, NewIsFresh
<1>a. CASE start = NoStep /\ status = "none" /\ UNCHANGED <<phase, runners, manualResumes>>
  <2>1. \A k \in Jobs : phase[k] = "none" /\ runners[k] = {} /\ ~Queues(k)
    BY <1>a DEF FlowInv, Queues
  <2>2. FlowInv'
    <3>1. e \in Executors => LocalIsKnown(exec'[e], version)
      BY <1>2, <1>3 DEF LocalIsKnown
    <3>. QED
      BY <1>2, <1>3, <1>a, <2>1, <3>1, MoveKeepsFlow DEF FlowInv
  <2>3. CopyInv'
    <3>1. PICK es, js, used : NumberedBy(es, js, used)
      BY DEF CopyInv
    <3>2. \A s \in StepNames : used[s] = {}
      BY <1>a, <3>1 DEF NumberedBy
    <3>3. \A n, v : Spent(n, v, used) = {}
      BY <3>2 DEF Spent
    <3>4. Copies' = Copies /\ Copies \in Nat /\ 1 \in 1..Copies
      BY <1>a DEF Copies, FlowInv
    <3>5. \A f \in Executors : ~Goes(exec[f])
      BY <1>a DEF FlowInv, Goes, BeforeSteps
    <3>6. \A n : Free(n, e, j, es, js)
      BY <2>1, <3>5 DEF Free
    <3>7. \A k \in Jobs : ~Queues(k)'
      BY <1>a, <2>1 DEF Queues
    <3>8. \A s \in StepNames : used[s] \in SUBSET ((1..Copies') \X (1..version)) /\ ran'[s] = Cardinality(used[s])
      BY <3>1, <3>4 DEF NumberedBy
    <3>9. LocalIsFresh(r, 1, used, version)
      BY <1>4, <3>3
    <3>10. Moved(e, j, 1, 1, es, js, used, used)
      BY <1>3, <3>4, <3>6, <3>7, <3>8, <3>9 DEF Moved
    <3>. QED
      BY <3>1, <3>10, MoveKeepsNumbers
  <2>. QED
    BY <2>2, <2>3
<1>b. CASE e \notin Workers /\ manualResumes' = manualResumes + 1 /\ UNCHANGED <<phase, runners>>
  <2>1. \A k \in Jobs : e \notin runners[k] /\ (Queues(k)' => Queues(k))
    BY <1>b DEF LeaseIsTyped, Queues
  <2>2. FlowInv'
    <3>1. e \in Executors => LocalIsKnown(exec'[e], version)
      BY <1>2, <1>3 DEF LocalIsKnown
    <3>2. /\ mishaps' \in Nat /\ manualResumes' \in Nat
          /\ target' = [k \in Jobs |-> target'[k]] /\ ran' = [s \in StepNames |-> ran'[s]]
      BY <1>b DEF FlowInv
    <3>3. NoJob \notin Jobs
      OBVIOUS
    <3>. QED
      BY <1>3, <1>b, <2>1, <3>1, <3>2, <3>3, MoveKeepsFlow
  <2>3. CopyInv'
    <3>1. PICK es, js, used : NumberedBy(es, js, used)
      BY DEF CopyInv
    <3>2. PICK n, i : n = Copies + 1 /\ i = NoJob
      OBVIOUS
    <3>3. /\ Copies' = Copies + 1 /\ Copies \in Nat /\ Copies' \in Nat
          /\ n \in 1..Copies' /\ \A c \in 1..Copies : c \in 1..Copies'
      BY <1>b, <3>2 DEF Copies, FlowInv
    <3>4. n \notin 1..Copies /\ Free(n, e, i, es, js)
      BY <3>1, <3>2, NumbersAreFree
    <3>5. \A v : Spent(n, v, used) = {}
      BY <3>1, <3>4, NumbersAreFree
    <3>6. \A s \in StepNames : used[s] \in SUBSET ((1..Copies') \X (1..version)) /\ ran'[s] = Cardinality(used[s])
      <4>1. (1..Copies) \X (1..version) \subseteq (1..Copies') \X (1..version)
        BY <3>3
      <4>. QED
        BY <3>1, <4>1 DEF NumberedBy
    <3>7. LocalIsFresh(r, n, used, version)
      BY <1>4, <3>5
    <3>8. Moved(e, i, n, n, es, js, used, used)
      BY <1>3, <2>1, <3>2, <3>3, <3>4, <3>6, <3>7 DEF Moved
    <3>. QED
      BY <3>1, <3>8, MoveKeepsNumbers
  <2>. QED
    BY <2>2, <2>3
<1>c. CASE /\ j \in Jobs /\ Queues(j) /\ start = target[j] /\ e \in Workers /\ (\A k \in Jobs : e \notin runners[k])
           /\ phase'[j] = "leased" /\ runners'[j] = runners[j] \cup {e} /\ UNCHANGED manualResumes
  <2>1. target[j] # NoStep
    BY <1>c DEF FlowInv, Queues
  <2>2. FlowInv'
    <3>1. e \in Executors => LocalIsKnown(exec'[e], version)
      BY <1>2, <1>3 DEF LocalIsKnown
    <3>2. /\ mishaps' \in Nat /\ manualResumes' \in Nat
          /\ target' = [k \in Jobs |-> target'[k]] /\ ran' = [s \in StepNames |-> ran'[s]]
      BY <1>c DEF FlowInv
    <3>3. \A k \in Jobs : e \in runners'[k] => k = j
      BY <1>c
    <3>4. /\ IF phase'[j] = "none" THEN runners'[j] = {} ELSE target'[j] # NoStep
          /\ runners'[j] \in SUBSET Workers
          /\ \A w \in runners'[j] \ {e} : w \in runners[j] /\ target'[j] = target[j]
      BY <1>c, <2>1 DEF LeaseIsTyped
    <3>5. e \in Executors /\ exec'[e].at \in BeforeSteps =>
            \A k \in Jobs : e \in runners'[k] => exec'[e].start = target'[k]
      BY <1>2, <1>3, <1>c, <3>3
    <3>6. \A k \in Jobs \ {j} : phase'[k] = phase[k] /\ runners'[k] = runners[k] /\ target'[k] = target[k]
      OBVIOUS
    <3>7. /\ \A f \in Executors \ {e} : exec'[f] = exec[f]
          /\ UNCHANGED version /\ status' # "none"
      BY <1>3
    <3>. QED
      BY <3>1, <3>2, <3>4, <3>5, <3>6, <3>7, MoveKeepsFlow
  <2>3. CopyInv'
    <3>1. PICK es, js, used : NumberedBy(es, js, used)
      BY DEF CopyInv
    <3>2. PICK n : n = js[j]
      OBVIOUS
    <3>3. Copies' = Copies /\ Copies \in Nat
      BY <1>c DEF Copies, FlowInv
    <3>4. n \in 1..Copies /\ JobIsFresh(target[j], n, used, version)
      BY <1>c, <3>1, <3>2 DEF NumberedBy
    <3>5. Free(n, e, j, es, js)
      BY <1>c, <3>1, <3>2, NumbersAreFree
    <3>6. \A s \in StepNames : used[s] \in SUBSET ((1..Copies') \X (1..version)) /\ ran'[s] = Cardinality(used[s])
      BY <3>1, <3>3 DEF NumberedBy
    <3>7. LocalIsFresh(r, n, used, version)
      BY <1>2, <1>c, <2>1, <3>4 DEF LocalIsFresh, BeforeSteps
    <3>8. ~Queues(j)' /\ \A k \in Jobs \ {j} : Queues(k)' => Queues(k)
      BY <1>c DEF Queues
    <3>9. Moved(e, j, n, n, es, js, used, used)
      BY <1>3, <3>3, <3>4, <3>5, <3>6, <3>7, <3>8 DEF Moved
    <3>. QED
      BY <3>1, <3>9, MoveKeepsNumbers
  <2>. QED
    BY <2>2, <2>3
<1>. QED
  BY <1>a, <1>b, <1>c

LEMMA ExecutorStepKeepsCopies ==
  ASSUME FlowsAreStraight, FlowInv, CopyInv, LeaseIsTyped, ExecIsTyped, NEW e \in Executors, ExecutorStep(e)
  PROVE  FlowInv' /\ CopyInv'
<1>1. CASE ResumeRead(e) \/ ResumeWrite(e) \/ LoadRead(e) \/ LoadWrite(e) \/ Persist(e) \/ Finish(e)
  BY <1>1, QuietStepKeepsCopies
<1>2. CASE WriteFails(e)
  <2>1. /\ exec' = [exec EXCEPT ![e] = Idle] /\ exec[e].at \in {"resumeWrite", "loadWrite"}
        /\ UNCHANGED <<status, target, version, manualResumes, ran, mishaps>>
    BY <1>2 DEF WriteFails, rowVars, wfVars, bounds
  <2>2. /\ \A f \in Executors \ {e} : exec'[f] = exec[f]
        /\ exec'[e].at \in {"idle", "lost"}
    BY <2>1, RecordDomains DEF ExecIsTyped
  <2>3. status' # "none" /\ exec[e].at \in BeforeSteps /\ mishaps' \in {mishaps, mishaps + 1}
    BY <2>1 DEF FlowInv, BeforeSteps
  <2>4. CASE e \in Tasks
    <3>1. UNCHANGED <<phase, runners>> /\ NoJob \notin Jobs
      BY <1>2, <2>4 DEF WriteFails, leaseVars
    <3>. QED
      BY <2>1, <2>2, <2>3, <3>1, EndingKeepsCopies
  <2>5. CASE e \in Workers
    <3>1. e \notin Tasks
      BY <2>5
    <3>2. PICK j \in Jobs : Settle(j, e, IF failures[j] + 1 >= MaxAttempts THEN "dead" ELSE "queued")
      BY <1>2, <3>1 DEF WriteFails
    <3>3. PICK p : p = IF phase[j] = "gone" THEN "gone" ELSE IF failures[j] + 1 >= MaxAttempts THEN "dead" ELSE "queued"
      OBVIOUS
    <3>4. /\ e \in runners[j] /\ runners' = [runners EXCEPT ![j] = @ \ {e}]
          /\ phase' = [phase EXCEPT ![j] = p] /\ p # "none"
      BY <3>2, <3>3 DEF Settle
    <3>5. exec[e].start = target[j] /\ phase[j] # "none"
      BY <2>3, <3>4 DEF FlowInv
    <3>6. \A k \in Jobs \ {j} : phase'[k] = phase[k] /\ runners'[k] = runners[k]
      BY <3>4 DEF LeaseIsTyped
    <3>7. phase'[j] # "none" /\ runners'[j] \subseteq runners[j]
      BY <3>4 DEF LeaseIsTyped
    <3>. QED
      BY <2>1, <2>2, <2>3, <3>5, <3>6, <3>7, EndingKeepsCopies
  <2>. QED
    BY <2>4, <2>5 DEF Executors
<1>3. ASSUME NEW outcome \in {"success", "failed"}, ExecuteAction(e, outcome) PROVE FlowInv' /\ CopyInv'
  <2>1. Done(e, outcome, NoStep, NoJob) /\ UNCHANGED <<phase, runners, target>> /\ StepType(e) \in {"action", "skip"}
    BY <1>3 DEF ExecuteAction, jobVars
  <2>2. target' = [k \in Jobs |-> target'[k]]
    BY <2>1 DEF FlowInv
  <2>. QED
    BY <2>1, <2>2, ExecutionKeepsCopies
<1>4. ASSUME NEW holds \in BOOLEAN, ExecuteCondition(e, holds) PROVE FlowInv' /\ CopyInv'
  <2>1. PICK goto : /\ goto = IF holds THEN Definitions[exec[e].def].onTrue[exec[e].step]
                              ELSE Definitions[exec[e].def].onFalse[exec[e].step]
                    /\ Done(e, "success", goto, NoJob)
    BY <1>4 DEF ExecuteCondition
  <2>2. UNCHANGED <<phase, runners, target>> /\ StepType(e) = "condition"
    BY <1>4 DEF ExecuteCondition, jobVars
  <2>3. target' = [k \in Jobs |-> target'[k]]
    BY <2>2 DEF FlowInv
  <2>4. goto \in {Definitions[exec[e].def].onTrue[exec[e].step], Definitions[exec[e].def].onFalse[exec[e].step]}
    BY <2>1
  <2>. QED
    BY <2>1, <2>2, <2>3, <2>4, ExecutionKeepsCopies
<1>5. CASE ExecuteWait(e)
  <2>1. PICK j : j = CHOOSE k \in {i \in Jobs : phase[i] = "none"} : TRUE
    OBVIOUS
  <2>2. j \in Jobs /\ phase[j] = "none"
    BY <1>5, <2>1 DEF ExecuteWait
  <2>3. PICK next : next = Definitions[exec[e].def].next[exec[e].step]
    OBVIOUS
  <2>4. /\ Done(e, "paused", NoStep, j) /\ UNCHANGED runners /\ StepType(e) = "wait"
        /\ phase' = [phase EXCEPT ![j] = "queued"] /\ target' = [target EXCEPT ![j] = next]
    BY <1>5, <2>1, <2>3 DEF ExecuteWait, Offer
  <2>5. /\ target' = [k \in Jobs |-> target'[k]] /\ target'[j] = next /\ phase'[j] = "queued"
        /\ \A k \in Jobs \ {j} : phase'[k] = phase[k] /\ target'[k] = target[k]
    BY <2>2, <2>4 DEF FlowInv, LeaseIsTyped
  <2>. QED
    BY <2>2, <2>3, <2>4, <2>5, ExecutionKeepsCopies
<1>6. CASE ExecuteWaitFails(e)
  <2>1. Done(e, "failed", NoStep, NoJob) /\ UNCHANGED <<phase, runners, target>> /\ StepType(e) = "wait"
    BY <1>6 DEF ExecuteWaitFails, jobVars
  <2>2. target' = [k \in Jobs |-> target'[k]]
    BY <2>1 DEF FlowInv
  <2>. QED
    BY <2>1, <2>2, ExecutionKeepsCopies
<1>. QED
  BY <1>1, <1>2, <1>3, <1>4, <1>5, <1>6 DEF ExecutorStep

LEMMA SomethingElse == \E x : x \notin Executors
<1>1. PICK R : \A x : x \in R <=> x \in Executors /\ x \notin x
  <2>1. \E R : R = {x \in Executors : x \notin x}
    OBVIOUS
  <2>. QED
    BY <2>1
<1>2. ~(R \in Executors)
  BY <1>1
<1>. QED
  BY <1>2

\* The steps that touch no copy.
LEMMA NothingMoves ==
  ASSUME FlowInv, CopyInv, UNCHANGED <<exec, phase, runners, target, version, mishaps, manualResumes, ran>>,
         status' = "none" => status = "none"
  PROVE  FlowInv' /\ CopyInv'
<1>1. FlowInv'
  <2>1. \A e \in Executors : LocalIsKnown(exec[e], version)' <=> LocalIsKnown(exec'[e], version')
    BY DEF LocalIsKnown
  <2>. QED
    BY <2>1 DEF FlowInv
<1>2. CopyInv'
  <2>1. PICK es, js, used : NumberedBy(es, js, used)
    BY DEF CopyInv
  <2>2. /\ \A e \in Executors : Goes(exec[e])' <=> Goes(exec[e])
        /\ \A j \in Jobs : Queues(j)' <=> Queues(j)
        /\ Copies' = Copies
    BY DEF Goes, Queues, Copies
  <2>3. NumberedBy(es, js, used)'
    BY <2>1, <2>2 DEF NumberedBy
  <2>. QED
    BY <2>3 DEF CopyInv
<1>. QED
  BY <1>1, <1>2

\* Nobody has executed a step of a new version yet.
LEMMA UpdateKeepsCopies ==
  ASSUME FlowInv, CopyInv, UpdateWorkflow
  PROVE  FlowInv' /\ CopyInv'
<1>1. /\ UNCHANGED <<status, exec, phase, runners, target, mishaps, manualResumes, ran>>
      /\ version' = version + 1 /\ version + 1 \in DOMAIN Definitions /\ version \in Nat \ {0}
  BY DEF UpdateWorkflow, Edit, rowVars, jobVars, FlowInv
<1>2. FlowInv'
  <2>1. \A e \in Executors : LocalIsKnown(exec[e], version)' <=> LocalIsKnown(exec'[e], version')
    BY DEF LocalIsKnown
  <2>2. \A i \in 1..version : i \in 1..version'
    BY <1>1
  <2>3. \A e \in Executors : LocalIsKnown(exec[e], version')
    BY <2>2 DEF FlowInv, LocalIsKnown
  <2>. QED
    BY <1>1, <2>1, <2>3 DEF FlowInv
<1>3. CopyInv'
  <2>1. PICK es, js, used : NumberedBy(es, js, used)
    BY DEF CopyInv
  <2>2. /\ \A e \in Executors : Goes(exec[e])' <=> Goes(exec[e])
        /\ \A j \in Jobs : Queues(j)' <=> Queues(j)
        /\ Copies' = Copies
    BY <1>1 DEF Goes, Queues, Copies
  <2>3. \A n : Spent(n, version', used) = {}
    <3>1. version' \notin 1..version
      BY <1>1
    <3>. QED
      BY <2>1, <3>1, NumbersAreFree
  <2>4. \A local, n : LocalIsFresh(local, n, used, version) => LocalIsFresh(local, n, used, version')
    BY <2>3 DEF LocalIsFresh, JobIsFresh
  <2>5. \A next, n : JobIsFresh(next, n, used, version')
    BY <2>3 DEF JobIsFresh
  <2>6. (1..Copies) \X (1..version) \subseteq (1..Copies) \X (1..version')
    BY <1>1
  <2>7. \A s \in StepNames : used[s] \in SUBSET ((1..Copies') \X (1..version')) /\ ran'[s] = Cardinality(used[s])
    BY <1>1, <2>1, <2>2, <2>6 DEF NumberedBy
  <2>8. NumberedBy(es, js, used)'
    BY <1>1, <2>1, <2>2, <2>4, <2>5, <2>7 DEF NumberedBy
  <2>. QED
    BY <2>8 DEF CopyInv
<1>. QED
  BY <1>2, <1>3

LEMMA StepKeepsCopies ==
  ASSUME FlowsAreStraight, WInv, FlowInv, CopyInv, [Next]_vars
  PROVE  FlowInv' /\ CopyInv'
<1>. USE DEF WInv
<1>1. ASSUME NEW e \in Executors, ExecutorStep(e) PROVE FlowInv' /\ CopyInv'
  BY <1>1, ExecutorStepKeepsCopies
<1>2. ASSUME NEW manual, Trigger(manual) PROVE FlowInv' /\ CopyInv'
  <2>1. PICK r : r = [Idle EXCEPT !.at = "load"]
    OBVIOUS
  <2>2. /\ exec' = [exec EXCEPT ![FreeTask] = r]
        /\ status = "none" /\ status' = "pending"
        /\ UNCHANGED <<phase, runners, target, version, ran, mishaps, manualResumes>>
    BY <1>2, <2>1 DEF Trigger, jobVars, wfVars, bounds
  <2>3. r.at = "load" /\ r.start = NoStep
    BY <2>1 DEF Idle
  <2>4. \A k \in Jobs \ {NoJob} : phase'[k] = phase[k] /\ runners'[k] = runners[k]
    BY <2>2
  <2>. QED
    BY <2>2, <2>3, <2>4, StartKeepsCopies
<1>3. CASE ManualResume
  <2>r. PICK r : r = [Idle EXCEPT !.at = "resume", !.start = current]
    OBVIOUS
  <2>1. /\ exec' = [exec EXCEPT ![FreeTask] = r]
        /\ UNCHANGED <<status, phase, runners, target, version, ran, mishaps>> /\ status # "none"
        /\ manualResumes' = manualResumes + 1
    BY <1>3, <2>r DEF ManualResume, jobVars, wfVars, rowVars
  <2>2. FreeTask \in Tasks
    BY <1>3 DEF ManualResume, FreeTasks, FreeTask
  <2>3. r.at = "resume" /\ r.start = current
    BY <2>r DEF Idle
  <2>4. FreeTask \notin Workers /\ \A k \in Jobs \ {NoJob} : phase'[k] = phase[k] /\ runners'[k] = runners[k]
    BY <2>1, <2>2, <2>3
  <2>. QED
    BY <2>1, <2>3, <2>4, StartKeepsCopies
<1>4. ASSUME NEW t \in Tasks, TaskLost(t) PROVE FlowInv' /\ CopyInv'
  <2>1. /\ exec' = [exec EXCEPT ![t] = [Idle EXCEPT !.at = "lost"]] /\ exec[t].at # "idle"
        /\ UNCHANGED <<status, phase, runners, target, version, ran, manualResumes>> /\ mishaps' = mishaps + 1
    BY <1>4 DEF TaskLost, InFlight, Mishap, leaseVars, wfVars, rowVars
  <2>2. [Idle EXCEPT !.at = "lost"].at = "lost"
    BY DEF Idle
  <2>3. /\ t \in Executors /\ status' # "none" /\ exec'[t].at \in {"idle", "lost"}
        /\ \A f \in Executors \ {t} : exec'[f] = exec[f]
    BY <2>1, <2>2 DEF Executors, ExecIsTyped, FlowInv
  <2>4. NoJob \notin Jobs /\ \A k \in Jobs \ {NoJob} : phase'[k] = phase[k] /\ runners'[k] = runners[k]
    BY <2>1
  <2>. QED
    BY <2>1, <2>3, <2>4, EndingKeepsCopies
<1>5. ASSUME NEW w \in Workers, NEW j \in Jobs, WakeUp(w, j) PROVE FlowInv' /\ CopyInv'
  <2>r. PICK r : r = [Idle EXCEPT !.at = "resume", !.start = target[j]]
    OBVIOUS
  <2>1. /\ exec' = [exec EXCEPT ![w] = r]
        /\ UNCHANGED <<status, target, version, ran, mishaps, manualResumes>> /\ phase[j] = "queued"
        /\ phase' = [phase EXCEPT ![j] = "leased"] /\ runners' = [runners EXCEPT ![j] = @ \cup {w}]
        /\ \A k \in Jobs : w \notin runners[k]
    BY <1>5, <2>r DEF WakeUp, Lease, wfVars, rowVars, bounds
  <2>2. r.at = "resume" /\ r.start = target[j]
    BY <2>r DEF Idle
  <2>3. /\ status' # "none" /\ Queues(j) /\ phase'[j] = "leased" /\ runners'[j] = runners[j] \cup {w}
        /\ \A k \in Jobs \ {j} : phase'[k] = phase[k] /\ runners'[k] = runners[k]
    BY <2>1 DEF FlowInv, Queues, LeaseIsTyped
  <2>. QED
    BY <2>1, <2>2, <2>3, StartKeepsCopies
<1>6. ASSUME NEW w \in Workers, NEW j \in Jobs, Report(w, j) \/ WorkerDies(w, j) \/ HandlerFails(w, j)
      PROVE  FlowInv' /\ CopyInv'
  <2>1. /\ exec' = [exec EXCEPT ![w] = Idle] /\ w \in runners[j] /\ runners' = [runners EXCEPT ![j] = @ \ {w}]
        /\ UNCHANGED <<status, target, version, ran, manualResumes>>
    BY <1>6 DEF Report, WorkerDies, HandlerFails, Settle, Drop, Mishap, wfVars, rowVars, bounds
  <2>2. phase[j] # "none" /\ status' # "none"
    BY <2>1 DEF FlowInv
  <2>3. /\ w \in Executors /\ exec'[w].at \in {"idle", "lost"}
        /\ \A f \in Executors \ {w} : exec'[f] = exec[f]
    BY <2>1, RecordDomains DEF Executors, ExecIsTyped
  <2>4. PICK p : /\ phase' = [phase EXCEPT ![j] = p] /\ p # "none"
                 /\ ((p \in {"done", "gone"} /\ mishaps' = mishaps) \/ mishaps' = mishaps + 1)
    <3>1. CASE Report(w, j)
      <4>1. PICK p : p = IF phase[j] = "gone" THEN "gone" ELSE "done"
        OBVIOUS
      <4>. QED
        BY <3>1, <4>1 DEF Report, Settle, bounds
    <3>2. CASE WorkerDies(w, j)
      BY <2>2, <3>2 DEF WorkerDies, Drop, Mishap, LeaseIsTyped
    <3>3. CASE HandlerFails(w, j)
      <4>1. PICK p : p = IF phase[j] = "gone" THEN "gone" ELSE IF failures[j] + 1 >= MaxAttempts THEN "dead" ELSE "queued"
        OBVIOUS
      <4>2. mishaps' = mishaps + 1 /\ phase' = [phase EXCEPT ![j] = p]
        BY <3>3, <4>1 DEF HandlerFails, Settle, Mishap
      <4>3. p # "none"
        BY <4>1
      <4>. QED
        BY <4>2, <4>3
    <3>. QED
      BY <1>6, <3>1, <3>2, <3>3
  <2>5. /\ phase'[j] # "none" /\ runners'[j] \subseteq runners[j]
        /\ \A k \in Jobs \ {j} : phase'[k] = phase[k] /\ runners'[k] = runners[k]
        /\ Queues(j)' => mishaps' = mishaps + 1
    BY <2>1, <2>4 DEF LeaseIsTyped, Queues
  <2>6. mishaps' \in {mishaps, mishaps + 1}
    BY <2>4
  <2>. QED
    BY <2>1, <2>2, <2>3, <2>5, <2>6, EndingKeepsCopies
<1>7. ASSUME NEW j \in Jobs, StaleReset(j) PROVE FlowInv' /\ CopyInv'
  <2>1. /\ phase[j] = "leased" /\ phase' = [phase EXCEPT ![j] = "queued"]
        /\ UNCHANGED <<status, exec, runners, target, version, ran, manualResumes>>
        /\ (runners[j] = {} /\ mishaps' = mishaps) \/ mishaps' = mishaps + 1
    <3>1. phase[j] = "leased" /\ phase' = [k \in Jobs |-> IF k \in {j} THEN "queued" ELSE phase[k]]
      BY <1>7 DEF StaleReset, Expire
    <3>2. phase' = [phase EXCEPT ![j] = "queued"]
      BY <3>1 DEF LeaseIsTyped
    <3>. QED
      BY <1>7, <3>1, <3>2 DEF StaleReset, Expire, Mishap, wfVars, rowVars, bounds
  <2>2. /\ phase[j] # "none" /\ phase'[j] # "none" /\ status' # "none" /\ mishaps' \in {mishaps, mishaps + 1}
        /\ runners'[j] \subseteq runners[j]
        /\ \A k \in Jobs \ {j} : phase'[k] = phase[k] /\ runners'[k] = runners[k]
        /\ Queues(j) \/ mishaps' = mishaps + 1
    BY <2>1 DEF FlowInv, LeaseIsTyped, Queues
  <2>3. PICK e : e \notin Executors
    BY SomethingElse
  <2>4. \A f \in Executors \ {e} : exec'[f] = exec[f]
    BY <2>1
  <2>. QED
    BY <2>1, <2>2, <2>3, <2>4, EndingKeepsCopies
<1>8. CASE UpdateWorkflow
  BY <1>8, UpdateKeepsCopies
<1>9. CASE \/ \E j \in Jobs : DelayElapses(j)
           \/ CancelRead \/ CancelWrite \/ ToggleWorkflow \/ DeleteWorkflow \/ UNCHANGED vars
  <2>1. /\ UNCHANGED <<exec, phase, runners, target, version, mishaps, manualResumes, ran>>
        /\ status' = "none" => status = "none"
    BY <1>9 DEF DelayElapses, CancelRead, CancelWrite, ToggleWorkflow, DeleteWorkflow, Edit, vars,
                leaseVars, jobVars, wfVars, rowVars, bounds
  <2>. QED
    BY <2>1, NothingMoves
<1>10. ASSUME NEW j \in Jobs, DeleteJob(j) \/ RetryJob(j) PROVE FlowInv' /\ CopyInv'
  <2>1. PICK p : p = IF DeleteJob(j) THEN "gone" ELSE "queued"
    OBVIOUS
  <2>2. /\ phase' = [phase EXCEPT ![j] = p] /\ phase[j] # "none" /\ p # "none"
        /\ UNCHANGED <<status, exec, runners, target, version, ran, mishaps, manualResumes>>
        /\ p = "gone" \/ (p = "queued" /\ phase[j] = "dead")
    BY <1>10, <2>1 DEF DeleteJob, RetryJob, Remove, Revive, EditJobs, wfVars, rowVars, bounds, LeaseIsTyped
  <2>3. /\ phase'[j] # "none" /\ status' # "none" /\ mishaps' \in {mishaps, mishaps + 1}
        /\ runners'[j] \subseteq runners[j]
        /\ \A k \in Jobs \ {j} : phase'[k] = phase[k] /\ runners'[k] = runners[k]
        /\ Queues(j)' => Queues(j)
    BY <2>2 DEF FlowInv, LeaseIsTyped, Queues
  <2>4. PICK e : e \notin Executors
    BY SomethingElse
  <2>5. \A f \in Executors \ {e} : exec'[f] = exec[f]
    BY <2>2
  <2>. QED
    BY <2>2, <2>3, <2>4, <2>5, EndingKeepsCopies
<1>. QED
  BY <1>1, <1>2, <1>3, <1>4, <1>5, <1>6, <1>7, <1>8, <1>9, <1>10 DEF Next, WorkerStep, Executors

LEMMA InitHasCopies == ASSUME Init PROVE FlowInv /\ CopyInv
<1>1. /\ \A e \in Executors : exec[e].at = "idle"
      /\ \A j \in Jobs : phase[j] = "none" /\ runners[j] = {}
      /\ version = 1 /\ mishaps = 0 /\ manualResumes = 0
      /\ target = [j \in Jobs |-> NoStep] /\ ran = [s \in StepNames |-> 0]
  BY RecordDomains DEF Init, LeaseInit
<1>2. FlowInv
  BY <1>1 DEF FlowInv, LocalIsKnown
<1>3. PICK used : used = [s \in StepNames |-> {}]
  OBVIOUS
<1>4. NumberedBy(exec, target, used)
  <2>1. /\ \A e \in Executors : ~Goes(exec[e])
        /\ \A j \in Jobs : ~Queues(j)
    BY <1>1 DEF Goes, Queues, BeforeSteps
  <2>2. \A s \in StepNames : used[s] = {} /\ ran[s] = Cardinality(used[s])
    BY <1>1, <1>3, FS_EmptySet
  <2>. QED
    BY <2>1, <2>2 DEF NumberedBy
<1>. QED
  BY <1>2, <1>4 DEF CopyInv

\* Whatever crashes, is retried, overruns, resumed by hand or edited: a step is executed at most
\* once by each copy of the instance and each version of the workflow (run_instance,
\* resume_instance, _execute_wait_delay).  It takes that no flow leads to a step twice of itself.
THEOREM RepeatsArePaidForHolds == ASSUME FlowsAreStraight PROVE Spec => []RepeatsArePaidFor
<1>1. WInv /\ FlowInv /\ CopyInv /\ [Next]_vars => FlowInv' /\ CopyInv'
  BY StepKeepsCopies
<1>2. FlowInv /\ CopyInv => RepeatsArePaidFor
  <2>. SUFFICES ASSUME FlowInv, CopyInv, NEW s \in StepNames PROVE ran[s] <= version * (1 + mishaps + manualResumes)
    BY DEF RepeatsArePaidFor
  <2>1. PICK es, js, used : NumberedBy(es, js, used)
    BY DEF CopyInv
  <2>2. PICK c \in Nat : c = Copies
    BY DEF Copies, FlowInv
  <2>3. used[s] \in SUBSET ((1..c) \X (1..version)) /\ ran[s] = Cardinality(used[s])
    BY <2>1, <2>2 DEF NumberedBy
  <2>4. 1 \in Int /\ c \in Int /\ version \in Int /\ c >= 1 /\ version >= 1
    BY <2>2 DEF FlowInv, Copies
  <2>5. /\ IsFiniteSet(1..c) /\ Cardinality(1..c) = c
        /\ IsFiniteSet(1..version) /\ Cardinality(1..version) = version
    <3>1. /\ IsFiniteSet(1..c) /\ Cardinality(1..c) = IF 1 > c THEN 0 ELSE c - 1 + 1
          /\ IsFiniteSet(1..version) /\ Cardinality(1..version) = IF 1 > version THEN 0 ELSE version - 1 + 1
      BY <2>4, FS_Interval
    <3>. QED
      BY <2>4, <3>1
  <2>6. IsFiniteSet((1..c) \X (1..version)) /\ Cardinality((1..c) \X (1..version)) = c * version
    <3>1. PICK S, T : S = 1..c /\ T = 1..version
      OBVIOUS
    <3>2. IsFiniteSet(S \X T) /\ Cardinality(S \X T) = Cardinality(S) * Cardinality(T)
      BY <2>5, <3>1, FS_Product
    <3>. QED
      BY <2>5, <3>1, <3>2
  <2>7. ran[s] <= c * version
    BY <2>3, <2>6, FS_Subset
  <2>8. c * version = version * (1 + mishaps + manualResumes)
    BY <2>2, <2>4 DEF Copies
  <2>. QED
    BY <2>7, <2>8
<1>. QED
  BY <1>1, <1>2, InitHasWInv, StepKeepsWInv, InitHasCopies, PTL DEF Spec
=============================================================================
