------------------------------ MODULE JobQueue ------------------------------
(***************************************************************************)
(* The background job queue: the jobs table, the JobWorker processes that  *)
(* poll it, and the superadmin endpoints that edit it.                     *)
(*                                                                         *)
(* Every database transaction of the code is one action.  The awaits       *)
(* between two transactions of one actor are the interleaving points, so a *)
(* worker's progress through _process_one_job is its program counter pc.   *)
(* Wall-clock time appears through the three comparisons the code makes    *)
(* with it: due (run_at has come), expired (started_at lies at least       *)
(* job_execution_timeout in the past) and late (this worker has held its   *)
(* job for that long).                                                     *)
(***************************************************************************)
EXTENDS Integers, Sequences, FiniteSets

CONSTANTS
  Jobs,              \* identifiers of the jobs that are ever enqueued
  Workers,           \* JobWorker instances: one per app process or `snackbase worker`
  NoJob,             \* a worker that works on nothing
  Priority,          \* Priority[j]: the lower the sooner
  MaxRetries,        \* MaxRetries[j]: the max_retries column
  Serves,            \* Serves[w]: the jobs in the queues that w's queue_filter admits
  MaxMishaps,        \* bound: crashes, shutdowns and failed writes
  MaxManualRetries   \* bound: uses of the retry endpoint

ASSUME JobQueueAssumption ==
  /\ NoJob \notin Jobs
  /\ Priority \in [Jobs -> Int]
  /\ MaxRetries \in [Jobs -> Nat]
  /\ Serves \in [Workers -> SUBSET Jobs]
  /\ MaxMishaps \in Nat
  /\ MaxManualRetries \in Nat

VARIABLES
  dialect,       \* the database: it decides how pick_next_job claims a row
  status,        \* status[j]: the status column; "new" and "deleted" stand for no row
  attempt,       \* attempt[j]: the attempt_number column
  due,           \* due[j]: run_at is NULL or has come
  expired,       \* expired[j]: started_at <= now - job_execution_timeout
  arrivals,      \* the jobs in the order of created_at
  cancelling,    \* cancel requests that have read "pending" and not yet deleted the row
  pc,            \* pc[w]: where worker w is in its tick
  held,          \* held[w]: the job_id worker w works on
  captured,      \* captured[w]: the attempt_number it read when it picked the job
  seen,          \* seen[w]: the status it read (SQLite: the UPDATE compares with it)
  late,          \* late[w]: job_execution_timeout has elapsed since its claim
  mishaps,       \* crashes, shutdowns and failed writes so far
  manualRetries, \* uses of the retry endpoint so far
  runs,          \* history: claims of j since it was enqueued or manually retried
  overrun        \* history: jobs reset as stale while a worker was still on them

rowVars     == <<dialect, status, attempt, due, expired, arrivals>>
workerVars  == <<pc, held, captured, seen, late>>
historyVars == <<runs, overrun>>
vars == <<rowVars, cancelling, workerVars, mishaps, manualRetries, historyVars>>

Status == {"new", "pending", "running", "retrying", "completed", "failed", "dead", "deleted"}
PC     == {"down", "idle", "selected", "executing", "succeeded", "failing", "cancelled"}

TypeOK ==
  /\ dialect \in {"postgresql", "sqlite"}
  /\ status \in [Jobs -> Status]
  /\ attempt \in [Jobs -> Nat]
  /\ due \in [Jobs -> BOOLEAN]
  /\ expired \in [Jobs -> BOOLEAN]
  /\ arrivals \in Seq(Jobs)
  /\ cancelling \subseteq Jobs
  /\ pc \in [Workers -> PC]
  /\ held \in [Workers -> Jobs \cup {NoJob}]
  /\ \A w \in Workers : held[w] = NoJob <=> pc[w] \in {"down", "idle"}
  /\ captured \in [Workers -> Nat]
  /\ seen \in [Workers -> Status]
  /\ late \in [Workers -> BOOLEAN]
  /\ mishaps \in 0..MaxMishaps
  /\ manualRetries \in 0..MaxManualRetries
  /\ runs \in [Jobs -> Nat]
  /\ overrun \subseteq Jobs

Exists(j) == status[j] \notin {"new", "deleted"}

\* Worker w has claimed job j and has not yet recorded an outcome for it.
Holds(w, j) ==
  /\ held[w] = j
  /\ pc[w] \in {"executing", "succeeded", "failing", "cancelled"}

Init ==
  /\ dialect \in {"postgresql", "sqlite"}
  /\ status = [j \in Jobs |-> "new"]
  /\ attempt = [j \in Jobs |-> 0]
  /\ due = [j \in Jobs |-> TRUE]
  /\ expired = [j \in Jobs |-> FALSE]
  /\ arrivals = <<>>
  /\ cancelling = {}
  /\ pc = [w \in Workers |-> "down"]
  /\ held = [w \in Workers |-> NoJob]
  /\ captured = [w \in Workers |-> 0]
  /\ seen = [w \in Workers |-> "new"]
  /\ late = [w \in Workers |-> FALSE]
  /\ mishaps = 0
  /\ manualRetries = 0
  /\ runs = [j \in Jobs |-> 0]
  /\ overrun = {}

-----------------------------------------------------------------------------
(* Producers and the passage of time.                                      *)

\* JobService.enqueue: the row is committed as pending, with or without a future run_at.
Enqueue(j, immediately) ==
  /\ status[j] = "new"
  /\ status' = [status EXCEPT ![j] = "pending"]
  /\ due' = [due EXCEPT ![j] = immediately]
  /\ arrivals' = Append(arrivals, j)
  /\ UNCHANGED <<dialect, attempt, expired, cancelling, workerVars, mishaps, manualRetries, historyVars>>

\* run_at comes.
RunAtReached(j) ==
  /\ ~due[j]
  /\ due' = [due EXCEPT ![j] = TRUE]
  /\ UNCHANGED <<dialect, status, attempt, expired, arrivals, cancelling, workerVars, mishaps,
                 manualRetries, historyVars>>

\* job_execution_timeout has passed since the last claim of j, hence since every claim of it.
TimeoutElapses(j) ==
  /\ \/ status[j] = "running" /\ ~expired[j]
     \/ \E w \in Workers : Holds(w, j) /\ ~late[w]
  /\ expired' = [expired EXCEPT ![j] = (status[j] = "running")]
  /\ late' = [w \in Workers |-> late[w] \/ Holds(w, j)]
  /\ UNCHANGED <<dialect, status, attempt, due, arrivals, cancelling, pc, held, captured, seen,
                 mishaps, manualRetries, historyVars>>

-----------------------------------------------------------------------------
(* One tick of a worker.                                                   *)

\* Faulty variant: it overlooks the retrying rows.
ClaimablePending(j) == status[j] = "pending" /\ due[j]

Claimable(j) == status[j] \in {"pending", "retrying"} /\ due[j]

Older(j, k) ==
  \E m, n \in DOMAIN arrivals : m < n /\ arrivals[m] = j /\ arrivals[n] = k

\* ORDER BY priority, created_at LIMIT 1 over the claimable rows of the worker's queues.
NextFor(w, j) ==
  /\ j \in Serves[w]
  /\ Claimable(j)
  /\ \A k \in Serves[w] \ {j} :
        Claimable(k) => \/ Priority[j] < Priority[k]
                        \/ Priority[j] = Priority[k] /\ Older(j, k)

\* The row becomes running with a fresh started_at, and w keeps what it read of it.
Claim(w, j, attemptRead) ==
  /\ status' = [status EXCEPT ![j] = "running"]
  /\ expired' = [expired EXCEPT ![j] = FALSE]
  /\ pc' = [pc EXCEPT ![w] = "executing"]
  /\ held' = [held EXCEPT ![w] = j]
  /\ captured' = [captured EXCEPT ![w] = attemptRead]
  /\ late' = [late EXCEPT ![w] = FALSE]
  /\ runs' = [runs EXCEPT ![j] = @ + 1]
  /\ UNCHANGED <<dialect, attempt, due, arrivals, cancelling, mishaps, manualRetries, overrun>>

\* PostgreSQL: SELECT ... FOR UPDATE SKIP LOCKED and the UPDATE are one transaction.
PickLocked(w, j) ==
  /\ dialect = "postgresql"
  /\ pc[w] = "idle"
  /\ NextFor(w, j)
  /\ Claim(w, j, attempt[j])
  /\ UNCHANGED seen

\* SQLite, first half: the SELECT, which takes no lock.
Select(w, j) ==
  /\ dialect = "sqlite"
  /\ pc[w] = "idle"
  /\ NextFor(w, j)
  /\ pc' = [pc EXCEPT ![w] = "selected"]
  /\ held' = [held EXCEPT ![w] = j]
  /\ captured' = [captured EXCEPT ![w] = attempt[j]]
  /\ seen' = [seen EXCEPT ![w] = status[j]]
  /\ UNCHANGED <<rowVars, cancelling, late, mishaps, manualRetries, historyVars>>

\* Faulty variant: the UPDATE selects the row by id alone.
ClaimSelectedById(w) ==
  /\ pc[w] = "selected"
  /\ Claim(w, held[w], captured[w])
  /\ UNCHANGED seen

\* SQLite, second half: the UPDATE ... WHERE status = <the status read>.
ClaimSelected(w) ==
  /\ pc[w] = "selected"
  /\ status[held[w]] = seen[w]
  /\ Claim(w, held[w], captured[w])
  /\ UNCHANGED seen

GoIdle(w) ==
  /\ pc' = [pc EXCEPT ![w] = "idle"]
  /\ held' = [held EXCEPT ![w] = NoJob]
  /\ UNCHANGED <<captured, seen, late>>

\* SQLite: rowcount = 0, another worker was first.
ClaimMissed(w) ==
  /\ pc[w] = "selected"
  /\ status[held[w]] # seen[w]
  /\ GoIdle(w)
  /\ UNCHANGED <<rowVars, cancelling, mishaps, manualRetries, historyVars>>

HandlerEnds(w, outcome) ==
  /\ pc[w] = "executing"
  /\ pc' = [pc EXCEPT ![w] = outcome]
  /\ UNCHANGED <<rowVars, cancelling, held, captured, seen, late, mishaps, manualRetries,
                 historyVars>>

\* The handler returns in time, or so soon after the deadline that wait_for lets it.
HandlerReturns(w) == HandlerEnds(w, "succeeded")

\* The handler raises, or no handler has the job's name.
HandlerRaises(w) == HandlerEnds(w, "failing")

\* asyncio.wait_for raises TimeoutError.
HandlerTimesOut(w) == late[w] /\ HandlerEnds(w, "failing")

\* mark_completed, by id and whatever the row has become since.
MarkCompleted(w) ==
  LET j == held[w] IN
  /\ pc[w] = "succeeded"
  /\ status' = [status EXCEPT ![j] = IF Exists(j) THEN "completed" ELSE @]
  /\ GoIdle(w)
  /\ UNCHANGED <<dialect, attempt, due, expired, arrivals, cancelling, mishaps, manualRetries,
                 historyVars>>

\* mark_failed, by id: the new status comes from the worker's copy of attempt_number,
\* the counter is incremented in the row.
MarkFailed(j, newStatus) ==
  /\ status' = [status EXCEPT ![j] = IF Exists(j) THEN newStatus ELSE @]
  /\ attempt' = [attempt EXCEPT ![j] = IF Exists(j) THEN @ + 1 ELSE @]

\* Faulty variant: one retry too many.
FailJobOneMore(w) ==
  LET j         == held[w]
      exhausted == captured[w] + 1 > MaxRetries[j]
  IN
  /\ pc[w] = "failing"
  /\ MarkFailed(j, IF exhausted THEN "dead" ELSE "retrying")
  /\ due' = [due EXCEPT ![j] = IF Exists(j) /\ ~exhausted THEN FALSE ELSE @]
  /\ GoIdle(w)
  /\ UNCHANGED <<dialect, expired, arrivals, cancelling, mishaps, manualRetries, historyVars>>

\* _fail_job: dead once the budget is used up, else retrying after a backoff.
FailJob(w) ==
  LET j         == held[w]
      exhausted == captured[w] + 1 >= MaxRetries[j]
  IN
  /\ pc[w] = "failing"
  /\ MarkFailed(j, IF exhausted THEN "dead" ELSE "retrying")
  /\ due' = [due EXCEPT ![j] = IF Exists(j) /\ ~exhausted THEN FALSE ELSE @]
  /\ GoIdle(w)
  /\ UNCHANGED <<dialect, expired, arrivals, cancelling, mishaps, manualRetries, historyVars>>

-----------------------------------------------------------------------------
(* Failures and shutdown of a worker, and its maintenance.                 *)

WorkerStarts(w) ==
  /\ pc[w] = "down"
  /\ pc' = [pc EXCEPT ![w] = "idle"]
  /\ UNCHANGED <<rowVars, cancelling, held, captured, seen, late, mishaps, manualRetries,
                 historyVars>>

Mishap ==
  /\ mishaps < MaxMishaps
  /\ mishaps' = mishaps + 1
  /\ UNCHANGED <<rowVars, cancelling, manualRetries, historyVars>>

\* The process dies, or stop() cancels the task outside the handler: an open
\* transaction is rolled back and the row stays as it is.
WorkerDies(w) ==
  /\ pc[w] # "down"
  /\ Mishap
  /\ pc' = [pc EXCEPT ![w] = "down"]
  /\ held' = [held EXCEPT ![w] = NoJob]
  /\ UNCHANGED <<captured, seen, late>>

\* stop() cancels the task while the handler runs.
WorkerStops(w) ==
  /\ pc[w] = "executing"
  /\ Mishap
  /\ pc' = [pc EXCEPT ![w] = "cancelled"]
  /\ UNCHANGED <<held, captured, seen, late>>

\* The except CancelledError branch: the job goes back to pending, run_at is kept.
MarkCancelled(w) ==
  /\ pc[w] = "cancelled"
  /\ MarkFailed(held[w], "pending")
  /\ pc' = [pc EXCEPT ![w] = "down"]
  /\ held' = [held EXCEPT ![w] = NoJob]
  /\ UNCHANGED <<dialect, due, expired, arrivals, cancelling, captured, seen, late, mishaps,
                 manualRetries, historyVars>>

\* The transaction that records the outcome fails; _loop logs the error and goes on.
OutcomeLost(w) ==
  /\ pc[w] \in {"succeeded", "failing"}
  /\ Mishap
  /\ GoIdle(w)

\* Faulty variant: the age of started_at is tested, the status is not.
ResetStaleByAge(w) ==
  LET stale == {j \in Jobs : Exists(j) /\ expired[j]} IN
  /\ pc[w] = "idle"
  /\ stale # {}
  /\ status' = [j \in Jobs |-> IF j \in stale THEN "pending" ELSE status[j]]
  /\ expired' = [j \in Jobs |-> IF j \in stale THEN FALSE ELSE expired[j]]
  /\ overrun' = overrun \cup {j \in stale : \E v \in Workers : Holds(v, j)}
  /\ UNCHANGED <<dialect, attempt, due, arrivals, cancelling, workerVars, mishaps, manualRetries, runs>>

\* reset_stale_jobs: every running row whose started_at is too old.
ResetStale(w) ==
  LET stale == {j \in Jobs : status[j] = "running" /\ expired[j]} IN
  /\ pc[w] = "idle"
  /\ stale # {}
  /\ status' = [j \in Jobs |-> IF j \in stale THEN "pending" ELSE status[j]]
  /\ expired' = [j \in Jobs |-> IF j \in stale THEN FALSE ELSE expired[j]]
  /\ overrun' = overrun \cup {j \in stale : \E v \in Workers : Holds(v, j)}
  /\ UNCHANGED <<dialect, attempt, due, arrivals, cancelling, workerVars, mishaps, manualRetries, runs>>

\* delete_completed_before: those completed rows that are old enough.
CleanupOldJobs(w, old) ==
  /\ pc[w] = "idle"
  /\ old # {}
  /\ \A j \in old : status[j] = "completed"
  /\ status' = [j \in Jobs |-> IF j \in old THEN "deleted" ELSE status[j]]
  /\ UNCHANGED <<dialect, attempt, due, expired, arrivals, cancelling, workerVars, mishaps,
                 manualRetries, historyVars>>

-----------------------------------------------------------------------------
(* The superadmin endpoints.                                               *)

\* Faulty variant: the UPDATE of retry_job does not repeat the status test.
ManualRetryByStaleRead(j) ==
  /\ Exists(j)
  /\ manualRetries < MaxManualRetries
  /\ manualRetries' = manualRetries + 1
  /\ status' = [status EXCEPT ![j] = "pending"]
  /\ due' = [due EXCEPT ![j] = TRUE]
  /\ attempt' = [attempt EXCEPT ![j] = 0]
  /\ runs' = [runs EXCEPT ![j] = 0]
  /\ UNCHANGED <<dialect, expired, arrivals, cancelling, workerVars, mishaps, overrun>>

\* POST /jobs/{id}/retry: the UPDATE repeats the status test, so it is one step.
ManualRetry(j) ==
  /\ status[j] \in {"dead", "failed"}
  /\ manualRetries < MaxManualRetries
  /\ manualRetries' = manualRetries + 1
  /\ status' = [status EXCEPT ![j] = "pending"]
  /\ due' = [due EXCEPT ![j] = TRUE]
  /\ attempt' = [attempt EXCEPT ![j] = 0]
  /\ runs' = [runs EXCEPT ![j] = 0]
  /\ UNCHANGED <<dialect, expired, arrivals, cancelling, workerVars, mishaps, overrun>>

\* DELETE /jobs/{id}, first half: the status test on an unlocked read.
CancelChecks(j) ==
  /\ status[j] = "pending"
  /\ j \notin cancelling
  /\ cancelling' = cancelling \cup {j}
  /\ UNCHANGED <<rowVars, workerVars, mishaps, manualRetries, historyVars>>

\* DELETE /jobs/{id}, second half: the row is deleted by id.
CancelDeletes(j) ==
  /\ j \in cancelling
  /\ cancelling' = cancelling \ {j}
  /\ status' = [status EXCEPT ![j] = "deleted"]
  /\ UNCHANGED <<dialect, attempt, due, expired, arrivals, workerVars, mishaps, manualRetries,
                 historyVars>>

-----------------------------------------------------------------------------
WorkerStep(w) ==
  \/ \E j \in Jobs : PickLocked(w, j) \/ Select(w, j)
  \/ ClaimSelected(w) \/ ClaimMissed(w)
  \/ HandlerReturns(w) \/ HandlerRaises(w) \/ HandlerTimesOut(w)
  \/ MarkCompleted(w) \/ FailJob(w) \/ MarkCancelled(w)
  \/ WorkerStarts(w)

JobStep(j) ==
  \/ \E immediately \in BOOLEAN : Enqueue(j, immediately)
  \/ RunAtReached(j) \/ TimeoutElapses(j)
  \/ ManualRetry(j) \/ CancelChecks(j) \/ CancelDeletes(j)

Next ==
  \/ \E j \in Jobs : JobStep(j)
  \/ \E w \in Workers :
        \/ WorkerStep(w)
        \/ WorkerDies(w) \/ WorkerStops(w) \/ OutcomeLost(w)
        \/ ResetStale(w)
        \/ \E old \in SUBSET Jobs : CleanupOldJobs(w, old)

Spec == Init /\ [][Next]_vars

(***************************************************************************)
(* Fairness.  Time passes; a started worker keeps ticking (the loop of     *)
(* _loop) and is restarted by its supervisor; a handler ends because       *)
(* wait_for bounds it; every 60th tick resets stale rows.  Nothing is      *)
(* assumed of crashes, of the endpoints or of the retention cleanup.       *)
(***************************************************************************)
Fairness ==
  /\ \A j \in Jobs : WF_vars(RunAtReached(j)) /\ WF_vars(TimeoutElapses(j))
  /\ \A w \in Workers : WF_vars(WorkerStep(w)) /\ SF_vars(ResetStale(w))

FairSpec == Spec /\ Fairness

-----------------------------------------------------------------------------
(* Properties.                                                             *)

\* As long as a job was never reset under a live worker, at most one worker is on it:
\* the claim of pick_next_job is exclusive through failures, shutdowns and retries.
\* (Of a job that was, section 6 of the README says what can happen.)
ExclusiveClaim ==
  \A j \in Jobs \ overrun : \A v, w \in Workers : Holds(v, j) /\ Holds(w, j) => v = w

\* Such a worker's job is still running, or was deleted by a cancel request; so
\* mark_completed and mark_failed, which test nothing, overwrite no other outcome.
HolderOwnsRow ==
  \A j \in Jobs \ overrun : \A w \in Workers :
    Holds(w, j) => status[j] \in {"running", "deleted"}

\* On PostgreSQL the attempt_number a worker computes the outcome from is the row's.
CapturedIsCurrent ==
  dialect = "postgresql" =>
    \A j \in Jobs \ overrun : \A w \in Workers :
      Holds(w, j) /\ Exists(j) => captured[w] = attempt[j]

Larger(a, b) == IF a >= b THEN a ELSE b

\* A job is not executed more often than max_retries allows, but for one execution per
\* crash, shutdown or lost write.
RunBudget ==
  dialect = "postgresql" =>
    \A j \in Jobs \ overrun : runs[j] <= Larger(MaxRetries[j], 1) + mishaps

\* A job is declared dead only when its attempts are used up.
DeadOnlyWhenExhausted ==
  dialect = "postgresql" =>
    \A j \in Jobs \ overrun : status[j] = "dead" => attempt[j] >= MaxRetries[j]

\* A worker on job j reports its outcome after a stale reset has broken the lease of j:
\* mark_completed and mark_failed do not see that somebody else may have finished it.
ReportsOnBrokenLease(j) == j \in overrun /\ \E w \in Workers : Holds(w, j) /\ held'[w] = NoJob

\* What brings a finished job back, the jobs that overran their deadline included: the retry
\* endpoint (a dead one, with its attempts reset), or the late report of a worker on a job
\* whose lease a stale reset had broken (section 6 of the README).  No claim, reset,
\* shutdown or request does, and no report of a worker whose lease was kept.
FinishedIsFinal ==
  [][\A j \in Jobs :
       status[j] \in {"completed", "dead"} =>
         \/ status'[j] \in {status[j], "deleted"}
         \/ status[j] = "dead" /\ status'[j] = "pending" /\ attempt'[j] = 0
         \/ ReportsOnBrokenLease(j)]_vars

\* Every enqueued job ends: some worker completes it, declares it dead, or a request
\* deletes it, also when workers crash and handlers outlive their deadline.
EveryJobEnds ==
  \A j \in Jobs :
    status[j] \in {"pending", "running", "retrying"}
      ~> status[j] \in {"completed", "dead", "deleted"}

-----------------------------------------------------------------------------
(* Inductive invariants: what the properties above need to follow.         *)

\* A selected job was claimable when it was read, and only SQLite reads before it
\* claims; a job that was never enqueued has left no trace.
ClaimInv ==
  /\ \A w \in Workers :
        pc[w] = "selected" => dialect = "sqlite" /\ seen[w] \in {"pending", "retrying"}
  /\ \A j \in Jobs : status[j] = "new" => j \notin cancelling /\ \A w \in Workers : held[w] # j
  /\ ExclusiveClaim
  /\ HolderOwnsRow

\* Job j waits for a claim, or for reset_stale_jobs to let it wait for one.
Unclaimed(j) ==
  \/ status[j] \in {"pending", "retrying"}
  \/ status[j] = "running" /\ \A w \in Workers : ~Holds(w, j)

\* The shutdown of j's worker has been counted, its outcome is not yet recorded.
Cancelled(j) == \E w \in Workers : held[w] = j /\ pc[w] = "cancelled"

\* Each execution is paid for by the attempt counter or by a mishap.
BudgetInv ==
  dialect = "postgresql" =>
    /\ CapturedIsCurrent
    /\ \A j \in Jobs : status[j] = "new" => runs[j] = 0
    /\ \A j \in Jobs \ overrun :
          /\ status[j] = "dead" => attempt[j] >= MaxRetries[j]
          /\ runs[j] <= Larger(MaxRetries[j], 1) + mishaps
          /\ status[j] = "running" => runs[j] <= attempt[j] + 1 + mishaps
          /\ Unclaimed(j) => runs[j] <= attempt[j] + mishaps
          /\ Unclaimed(j) \/ Cancelled(j) => runs[j] < Larger(MaxRetries[j], 1) + mishaps

-----------------------------------------------------------------------------
(* Refinement: the queue implements the lease protocol its handlers see.   *)

PhaseOf(s) ==
  CASE s = "new" -> "none"
    [] s \in {"pending", "retrying"} -> "queued"
    [] s = "running" -> "leased"
    [] s = "completed" -> "done"
    [] s \in {"dead", "failed"} -> "dead"
    [] s = "deleted" -> "gone"

phaseBar   == [j \in Jobs |-> PhaseOf(status[j])]
runnersBar == [j \in Jobs |-> {w \in Workers : Holds(w, j)}]

Lease == INSTANCE JobLease WITH phase <- phaseBar, runners <- runnersBar, broken <- overrun

\* Every step of the queue is a step of the lease protocol or invisible to it.
ImplementsLease == Lease!LeaseSpec
=============================================================================
