----------------------------- MODULE MCJobQueue -----------------------------
(***************************************************************************)
(* Instances of JobQueue.  On PostgreSQL one job, with crashes, shutdowns, *)
(* lost writes and a manual retry; on SQLite, where SELECT and UPDATE are  *)
(* separate, two jobs of different priority without mishaps.               *)
(***************************************************************************)
EXTENDS JobQueue, TLC

CONSTANTS j1, j2, j3, w1, w2

MCPriority   == (j1 :> 0) @@ [j \in Jobs |-> 5]
MCMaxRetries == (j3 :> 2) @@ [j \in Jobs |-> 1]
\* w2 is `snackbase worker --queue ...` for the queue of j1 and j3 only.
MCServes     == [w \in Workers |-> IF w = w2 THEN Jobs \ {j2} ELSE Jobs]

Mishaps == \E w \in Workers : WorkerDies(w) \/ WorkerStops(w) \/ OutcomeLost(w)

MCNext ==
  \/ \E j \in Jobs, immediately \in BOOLEAN :
        (j = j3 <=> dialect = "postgresql") /\ Enqueue(j, immediately)
  \/ \E j \in Jobs : RunAtReached(j) \/ TimeoutElapses(j) \/ CancelChecks(j) \/ CancelDeletes(j)
  \/ \E w \in Workers : WorkerStep(w) \/ ResetStale(w)
  \/ \E w \in Workers, old \in SUBSET Jobs : CleanupOldJobs(w, old)
  \/ dialect = "postgresql" /\ (Mishaps \/ \E j \in Jobs : ManualRetry(j))

MCSpec == Init /\ [][MCNext]_vars /\ Fairness
=============================================================================
