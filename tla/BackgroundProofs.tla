-------------------------- MODULE BackgroundProofs --------------------------
(***************************************************************************)
(* Proofs about the work in the background.                                *)
(*                                                                         *)
(* JobQueue, for any sets of jobs and workers, any priorities, queues and  *)
(* retry budgets, and any number of mishaps.                               *)
(*                                                                         *)
(* Scheduler, for any crons, hooks and schedulers: when an enabled         *)
(* schedule hook keeps a next run, and when no minute fires twice.         *)
(***************************************************************************)
EXTENDS JobQueue, Scheduler, WellFoundedInduction, TLAPS

-----------------------------------------------------------------------------
(* The job queue.                                                           *)

USE JobQueueAssumption

\* The type invariant is inductive by itself.
THEOREM TypeCorrect == Spec => []TypeOK
<1>1. Init => TypeOK
  BY DEF Init, TypeOK, Status, PC
<1>2. TypeOK /\ [Next]_vars => TypeOK'
  <2>. SUFFICES ASSUME TypeOK, [Next]_vars PROVE TypeOK'
    OBVIOUS
  <2>. USE DEF TypeOK, Status, PC, rowVars, workerVars, historyVars, Exists, Holds
  <2>1. ASSUME NEW j \in Jobs, NEW b \in BOOLEAN, Enqueue(j, b) PROVE TypeOK'
    BY <2>1 DEF Enqueue
  <2>2. ASSUME NEW j \in Jobs, RunAtReached(j) PROVE TypeOK'
    BY <2>2 DEF RunAtReached
  <2>3. ASSUME NEW j \in Jobs, TimeoutElapses(j) PROVE TypeOK'
    BY <2>3 DEF TimeoutElapses
  <2>4. ASSUME NEW j \in Jobs, ManualRetry(j) PROVE TypeOK'
    <3>1. manualRetries' \in 0..MaxManualRetries
      BY <2>4 DEF ManualRetry
    <3>2. /\ attempt' \in [Jobs -> Nat]
          /\ runs' \in [Jobs -> Nat]
      BY <2>4 DEF ManualRetry
    <3>. QED
      BY <2>4, <3>1, <3>2 DEF ManualRetry
  <2>5. ASSUME NEW j \in Jobs, CancelChecks(j) \/ CancelDeletes(j) PROVE TypeOK'
    BY <2>5, ZenonT(60) DEF CancelChecks, CancelDeletes
  <2>6. ASSUME NEW w \in Workers, NEW j \in Jobs, PickLocked(w, j) PROVE TypeOK'
    <3>1. runs' \in [Jobs -> Nat]
      BY <2>6 DEF PickLocked, Claim
    <3>2. \A v \in Workers : held'[v] = NoJob <=> pc'[v] \in {"down", "idle"}
      BY <2>6 DEF PickLocked, Claim
    <3>. QED
      BY <2>6, <3>1, <3>2 DEF PickLocked, Claim
  <2>7. ASSUME NEW w \in Workers, NEW j \in Jobs, Select(w, j) PROVE TypeOK'
    BY <2>7 DEF Select
  <2>8. ASSUME NEW w \in Workers, ClaimSelected(w) PROVE TypeOK'
    <3>1. held[w] \in Jobs
      BY <2>8 DEF ClaimSelected
    <3>2. runs' \in [Jobs -> Nat]
      BY <2>8, <3>1 DEF ClaimSelected, Claim
    <3>3. \A v \in Workers : held'[v] = NoJob <=> pc'[v] \in {"down", "idle"}
      BY <2>8, <3>1 DEF ClaimSelected, Claim
    <3>. QED
      BY <2>8, <3>1, <3>2, <3>3 DEF ClaimSelected, Claim
  <2>9. ASSUME NEW w \in Workers, ClaimMissed(w) PROVE TypeOK'
    BY <2>9 DEF ClaimMissed, GoIdle
  <2>10. ASSUME NEW w \in Workers,
                HandlerReturns(w) \/ HandlerRaises(w) \/ HandlerTimesOut(w)
         PROVE TypeOK'
    BY <2>10, ZenonT(60) DEF HandlerReturns, HandlerRaises, HandlerTimesOut, HandlerEnds
  <2>11. ASSUME NEW w \in Workers, MarkCompleted(w) PROVE TypeOK'
    BY <2>11 DEF MarkCompleted, GoIdle
  <2>12. ASSUME NEW w \in Workers, FailJob(w) PROVE TypeOK'
    <3>1. held[w] \in Jobs
      BY <2>12 DEF FailJob
    <3>2. attempt' \in [Jobs -> Nat]
      BY <2>12, <3>1 DEF FailJob, MarkFailed
    <3>3. /\ status' \in [Jobs -> Status]
          /\ due' \in [Jobs -> BOOLEAN]
      BY <2>12, <3>1 DEF FailJob, MarkFailed
    <3>4. \A v \in Workers : held'[v] = NoJob <=> pc'[v] \in {"down", "idle"}
      BY <2>12 DEF FailJob, GoIdle
    <3>. QED
      BY <2>12, <3>2, <3>3, <3>4 DEF FailJob, GoIdle
  <2>13. ASSUME NEW w \in Workers, MarkCancelled(w) PROVE TypeOK'
    <3>1. held[w] \in Jobs
      BY <2>13 DEF MarkCancelled
    <3>2. attempt' \in [Jobs -> Nat]
      BY <2>13, <3>1 DEF MarkCancelled, MarkFailed
    <3>3. status' \in [Jobs -> Status]
      BY <2>13, <3>1 DEF MarkCancelled, MarkFailed
    <3>. QED
      BY <2>13, <3>2, <3>3 DEF MarkCancelled
  <2>14. ASSUME NEW w \in Workers, WorkerStarts(w) PROVE TypeOK'
    BY <2>14 DEF WorkerStarts
  <2>15. ASSUME NEW w \in Workers, WorkerDies(w) \/ WorkerStops(w) \/ OutcomeLost(w)
         PROVE TypeOK'
    <3>1. mishaps' \in 0..MaxMishaps
      BY <2>15 DEF WorkerDies, WorkerStops, OutcomeLost, Mishap
    <3>. QED
      BY <2>15, <3>1, ZenonT(60) DEF WorkerDies, WorkerStops, OutcomeLost, Mishap, GoIdle
  <2>16. ASSUME NEW w \in Workers, ResetStale(w) PROVE TypeOK'
    BY <2>16 DEF ResetStale
  <2>17. ASSUME NEW w \in Workers, NEW old \in SUBSET Jobs, CleanupOldJobs(w, old)
         PROVE TypeOK'
    BY <2>17 DEF CleanupOldJobs
  <2>18. CASE UNCHANGED vars
    BY <2>18 DEF vars
  <2>. HIDE DEF TypeOK, Status, PC, rowVars, workerVars, historyVars, Exists, Holds
  <2>. QED
    BY <2>1, <2>2, <2>3, <2>4, <2>5, <2>6, <2>7, <2>8, <2>9, <2>10, <2>11, <2>12,
       <2>13, <2>14, <2>15, <2>16, <2>17, <2>18 DEF Next, JobStep, WorkerStep
<1>. QED
  BY <1>1, <1>2, PTL DEF Spec

\* A deployment stays on its database.
LEMMA DialectStays == [Next]_vars => dialect' = dialect
<1>. SUFFICES ASSUME [Next]_vars PROVE dialect' = dialect
  OBVIOUS
<1>. USE DEF rowVars
<1>1. ASSUME NEW j \in Jobs, JobStep(j) PROVE dialect' = dialect
  BY <1>1 DEF JobStep, Enqueue, RunAtReached, TimeoutElapses, ManualRetry, CancelChecks,
              CancelDeletes
<1>2. ASSUME NEW w \in Workers, WorkerStep(w) PROVE dialect' = dialect
  BY <1>2 DEF WorkerStep, PickLocked, Select, Claim, ClaimSelected, ClaimMissed,
              HandlerReturns, HandlerRaises, HandlerTimesOut, HandlerEnds, MarkCompleted,
              FailJob, MarkCancelled, WorkerStarts
<1>3. ASSUME NEW w \in Workers, WorkerDies(w) \/ WorkerStops(w) \/ OutcomeLost(w)
      PROVE dialect' = dialect
  BY <1>3 DEF WorkerDies, WorkerStops, OutcomeLost, Mishap
<1>4. ASSUME NEW w \in Workers, ResetStale(w) PROVE dialect' = dialect
  BY <1>4 DEF ResetStale
<1>5. ASSUME NEW w \in Workers, NEW old \in SUBSET Jobs, CleanupOldJobs(w, old)
      PROVE dialect' = dialect
  BY <1>5 DEF CleanupOldJobs
<1>6. CASE UNCHANGED vars
  BY <1>6 DEF vars
<1>. QED
  BY <1>1, <1>2, <1>3, <1>4, <1>5, <1>6 DEF Next

-----------------------------------------------------------------------------
(* Exclusive claims.  TypeOK and ClaimInv together are inductive.           *)

\* Nothing is claimed at first.
LEMMA InitClaimInv == Init => ClaimInv
BY DEF Init, ClaimInv, ExclusiveClaim, HolderOwnsRow, Holds

\* Claiming a job nobody holds makes the claiming worker its only holder.
LEMMA ClaimKeepsClaimInv ==
  ASSUME TypeOK, ClaimInv, NEW w \in Workers, NEW j \in Jobs, NEW a \in Nat,
         pc[w] \in {"idle", "selected"}, status[j] \in {"pending", "retrying"},
         Claim(w, j, a), UNCHANGED seen
  PROVE  ClaimInv'
<1>. USE DEF Claim, Holds
<1>1. \A v \in Workers \ {w} : /\ held'[v] = held[v]
                               /\ pc'[v] = pc[v]
                               /\ \A k \in Jobs : Holds(v, k)' <=> Holds(v, k)
  BY DEF TypeOK
<1>2. held'[w] = j /\ pc'[w] = "executing"
  BY DEF TypeOK
<1>3. \A k \in Jobs \ {j} : status'[k] = status[k] /\ ~Holds(w, k)'
  BY <1>2 DEF TypeOK
<1>4. status'[j] = "running"
  BY DEF TypeOK
<1>5. j \notin overrun => \A v \in Workers : ~Holds(v, j)
  BY DEF ClaimInv, HolderOwnsRow
<1>6. ExclusiveClaim'
  BY <1>1, <1>3, <1>5 DEF ClaimInv, ExclusiveClaim
<1>7. HolderOwnsRow'
  BY <1>1, <1>2, <1>3, <1>4 DEF ClaimInv, HolderOwnsRow
<1>8. \A v \in Workers :
        pc'[v] = "selected" => dialect = "sqlite" /\ seen'[v] \in {"pending", "retrying"}
  BY <1>1, <1>2 DEF ClaimInv
<1>9. \A k \in Jobs : status'[k] = "new" =>
                        k \notin cancelling' /\ \A v \in Workers : held'[v] # k
  BY <1>1, <1>2, <1>3, <1>4 DEF ClaimInv
<1>. QED
  BY <1>6, <1>7, <1>8, <1>9 DEF ClaimInv

\* Every step keeps the claims exclusive; one step of the proof per action.
LEMMA NextClaimInv == TypeOK /\ ClaimInv /\ [Next]_vars => ClaimInv'
<1>. SUFFICES ASSUME TypeOK, ClaimInv, [Next]_vars PROVE ClaimInv'
  OBVIOUS
<1>. USE DEF TypeOK, ClaimInv, ExclusiveClaim, HolderOwnsRow, Holds, Exists,
             rowVars, workerVars, historyVars
<1>1. ASSUME NEW j \in Jobs, NEW b \in BOOLEAN, Enqueue(j, b) PROVE ClaimInv'
  BY <1>1 DEF Enqueue
<1>2. ASSUME NEW j \in Jobs, RunAtReached(j) \/ TimeoutElapses(j) PROVE ClaimInv'
  BY <1>2, SMTT(60) DEF RunAtReached, TimeoutElapses
<1>4. ASSUME NEW j \in Jobs, ManualRetry(j) PROVE ClaimInv'
  BY <1>4 DEF ManualRetry
<1>5. ASSUME NEW j \in Jobs, CancelChecks(j) \/ CancelDeletes(j) PROVE ClaimInv'
  <2>1. CASE CancelChecks(j)
    BY <2>1 DEF CancelChecks
  <2>2. CASE CancelDeletes(j)
    BY <2>2 DEF CancelDeletes
  <2>. QED
    BY <1>5, <2>1, <2>2
<1>6. ASSUME NEW w \in Workers, NEW j \in Jobs, PickLocked(w, j) PROVE ClaimInv'
  <2>1. /\ pc[w] = "idle"
        /\ status[j] \in {"pending", "retrying"}
        /\ Claim(w, j, attempt[j])
        /\ UNCHANGED seen
    BY <1>6 DEF PickLocked, NextFor, Claimable
  <2>2. attempt[j] \in Nat
    BY DEF TypeOK
  <2>. QED
    BY <2>1, <2>2, ClaimKeepsClaimInv
<1>7. ASSUME NEW w \in Workers, NEW j \in Jobs, Select(w, j) PROVE ClaimInv'
  BY <1>7 DEF Select, NextFor, Claimable
<1>8. ASSUME NEW w \in Workers, ClaimSelected(w) PROVE ClaimInv'
  <2>1. /\ pc[w] = "selected"
        /\ status[held[w]] = seen[w]
        /\ Claim(w, held[w], captured[w])
        /\ UNCHANGED seen
    BY <1>8 DEF ClaimSelected
  <2>2. held[w] \in Jobs /\ captured[w] \in Nat
    BY <2>1 DEF TypeOK
  <2>3. status[held[w]] \in {"pending", "retrying"}
    BY <2>1 DEF ClaimInv
  <2>. QED
    BY <2>1, <2>2, <2>3, ClaimKeepsClaimInv
<1>9. ASSUME NEW w \in Workers, ClaimMissed(w) PROVE ClaimInv'
  BY <1>9 DEF ClaimMissed, GoIdle
<1>10. ASSUME NEW w \in Workers,
              HandlerReturns(w) \/ HandlerRaises(w) \/ HandlerTimesOut(w)
       PROVE ClaimInv'
  <2>1. PICK o \in {"succeeded", "failing"} : HandlerEnds(w, o)
    BY <1>10 DEF HandlerReturns, HandlerRaises, HandlerTimesOut
  <2>2. \A v \in Workers, k \in Jobs : Holds(v, k)' <=> Holds(v, k)
    BY <2>1 DEF HandlerEnds
  <2>. QED
    BY <2>1, <2>2 DEF HandlerEnds
<1>11. ASSUME NEW w \in Workers, MarkCompleted(w) PROVE ClaimInv'
  BY <1>11 DEF MarkCompleted, GoIdle
<1>12. ASSUME NEW w \in Workers, FailJob(w) PROVE ClaimInv'
  BY <1>12 DEF FailJob, MarkFailed, GoIdle
<1>13. ASSUME NEW w \in Workers, MarkCancelled(w) PROVE ClaimInv'
  BY <1>13 DEF MarkCancelled, MarkFailed
<1>14. ASSUME NEW w \in Workers, WorkerStarts(w) PROVE ClaimInv'
  BY <1>14 DEF WorkerStarts
<1>15. ASSUME NEW w \in Workers, WorkerDies(w) \/ WorkerStops(w) \/ OutcomeLost(w)
       PROVE ClaimInv'
  <2>1. \A v \in Workers, k \in Jobs : Holds(v, k)' => Holds(v, k)
    BY <1>15, ZenonT(60) DEF WorkerDies, WorkerStops, OutcomeLost, Mishap, GoIdle
  <2>2. /\ \A v \in Workers : pc'[v] = "selected" => pc[v] = "selected"
        /\ \A v \in Workers : held'[v] \in {held[v], NoJob}
        /\ UNCHANGED <<dialect, status, cancelling, seen, overrun>>
    BY <1>15 DEF WorkerDies, WorkerStops, OutcomeLost, Mishap, GoIdle
  <2>. HIDE DEF Holds
  <2>3. \A v \in Workers :
          pc'[v] = "selected" => dialect' = "sqlite" /\ seen'[v] \in {"pending", "retrying"}
    BY <2>2
  <2>4. \A k \in Jobs : status'[k] = "new" =>
                          k \notin cancelling' /\ \A v \in Workers : held'[v] # k
    BY <2>2
  <2>5. ExclusiveClaim' /\ HolderOwnsRow'
    BY <2>1, <2>2
  <2>. QED
    BY <2>3, <2>4, <2>5
<1>16. ASSUME NEW w \in Workers, ResetStale(w) PROVE ClaimInv'
  BY <1>16 DEF ResetStale
<1>17. ASSUME NEW w \in Workers, NEW old \in SUBSET Jobs, CleanupOldJobs(w, old)
       PROVE ClaimInv'
  BY <1>17 DEF CleanupOldJobs
<1>18. CASE UNCHANGED vars
  BY <1>18 DEF vars
<1>. HIDE DEF TypeOK, ClaimInv, ExclusiveClaim, HolderOwnsRow, Holds, Exists,
              rowVars, workerVars, historyVars
<1>. QED
  BY <1>1, <1>2, <1>4, <1>5, <1>6, <1>7, <1>8, <1>9, <1>10, <1>11, <1>12,
     <1>13, <1>14, <1>15, <1>16, <1>17, <1>18 DEF Next, JobStep, WorkerStep

\* ClaimInv is an invariant.
LEMMA ClaimInvHolds == Spec => []ClaimInv
BY InitClaimInv, NextClaimInv, TypeCorrect, PTL DEF Spec

\* At most one worker is on a job, for any number of workers and any interleaving.
THEOREM ExclusiveClaimHolds == Spec => []ExclusiveClaim
<1>1. ClaimInv => ExclusiveClaim
  BY DEF ClaimInv
<1>. QED
  BY <1>1, ClaimInvHolds, PTL

\* The unconditional writes of the outcome find the row as the claim left it.
THEOREM HolderOwnsRowHolds == Spec => []HolderOwnsRow
<1>1. ClaimInv => HolderOwnsRow
  BY DEF ClaimInv
<1>. QED
  BY <1>1, ClaimInvHolds, PTL

\* Nothing but retention, cancellation, the retry endpoint of a dead job, and the late report on
\* a job whose lease a stale reset has broken, changes a completed or dead job.
THEOREM FinishedIsFinalHolds == Spec => FinishedIsFinal
<1> DEFINE Final(j) ==
      status[j] \in {"completed", "dead"} =>
        \/ status'[j] \in {status[j], "deleted"}
        \/ status[j] = "dead" /\ status'[j] = "pending" /\ attempt'[j] = 0
        \/ ReportsOnBrokenLease(j)
<1>1. TypeOK /\ ClaimInv /\ [Next]_vars => [\A j \in Jobs : Final(j)]_vars
  <2>. SUFFICES ASSUME TypeOK, ClaimInv, Next, NEW j \in Jobs PROVE Final(j)
    OBVIOUS
  <2>2. \A w \in Workers :
          Holds(w, j) => j \in overrun \/ status[j] \in {"running", "deleted"}
    BY DEF ClaimInv, HolderOwnsRow
  <2>. USE DEF TypeOK, rowVars
  <2>3. ASSUME NEW k \in Jobs, JobStep(k) PROVE Final(j)
    BY <2>3 DEF JobStep, Enqueue, RunAtReached, TimeoutElapses, ManualRetry, CancelChecks,
                CancelDeletes
  <2>4. ASSUME NEW w \in Workers, NEW k \in Jobs, PickLocked(w, k) \/ Select(w, k)
        PROVE Final(j)
    BY <2>4 DEF PickLocked, Select, Claim, NextFor, Claimable
  <2>5. ASSUME NEW w \in Workers, ClaimSelected(w) PROVE Final(j)
    BY <2>5 DEF ClaimSelected, Claim, ClaimInv
  <2>6. ASSUME NEW w \in Workers, MarkCompleted(w) PROVE Final(j)
    <3>1. CASE held[w] = j
      <4>1. Holds(w, j) /\ held'[w] = NoJob
        BY <2>6, <3>1 DEF MarkCompleted, GoIdle, Holds
      <4>. QED
        BY <4>1, <2>2 DEF ReportsOnBrokenLease
    <3>2. CASE held[w] # j
      BY <2>6, <3>2 DEF MarkCompleted, GoIdle
    <3>. QED
      BY <3>1, <3>2
  <2>7. ASSUME NEW w \in Workers, FailJob(w) PROVE Final(j)
    <3>1. CASE held[w] = j
      <4>1. Holds(w, j) /\ held'[w] = NoJob
        BY <2>7, <3>1 DEF FailJob, MarkFailed, GoIdle, Holds
      <4>. QED
        BY <4>1, <2>2 DEF ReportsOnBrokenLease
    <3>2. CASE held[w] # j
      BY <2>7, <3>2 DEF FailJob, MarkFailed, GoIdle
    <3>. QED
      BY <3>1, <3>2
  <2>8. ASSUME NEW w \in Workers, MarkCancelled(w) PROVE Final(j)
    <3>1. CASE held[w] = j
      <4>1. Holds(w, j) /\ held'[w] = NoJob
        BY <2>8, <3>1 DEF MarkCancelled, MarkFailed, Holds
      <4>. QED
        BY <4>1, <2>2 DEF ReportsOnBrokenLease
    <3>2. CASE held[w] # j
      BY <2>8, <3>2 DEF MarkCancelled, MarkFailed
    <3>. QED
      BY <3>1, <3>2
  <2>9. ASSUME NEW w \in Workers,
               \/ ClaimMissed(w) \/ WorkerStarts(w)
               \/ HandlerReturns(w) \/ HandlerRaises(w) \/ HandlerTimesOut(w)
               \/ WorkerDies(w) \/ WorkerStops(w) \/ OutcomeLost(w)
        PROVE Final(j)
    BY <2>9 DEF ClaimMissed, WorkerStarts, HandlerReturns, HandlerRaises, HandlerTimesOut,
                HandlerEnds, WorkerDies, WorkerStops, OutcomeLost, Mishap
  <2>10. ASSUME NEW w \in Workers, ResetStale(w) PROVE Final(j)
    BY <2>10 DEF ResetStale
  <2>11. ASSUME NEW w \in Workers, NEW old \in SUBSET Jobs, CleanupOldJobs(w, old)
         PROVE Final(j)
    BY <2>11 DEF CleanupOldJobs
  <2>. HIDE DEF TypeOK, rowVars, Final
  <2>. QED
    BY <2>3, <2>4, <2>5, <2>6, <2>7, <2>8, <2>9, <2>10, <2>11 DEF Next, WorkerStep
<1>. QED
  BY <1>1, TypeCorrect, ClaimInvHolds, PTL DEF Spec, FinishedIsFinal

-----------------------------------------------------------------------------
(* The retry budget (PostgreSQL).  Every execution is charged to the        *)
(* attempt counter or to a mishap.                                          *)

\* Nothing has been executed at first.
LEMMA InitBudgetInv == Init => BudgetInv
BY DEF Init, BudgetInv, CapturedIsCurrent, Holds, Larger, Unclaimed, Cancelled

\* Every execution stays paid for; one step of the proof per action.
LEMMA NextBudgetInv == TypeOK /\ ClaimInv /\ BudgetInv /\ [Next]_vars => BudgetInv'
<1>. SUFFICES ASSUME TypeOK, ClaimInv, BudgetInv, [Next]_vars, dialect = "postgresql"
              PROVE  BudgetInv'
  BY DialectStays DEF BudgetInv
<1> DEFINE Most(j) == Larger(MaxRetries[j], 1)
           Paid(j) == /\ status[j] = "dead" => attempt[j] >= MaxRetries[j]
                      /\ runs[j] <= Most(j) + mishaps
                      /\ status[j] = "running" => runs[j] <= attempt[j] + 1 + mishaps
                      /\ Unclaimed(j) => runs[j] <= attempt[j] + mishaps
                      /\ Unclaimed(j) \/ Cancelled(j) => runs[j] < Most(j) + mishaps
           Fresh(w, j) == Holds(w, j) /\ Exists(j) => captured[w] = attempt[j]
<1>0. \A j \in Jobs : Most(j) \in Nat /\ Most(j) >= 1 /\ Most(j) >= MaxRetries[j]
  BY DEF Larger
<1>. HIDE DEF Max
<1>t. /\ mishaps \in Nat
      /\ \A j \in Jobs : attempt[j] \in Nat /\ runs[j] \in Nat
  BY DEF TypeOK
<1>i. /\ \A j \in Jobs \ overrun : Paid(j) /\ \A w \in Workers : Fresh(w, j)
      /\ \A j \in Jobs : status[j] = "new" => runs[j] = 0
  BY DEF BudgetInv, CapturedIsCurrent, Max
<1> DEFINE NewIsUnused == \A j \in Jobs : status[j] = "new" => runs[j] = 0
<1>n. NewIsUnused'
  <2>. USE DEF TypeOK, rowVars, historyVars
  <2>1. ASSUME NEW k \in Jobs, JobStep(k) PROVE NewIsUnused'
    BY <2>1, <1>i DEF JobStep, Enqueue, RunAtReached, TimeoutElapses, ManualRetry,
                      CancelChecks, CancelDeletes
  <2>2. ASSUME NEW w \in Workers, WorkerStep(w) PROVE NewIsUnused'
    <3>1. CASE \E k \in Jobs : PickLocked(w, k) \/ Select(w, k)
      BY <3>1, <1>i, ZenonT(60) DEF PickLocked, Select, Claim
    <3>2. CASE ClaimSelected(w) \/ ClaimMissed(w) \/ WorkerStarts(w)
      BY <3>2, <1>i DEF ClaimSelected, Claim, ClaimMissed, WorkerStarts
    <3>3. CASE HandlerReturns(w) \/ HandlerRaises(w) \/ HandlerTimesOut(w)
      BY <3>3, <1>i DEF HandlerReturns, HandlerRaises, HandlerTimesOut, HandlerEnds
    <3>4. CASE MarkCompleted(w) \/ FailJob(w) \/ MarkCancelled(w)
      BY <3>4, <1>i, ZenonT(60) DEF MarkCompleted, FailJob, MarkFailed, MarkCancelled, Exists
    <3>. QED
      BY <2>2, <3>1, <3>2, <3>3, <3>4 DEF WorkerStep
  <2>3. ASSUME NEW w \in Workers, WorkerDies(w) \/ WorkerStops(w) \/ OutcomeLost(w)
        PROVE NewIsUnused'
    BY <2>3, <1>i DEF WorkerDies, WorkerStops, OutcomeLost, Mishap
  <2>6. ASSUME NEW w \in Workers, ResetStale(w) PROVE NewIsUnused'
    BY <2>6, <1>i DEF ResetStale
  <2>4. ASSUME NEW w \in Workers, NEW old \in SUBSET Jobs, CleanupOldJobs(w, old) PROVE NewIsUnused'
    BY <2>4, <1>i DEF CleanupOldJobs
  <2>5. CASE UNCHANGED vars
    BY <2>5, <1>i DEF vars
  <2>. HIDE DEF TypeOK, rowVars, historyVars
  <2>. QED
    BY <2>1, <2>2, <2>3, <2>4, <2>5, <2>6 DEF Next
<1>. SUFFICES ASSUME NEW j \in Jobs \ overrun'
              PROVE  Paid(j)' /\ \A w \in Workers : Fresh(w, j)'
  BY <1>n DEF BudgetInv, CapturedIsCurrent, Max
<1>o. j \notin overrun
  BY ZenonT(60) DEF Next, JobStep, WorkerStep, Enqueue, RunAtReached, TimeoutElapses, ManualRetry,
         CancelChecks, CancelDeletes, PickLocked, Select, ClaimSelected, Claim, ClaimMissed,
         HandlerReturns, HandlerRaises, HandlerTimesOut, HandlerEnds, MarkCompleted, FailJob,
         MarkCancelled, WorkerStarts, WorkerDies, WorkerStops, OutcomeLost, Mishap,
         ResetStale, CleanupOldJobs, historyVars, vars
<1>h. \A v, w \in Workers : Holds(v, j) /\ Holds(w, j) => v = w
  BY <1>o DEF ClaimInv, ExclusiveClaim
<1>r. \A w \in Workers : Holds(w, j) => status[j] \in {"running", "deleted"}
  BY <1>o DEF ClaimInv, HolderOwnsRow
\* A step that leaves the row of j and its holder alone leaves the account of j alone.
<1> DEFINE Same == /\ status'[j] = status[j]
                   /\ attempt'[j] = attempt[j]
                   /\ runs'[j] = runs[j]
                   /\ \A w \in Workers : /\ Holds(w, j)' <=> Holds(w, j)
                                         /\ Holds(w, j) => captured'[w] = captured[w]
                   /\ Cancelled(j)' => Cancelled(j)
                   /\ mishaps' \in Nat
                   /\ mishaps' >= mishaps
           Good == Paid(j) /\ \A w \in Workers : Fresh(w, j)
<1>s. Same => Good'
  <2>. SUFFICES ASSUME Same PROVE Good'
    OBVIOUS
  <2>1. Unclaimed(j)' <=> Unclaimed(j)
    BY DEF Unclaimed
  <2>2. \A w \in Workers : Fresh(w, j)'
    BY <1>i, <1>o DEF Exists
  <2>3. Most(j)' = Most(j)
    BY DEF Max, Larger
  <2>4. Paid(j)'
    BY <1>i, <1>o, <1>t, <1>0, <2>1, <2>3
  <2>. QED
    BY <2>2, <2>4
<1>. USE DEF TypeOK, Holds, Cancelled, rowVars, workerVars, historyVars
<1>1. ASSUME NEW k \in Jobs, NEW b \in BOOLEAN, Enqueue(k, b) PROVE Good'
  <2>1. CASE k # j
    BY <2>1, <1>1, <1>s DEF Enqueue
  <2>2. CASE k = j
    <3>1. runs'[j] = 0 /\ attempt'[j] \in Nat /\ mishaps' = mishaps /\ status'[j] = "pending"
      BY <2>2, <1>1, <1>i DEF Enqueue
    <3>2. \A w \in Workers : ~Holds(w, j)'
      BY <2>2, <1>1 DEF Enqueue, ClaimInv
    <3>3. Most(j)' = Most(j)
      BY DEF Max, Larger
    <3>4. /\ runs'[j] <= attempt'[j] + mishaps'
          /\ runs'[j] < Most(j)' + mishaps'
          /\ runs'[j] <= Most(j)' + mishaps'
          /\ runs'[j] <= attempt'[j] + 1 + mishaps'
      <4>1. attempt'[j] \in Nat /\ mishaps' \in Nat /\ runs'[j] = 0
        BY <3>1, <1>t
      <4>2. Most(j)' \in Nat /\ Most(j)' >= 1
        BY <3>3, <1>0
      <4>. HIDE DEF TypeOK, Holds, Cancelled, rowVars, workerVars, historyVars
      <4>. QED
        BY <4>1, <4>2
    <3>5. Paid(j)'
      <4>. HIDE DEF Unclaimed, Cancelled, Holds, TypeOK
      <4>. QED
        BY <3>1, <3>4, SMTT(60)
    <3>6. \A w \in Workers : Fresh(w, j)'
      <4>. HIDE DEF Holds, TypeOK
      <4>. QED
        BY <3>2
    <3>. QED
      BY <3>5, <3>6
  <2>. QED
    BY <2>1, <2>2
<1>2. ASSUME NEW k \in Jobs, RunAtReached(k) \/ TimeoutElapses(k) \/ CancelChecks(k)
      PROVE Good'
  <2>1. Same
    BY <1>2, <1>t, SMTT(60) DEF RunAtReached, TimeoutElapses, CancelChecks
  <2>. QED
    BY <2>1, <1>s
<1>3. ASSUME NEW k \in Jobs, CancelDeletes(k) PROVE Good'
  <2>1. CASE k # j
    BY <2>1, <1>3, <1>t, <1>s DEF CancelDeletes
  <2>2. CASE k = j
    BY <2>2, <1>3, <1>i, <1>o DEF CancelDeletes, Unclaimed, Exists, Max, Larger
  <2>. QED
    BY <2>1, <2>2
<1>4. ASSUME NEW k \in Jobs, ManualRetry(k) PROVE Good'
  <2>1. CASE k # j
    BY <2>1, <1>4, <1>t, <1>s DEF ManualRetry
  <2>2. CASE k = j
    <3>1. runs'[j] = 0 /\ attempt'[j] = 0 /\ mishaps' = mishaps /\ status'[j] = "pending"
      BY <2>2, <1>4 DEF ManualRetry
    <3>2. \A w \in Workers : ~Holds(w, j)'
      BY <2>2, <1>4, <1>r DEF ManualRetry
    <3>3. Most(j)' = Most(j)
      BY DEF Max, Larger
    <3>4. /\ runs'[j] <= attempt'[j] + mishaps'
          /\ runs'[j] < Most(j)' + mishaps'
          /\ runs'[j] <= Most(j)' + mishaps'
          /\ runs'[j] <= attempt'[j] + 1 + mishaps'
      <4>1. attempt'[j] \in Nat /\ mishaps' \in Nat /\ runs'[j] = 0
        BY <3>1, <1>t
      <4>2. Most(j)' \in Nat /\ Most(j)' >= 1
        BY <3>3, <1>0
      <4>. HIDE DEF TypeOK, Holds, Cancelled, rowVars, workerVars, historyVars
      <4>. QED
        BY <4>1, <4>2
    <3>5. Paid(j)'
      <4>. HIDE DEF Unclaimed, Cancelled, Holds, TypeOK
      <4>. QED
        BY <3>1, <3>4, SMTT(60)
    <3>6. \A w \in Workers : Fresh(w, j)'
      <4>. HIDE DEF Holds, TypeOK
      <4>. QED
        BY <3>2
    <3>. QED
      BY <3>5, <3>6
  <2>. QED
    BY <2>1, <2>2
<1>5. ASSUME NEW w \in Workers, NEW k \in Jobs, PickLocked(w, k) PROVE Good'
  <2>1. CASE k # j
    <3>1. Same
      BY <2>1, <1>5, <1>t DEF PickLocked, Claim
    <3>. QED
      BY <3>1, <1>s
  <2>2. CASE k = j
    <3>1. status[j] \in {"pending", "retrying"}
      BY <2>2, <1>5 DEF PickLocked, NextFor, Claimable
    <3>2. runs[j] <= attempt[j] + mishaps /\ runs[j] < Most(j) + mishaps
      BY <3>1, <1>i, <1>o DEF Unclaimed
    <3>3. /\ runs'[j] = runs[j] + 1
          /\ attempt'[j] = attempt[j]
          /\ mishaps' = mishaps
          /\ status'[j] = "running"
          /\ Holds(w, j)'
          /\ captured'[w] = attempt'[j]
      BY <2>2, <1>5 DEF PickLocked, Claim
    <3>4. Most(j)' = Most(j)
      BY DEF Max, Larger
    <3>5. \A v \in Workers \ {w} : ~Holds(v, j)'
      BY <3>1, <1>r, <2>2, <1>5 DEF PickLocked, Claim
    <3>6. ~Unclaimed(j)' /\ ~Cancelled(j)'
      BY <3>3, <3>5, <2>2, <1>5 DEF Unclaimed, PickLocked, Claim
    <3>7. Paid(j)'
      <4>. HIDE DEF Unclaimed, Cancelled, Holds
      <4>. QED
        BY <3>1, <3>2, <3>3, <3>4, <3>6, <1>i, <1>o, <1>t, <1>0, SMTT(60)
    <3>. QED
      BY <3>3, <3>5, <3>7
  <2>. QED
    BY <2>1, <2>2
<1>6. ASSUME NEW w \in Workers, NEW k \in Jobs, Select(w, k) \/ ClaimSelected(w)
      PROVE Good'
  BY <1>6 DEF Select, ClaimSelected, ClaimInv
<1>7. ASSUME NEW w \in Workers, ClaimMissed(w) PROVE Good'
  <2>1. Same
    BY <1>7, <1>t DEF ClaimMissed, GoIdle
  <2>. QED
    BY <2>1, <1>s
<1>8. ASSUME NEW w \in Workers, HandlerReturns(w) \/ HandlerRaises(w) \/ HandlerTimesOut(w)
      PROVE Good'
  <2>1. PICK o \in {"succeeded", "failing"} : HandlerEnds(w, o)
    BY <1>8 DEF HandlerReturns, HandlerRaises, HandlerTimesOut
  <2>2. Same
    BY <2>1, <1>t DEF HandlerEnds
  <2>. QED
    BY <2>2, <1>s
\* The holder of j records an outcome: afterwards nobody holds j.
<1>9. ASSUME NEW w \in Workers, held[w] = j, Holds(w, j), held'[w] = NoJob,
             \A v \in Workers \ {w} : held'[v] = held[v] /\ pc'[v] = pc[v]
      PROVE \A v \in Workers : ~Holds(v, j)'
  BY <1>9, <1>h
<1>10. ASSUME NEW w \in Workers, MarkCompleted(w) PROVE Good'
  <2>1. CASE held[w] # j
    <3>1. Same
      BY <2>1, <1>10, <1>t DEF MarkCompleted, GoIdle
    <3>. QED
      BY <3>1, <1>s
  <2>2. CASE held[w] = j
    <3>1. \A v \in Workers : ~Holds(v, j)'
      BY <2>2, <1>10, <1>9 DEF MarkCompleted, GoIdle
    <3>2. /\ runs'[j] = runs[j]
          /\ mishaps' = mishaps
          /\ status'[j] \in {"completed", "deleted"}
      BY <2>2, <1>10, <1>r DEF MarkCompleted, Exists
    <3>3. Most(j)' = Most(j)
      BY DEF Max, Larger
    <3>. QED
      BY <3>1, <3>2, <3>3, <1>i, <1>o DEF Unclaimed
  <2>. QED
    BY <2>1, <2>2
<1>11. ASSUME NEW w \in Workers, FailJob(w) PROVE Good'
  <2>1. CASE held[w] # j
    <3>1. Same
      BY <2>1, <1>11, <1>t DEF FailJob, MarkFailed, GoIdle
    <3>. QED
      BY <3>1, <1>s
  <2>2. CASE held[w] = j /\ status[j] = "deleted"
    <3>1. \A v \in Workers : ~Holds(v, j)'
      BY <2>2, <1>11, <1>9 DEF FailJob, GoIdle
    <3>2. runs'[j] = runs[j] /\ mishaps' = mishaps /\ status'[j] = "deleted"
      BY <2>2, <1>11 DEF FailJob, MarkFailed, Exists
    <3>3. Most(j)' = Most(j)
      BY DEF Max, Larger
    <3>. QED
      BY <3>1, <3>2, <3>3, <1>i, <1>o DEF Unclaimed
  <2>3. CASE held[w] = j /\ status[j] = "running"
    <3>1. \A v \in Workers : ~Holds(v, j)'
      BY <2>3, <1>11, <1>9 DEF FailJob, GoIdle
    <3>2. captured[w] = attempt[j]
      BY <2>3, <1>11, <1>i, <1>o DEF FailJob, Exists
    <3>3. /\ runs'[j] = runs[j]
          /\ mishaps' = mishaps
          /\ attempt'[j] = attempt[j] + 1
          /\ status'[j] = IF attempt[j] + 1 >= MaxRetries[j] THEN "dead" ELSE "retrying"
      BY <2>3, <3>2, <1>11 DEF FailJob, MarkFailed, Exists
    <3>4. Most(j)' = Most(j)
      BY DEF Max, Larger
    <3>5. runs[j] <= attempt[j] + 1 + mishaps /\ runs[j] <= Most(j) + mishaps
      BY <2>3, <1>i, <1>o
    <3>6. Paid(j)'
      <4>1. CASE attempt[j] + 1 >= MaxRetries[j]
        BY <4>1, <3>1, <3>3, <3>4, <3>5, <1>t, <1>0 DEF Unclaimed
      <4>2. CASE ~(attempt[j] + 1 >= MaxRetries[j])
        BY <4>2, <3>1, <3>3, <3>4, <3>5, <1>t, <1>0
      <4>. QED
        BY <4>1, <4>2
    <3>. QED
      BY <3>1, <3>6
  <2>. QED
    BY <2>1, <2>2, <2>3, <1>11, <1>r DEF FailJob
<1>12. ASSUME NEW w \in Workers, MarkCancelled(w) PROVE Good'
  <2>1. CASE held[w] # j
    <3>1. Same
      BY <2>1, <1>12, <1>t DEF MarkCancelled, MarkFailed
    <3>. QED
      BY <3>1, <1>s
  <2>2. CASE held[w] = j
    <3>1. \A v \in Workers : ~Holds(v, j)'
      BY <2>2, <1>12, <1>9 DEF MarkCancelled
    <3>2. runs'[j] = runs[j] /\ mishaps' = mishaps
      BY <1>12 DEF MarkCancelled
    <3>3. Most(j)' = Most(j)
      BY DEF Max, Larger
    <3>4. runs[j] < Most(j) + mishaps
      BY <2>2, <1>12, <1>i, <1>o DEF MarkCancelled
    <3>5. \/ status[j] = "deleted" /\ status'[j] = "deleted"
          \/ status[j] = "running" /\ status'[j] = "pending" /\ attempt'[j] = attempt[j] + 1
      BY <2>2, <1>12, <1>r DEF MarkCancelled, MarkFailed, Exists
    <3>. QED
      BY <3>1, <3>2, <3>3, <3>4, <3>5, <1>i, <1>o, <1>t DEF Unclaimed
  <2>. QED
    BY <2>1, <2>2
<1>13. ASSUME NEW w \in Workers, WorkerStarts(w) PROVE Good'
  <2>1. Same
    BY <1>13, <1>t DEF WorkerStarts
  <2>. QED
    BY <2>1, <1>s
<1>14. ASSUME NEW w \in Workers, WorkerDies(w) \/ WorkerStops(w) \/ OutcomeLost(w)
       PROVE Good'
  <2>1. /\ status'[j] = status[j]
        /\ attempt'[j] = attempt[j]
        /\ runs'[j] = runs[j]
        /\ mishaps' = mishaps + 1
    BY <1>14 DEF WorkerDies, WorkerStops, OutcomeLost, Mishap
  <2>2. \A v \in Workers : Holds(v, j)' => Holds(v, j) /\ captured'[v] = captured[v]
    BY <1>14 DEF WorkerDies, WorkerStops, OutcomeLost, GoIdle
  <2>3. Most(j)' = Most(j)
    BY DEF Max, Larger
  <2>4. runs[j] < Most(j) + mishaps'
    BY <2>1, <1>i, <1>o, <1>t, <1>0
  <2>5. status[j] \in {"pending", "retrying"} => runs[j] <= attempt[j] + mishaps
    BY <1>i, <1>o DEF Unclaimed
  <2>6. Unclaimed(j)' => runs[j] <= attempt[j] + mishaps'
    BY <2>1, <2>5, <1>i, <1>o, <1>t DEF Unclaimed
  <2>7. Paid(j)'
    <3>. HIDE DEF Unclaimed, Cancelled
    <3>. QED
      BY <2>1, <2>3, <2>4, <2>6, <1>i, <1>o, <1>t, <1>0, SMTT(60)
  <2>8. \A v \in Workers : Fresh(v, j)'
    BY <2>1, <2>2, <1>i, <1>o DEF Exists
  <2>. QED
    BY <2>7, <2>8
<1>15. ASSUME NEW w \in Workers, ResetStale(w) PROVE Good'
  <2>1. CASE status'[j] = status[j]
    <3>1. Same
      BY <2>1, <1>15, <1>t DEF ResetStale
    <3>. QED
      BY <3>1, <1>s
  <2>2. CASE status'[j] # status[j]
    <3>1. status[j] = "running" /\ status'[j] = "pending" /\ \A v \in Workers : ~Holds(v, j)
      BY <2>2, <1>15 DEF ResetStale
    <3>2. UNCHANGED <<attempt, runs, mishaps, pc, held, captured>>
      BY <1>15 DEF ResetStale
    <3>3. Most(j)' = Most(j)
      BY DEF Max, Larger
    <3>. QED
      BY <3>1, <3>2, <3>3, <1>i, <1>o DEF Unclaimed
  <2>. QED
    BY <2>1, <2>2
<1>16. ASSUME NEW w \in Workers, NEW old \in SUBSET Jobs, CleanupOldJobs(w, old) PROVE Good'
  <2>1. CASE j \notin old
    <3>1. Same
      BY <2>1, <1>16, <1>t DEF CleanupOldJobs
    <3>. QED
      BY <3>1, <1>s
  <2>2. CASE j \in old
    <3>1. status[j] = "completed" /\ status'[j] = "deleted"
      BY <2>2, <1>16 DEF CleanupOldJobs
    <3>2. UNCHANGED <<attempt, runs, mishaps, pc, held, captured>>
      BY <1>16 DEF CleanupOldJobs
    <3>3. Most(j)' = Most(j)
      BY DEF Max, Larger
    <3>. QED
      BY <3>1, <3>2, <3>3, <1>i, <1>o, <1>r DEF Unclaimed
  <2>. QED
    BY <2>1, <2>2
<1>17. CASE UNCHANGED vars
  <2>1. Same
    BY <1>17, <1>t DEF vars
  <2>. QED
    BY <2>1, <1>s
<1>. HIDE DEF TypeOK, Holds, Cancelled, rowVars, workerVars, historyVars, Paid, Fresh, Same
<1>18. CASE Next
  <2>1. ASSUME NEW k \in Jobs, JobStep(k) PROVE Good'
    BY <2>1, <1>1, <1>2, <1>3, <1>4 DEF JobStep
  <2>2. ASSUME NEW w \in Workers, WorkerStep(w) PROVE Good'
    BY <2>2, <1>5, <1>6, <1>7, <1>8, <1>10, <1>11, <1>12, <1>13 DEF WorkerStep
  <2>3. ASSUME NEW w \in Workers, WorkerDies(w) \/ WorkerStops(w) \/ OutcomeLost(w)
        PROVE Good'
    BY <2>3, <1>14
  <2>4. CASE \E k \in Jobs : JobStep(k)
    BY <2>4, <2>1
  <2>5. ASSUME NEW w \in Workers, \E old \in SUBSET Jobs : CleanupOldJobs(w, old) PROVE Good'
    BY <2>5, <1>16
  <2>6. CASE \E w \in Workers : \/ WorkerStep(w)
                               \/ WorkerDies(w) \/ WorkerStops(w) \/ OutcomeLost(w)
                               \/ ResetStale(w)
                               \/ \E old \in SUBSET Jobs : CleanupOldJobs(w, old)
    BY <2>6, <2>2, <2>3, <2>5, <1>15
  <2>. QED
    BY <1>18, <2>4, <2>6 DEF Next
<1>. QED
  BY <1>17, <1>18

\* BudgetInv is an invariant.
LEMMA BudgetInvHolds == Spec => []BudgetInv
BY InitBudgetInv, NextBudgetInv, TypeCorrect, ClaimInvHolds, PTL DEF Spec

\* max_retries bounds the executions of a job, but for one per mishap.
THEOREM RunBudgetHolds == Spec => []RunBudget
<1>1. BudgetInv => RunBudget
  BY DEF BudgetInv, RunBudget
<1>. QED
  BY <1>1, BudgetInvHolds, PTL

\* No job is given up before its attempts are used up.
THEOREM DeadOnlyWhenExhaustedHolds == Spec => []DeadOnlyWhenExhausted
<1>1. BudgetInv => DeadOnlyWhenExhausted
  BY DEF BudgetInv, DeadOnlyWhenExhausted
<1>. QED
  BY <1>1, BudgetInvHolds, PTL

-----------------------------------------------------------------------------
(* Refinement: the queue implements the lease protocol.                     *)

\* The empty jobs table is the initial state of the lease protocol.
LEMMA InitRefines == Init => Lease!LeaseInit
BY DEF Init, Lease!LeaseInit, phaseBar, runnersBar, PhaseOf, Holds

\* Every step is a step of the lease protocol or changes nothing it sees.
LEMMA NextRefines == TypeOK /\ ClaimInv /\ [Next]_vars => [Lease!LeaseNext]_(Lease!leaseVars)
<1>. SUFFICES ASSUME TypeOK, ClaimInv, [Next]_vars
              PROVE  [Lease!LeaseNext]_(Lease!leaseVars)
  OBVIOUS
<1> DEFINE Still == UNCHANGED Lease!leaseVars
<1>s. ASSUME UNCHANGED <<status, overrun>>,
             \A w \in Workers, j \in Jobs : Holds(w, j)' <=> Holds(w, j)
      PROVE  Still
  BY <1>s DEF Lease!leaseVars, phaseBar, runnersBar
<1>p. \A j \in Jobs : phaseBar[j] = PhaseOf(status[j]) /\ phaseBar'[j] = PhaseOf(status'[j])
  BY DEF phaseBar
<1>r. \A w \in Workers, j \in Jobs : /\ w \in runnersBar[j] <=> Holds(w, j)
                                     /\ w \in runnersBar'[j] <=> Holds(w, j)'
  BY DEF runnersBar
\* Changing the status of one job changes the phase of that job only.
<1>e. ASSUME NEW j \in Jobs, NEW s \in Status, status' = [status EXCEPT ![j] = s]
      PROVE  phaseBar' = [phaseBar EXCEPT ![j] = PhaseOf(s)]
  <2>1. \A k \in Jobs : status'[k] = IF k = j THEN s ELSE status[k]
    BY <1>e DEF TypeOK
  <2>. QED
    BY <2>1 DEF phaseBar
\* Changing the status of a set of jobs changes their phases only.
<1>f. ASSUME NEW S \in SUBSET Jobs, NEW s \in Status,
             status' = [j \in Jobs |-> IF j \in S THEN s ELSE status[j]]
      PROVE  phaseBar' = [j \in Jobs |-> IF j \in S THEN PhaseOf(s) ELSE phaseBar[j]]
  <2>1. \A k \in Jobs : status'[k] = IF k \in S THEN s ELSE status[k]
    BY <1>f
  <2>. QED
    BY <2>1 DEF phaseBar
<1>q. /\ PhaseOf("pending") = "queued" /\ PhaseOf("retrying") = "queued"
      /\ PhaseOf("running") = "leased" /\ PhaseOf("completed") = "done"
      /\ PhaseOf("dead") = "dead" /\ PhaseOf("failed") = "dead"
      /\ PhaseOf("deleted") = "gone" /\ PhaseOf("new") = "none"
  BY DEF PhaseOf
<1>z. \A s \in Status : /\ PhaseOf(s) = "none" => s = "new"
                        /\ PhaseOf(s) = "gone" => s = "deleted"
  BY DEF PhaseOf, Status
<1>m. /\ runnersBar \in [Jobs -> SUBSET Workers]
      /\ runnersBar' \in [Jobs -> SUBSET Workers]
  BY DEF runnersBar
<1>. USE DEF TypeOK
<1>1. ASSUME NEW j \in Jobs, NEW b \in BOOLEAN, Enqueue(j, b) PROVE Lease!Offer(j)
  <2>1. phaseBar[j] = "none"
    BY <1>1, <1>p DEF Enqueue, PhaseOf
  <2>2. phaseBar' = [phaseBar EXCEPT ![j] = "queued"]
    BY <1>1, <1>e, <1>q, ZenonT(60) DEF Enqueue, Status
  <2>3. UNCHANGED <<runnersBar, overrun>>
    BY <1>1 DEF Enqueue, runnersBar, Holds, workerVars, historyVars
  <2>. QED
    BY <2>1, <2>2, <2>3 DEF Lease!Offer
<1>2. ASSUME NEW j \in Jobs, RunAtReached(j) \/ TimeoutElapses(j) \/ CancelChecks(j) PROVE Still
  BY <1>2, <1>s DEF RunAtReached, TimeoutElapses, CancelChecks, Holds, rowVars, workerVars,
                    historyVars
<1>3. ASSUME NEW j \in Jobs, CancelDeletes(j) PROVE Lease!Remove({j})
  <2>1. phaseBar[j] # "none"
    <3>1. status[j] \in Status /\ status[j] # "new"
      BY <1>3 DEF CancelDeletes, ClaimInv
    <3>2. phaseBar[j] = PhaseOf(status[j])
      BY DEF phaseBar
    <3>. QED
      BY <3>1, <3>2, <1>z
  <2>2. status' = [k \in Jobs |-> IF k \in {j} THEN "deleted" ELSE status[k]]
    BY <1>3 DEF CancelDeletes
  <2>4. phaseBar' = [k \in Jobs |-> IF k \in {j} THEN "gone" ELSE phaseBar[k]]
    <3>1. {j} \in SUBSET Jobs /\ "deleted" \in Status
      BY DEF Status
    <3>2. phaseBar' = [k \in Jobs |-> IF k \in {j} THEN PhaseOf("deleted") ELSE phaseBar[k]]
      BY <2>2, <3>1, <1>f, ZenonT(60)
    <3>. QED
      BY <3>2, <1>q
  <2>3. UNCHANGED <<runnersBar, overrun>>
    BY <1>3 DEF CancelDeletes, runnersBar, Holds, workerVars, historyVars
  <2>. QED
    BY <2>1, <2>3, <2>4 DEF Lease!Remove
<1>4. ASSUME NEW j \in Jobs, ManualRetry(j) PROVE Lease!Revive(j)
  <2>1. phaseBar[j] = "dead"
    BY <1>4, <1>p DEF ManualRetry, PhaseOf
  <2>2. phaseBar' = [phaseBar EXCEPT ![j] = "queued"]
    BY <1>4, <1>e, <1>q, ZenonT(60) DEF ManualRetry, Status
  <2>3. UNCHANGED <<runnersBar, overrun>>
    BY <1>4 DEF ManualRetry, runnersBar, Holds, workerVars
  <2>. QED
    BY <2>1, <2>2, <2>3 DEF Lease!Revive

<1>5. ASSUME NEW w \in Workers, NEW j \in Jobs, NEW a \in Nat,
             pc[w] \in {"idle", "selected"}, status[j] \in {"pending", "retrying"},
             Claim(w, j, a)
      PROVE  Lease!Lease(j, w)
  <2>1. phaseBar[j] = "queued"
    BY <1>5, <1>p, <1>q
  <2>2. phaseBar' = [phaseBar EXCEPT ![j] = "leased"]
    BY <1>5, <1>e, <1>q, ZenonT(60) DEF Claim, Status
  <2>3. \A k \in Jobs : w \notin runnersBar[k]
    BY <1>5 DEF runnersBar, Holds
  <2>4. \A v \in Workers, k \in Jobs : Holds(v, k)' <=> Holds(v, k) \/ (v = w /\ k = j)
    <3>. SUFFICES ASSUME NEW v \in Workers, NEW k \in Jobs
                  PROVE  Holds(v, k)' <=> Holds(v, k) \/ (v = w /\ k = j)
      OBVIOUS
    <3>1. CASE v = w
      BY <3>1, <1>5 DEF Claim, Holds
    <3>2. CASE v # w
      <4>1. held'[v] = held[v] /\ pc'[v] = pc[v]
        BY <3>2, <1>5 DEF Claim
      <4>. QED
        BY <3>2, <4>1 DEF Holds
    <3>. QED
      BY <3>1, <3>2
  <2>5. runnersBar' = [runnersBar EXCEPT ![j] = @ \cup {w}]
    <3>1. \A k \in Jobs : runnersBar'[k] = IF k = j THEN runnersBar[k] \cup {w} ELSE runnersBar[k]
      <4>. SUFFICES ASSUME NEW k \in Jobs
                    PROVE  runnersBar'[k] = IF k = j THEN runnersBar[k] \cup {w} ELSE runnersBar[k]
        OBVIOUS
      <4>1. runnersBar'[k] \subseteq Workers /\ runnersBar[k] \subseteq Workers
        BY <1>m
      <4>2. \A v \in Workers : v \in runnersBar'[k] <=> v \in runnersBar[k] \/ (v = w /\ k = j)
        BY <2>4, <1>r, SMTT(60)
      <4>. QED
        BY <4>1, <4>2, ZenonT(60)
    <3>. QED
      BY <3>1, <1>m
  <2>6. UNCHANGED overrun
    BY <1>5 DEF Claim
  <2>. QED
    BY <2>1, <2>2, <2>3, <2>5, <2>6 DEF Lease!Lease
<1>6. ASSUME NEW w \in Workers, NEW j \in Jobs, PickLocked(w, j) PROVE Lease!Lease(j, w)
  BY <1>6, <1>5 DEF PickLocked, NextFor, Claimable
<1>7. ASSUME NEW w \in Workers, ClaimSelected(w) PROVE Lease!Lease(held[w], w) /\ held[w] \in Jobs
  BY <1>7, <1>5 DEF ClaimSelected, ClaimInv
<1>8. ASSUME NEW w \in Workers, \/ \E j \in Jobs : Select(w, j)
                                \/ ClaimMissed(w) \/ WorkerStarts(w) \/ WorkerStops(w)
      PROVE Still
  BY <1>8, <1>s DEF Select, ClaimMissed, GoIdle, WorkerStarts, WorkerStops, Mishap, Holds, rowVars,
                    workerVars, historyVars
<1>9. ASSUME NEW w \in Workers, HandlerReturns(w) \/ HandlerRaises(w) \/ HandlerTimesOut(w)
      PROVE Still
  <2>1. PICK o \in {"succeeded", "failing"} : HandlerEnds(w, o)
    BY <1>9 DEF HandlerReturns, HandlerRaises, HandlerTimesOut
  <2>. QED
    BY <2>1, <1>s DEF HandlerEnds, Holds, rowVars, workerVars, historyVars
\* A worker that lets its job go without touching another one.
<1>10. ASSUME NEW w \in Workers, pc[w] \in {"executing", "succeeded", "failing", "cancelled"},
              held' = [held EXCEPT ![w] = NoJob],
              \E s \in {"idle", "down"} : pc' = [pc EXCEPT ![w] = s]
       PROVE  /\ held[w] \in Jobs
              /\ w \in runnersBar[held[w]]
              /\ runnersBar' = [runnersBar EXCEPT ![held[w]] = @ \ {w}]
  <2>1. held[w] \in Jobs /\ Holds(w, held[w])
    BY <1>10 DEF Holds
  <2>2. \A v \in Workers, k \in Jobs : Holds(v, k)' <=> Holds(v, k) /\ ~(v = w /\ k = held[w])
    BY <1>10 DEF Holds
  <2>3. \A k \in Jobs : runnersBar'[k] = IF k = held[w] THEN runnersBar[k] \ {w} ELSE runnersBar[k]
    <3>. SUFFICES ASSUME NEW k \in Jobs
                  PROVE  runnersBar'[k] = IF k = held[w] THEN runnersBar[k] \ {w} ELSE runnersBar[k]
      OBVIOUS
    <3>1. runnersBar'[k] \subseteq Workers /\ runnersBar[k] \subseteq Workers
      BY <1>m
    <3>2. \A v \in Workers : v \in runnersBar'[k] <=> v \in runnersBar[k] /\ ~(v = w /\ k = held[w])
      BY <2>2, <1>r
    <3>3. CASE k = held[w]
      <4>. HIDE DEF TypeOK
      <4>. QED
        BY <3>1, <3>2, <3>3
    <3>4. CASE k # held[w]
      <4>. HIDE DEF TypeOK
      <4>. QED
        BY <3>1, <3>2, <3>4
    <3>. QED
      BY <3>3, <3>4
  <2>4. runnersBar' = [runnersBar EXCEPT ![held[w]] = @ \ {w}]
    BY <2>3, <1>m
  <2>5. w \in runnersBar[held[w]]
    BY <2>1 DEF runnersBar
  <2>. QED
    BY <2>1, <2>4, <2>5
\* The outcome of the job is recorded in its row, if the row is still there.
<1>11. ASSUME NEW w \in Workers, NEW s \in {"completed", "dead", "retrying", "pending"},
              pc[w] \in {"executing", "succeeded", "failing", "cancelled"},
              held' = [held EXCEPT ![w] = NoJob],
              \E t \in {"idle", "down"} : pc' = [pc EXCEPT ![w] = t],
              status' = [status EXCEPT ![held[w]] = IF Exists(held[w]) THEN s ELSE @],
              UNCHANGED overrun
       PROVE  Lease!LeaseNext
  <2> DEFINE j == held[w]
             u == IF Exists(j) THEN s ELSE status[j]
  <2>1. j \in Jobs /\ w \in runnersBar[j] /\ runnersBar' = [runnersBar EXCEPT ![j] = @ \ {w}]
    BY <1>10, <1>11
  <2>2. u \in Status /\ status' = [status EXCEPT ![j] = u]
    BY <1>11, <2>1 DEF Status
  <2>3. phaseBar' = [phaseBar EXCEPT ![j] = PhaseOf(u)]
    BY <2>1, <2>2, <1>e
  <2>4. status[j] # "new"
    BY <2>1 DEF ClaimInv
  <2>5. PhaseOf(u) = IF phaseBar[j] = "gone" THEN "gone" ELSE PhaseOf(s)
    <3>1. CASE status[j] = "deleted"
      BY <3>1, <2>1, <1>p, <1>q DEF Exists
    <3>2. CASE status[j] # "deleted"
      <4>1. phaseBar[j] # "gone"
        BY <3>2, <2>1, <1>p, <1>z
      <4>. QED
        BY <3>2, <4>1, <2>4 DEF Exists
    <3>. QED
      BY <3>1, <3>2
  <2>6. PhaseOf(s) \in {"queued", "done", "dead"}
    BY <1>11, <1>q
  <2>7. phaseBar' = [phaseBar EXCEPT ![j] = IF @ = "gone" THEN "gone" ELSE PhaseOf(s)]
    BY <2>3, <2>5
  <2>8. Lease!Settle(j, w, PhaseOf(s))
    BY <2>1, <2>7, <1>11 DEF Lease!Settle
  <2>. QED
    BY <2>1, <2>6, <2>8 DEF Lease!LeaseNext
<1>12. ASSUME NEW w \in Workers, MarkCompleted(w) PROVE Lease!LeaseNext
  BY <1>12, <1>11 DEF MarkCompleted, GoIdle, historyVars
<1>13. ASSUME NEW w \in Workers, FailJob(w) PROVE Lease!LeaseNext
  <2> DEFINE s == IF captured[w] + 1 >= MaxRetries[held[w]] THEN "dead" ELSE "retrying"
  <2>1. /\ s \in {"completed", "dead", "retrying", "pending"}
        /\ pc[w] = "failing"
        /\ held' = [held EXCEPT ![w] = NoJob]
        /\ pc' = [pc EXCEPT ![w] = "idle"]
        /\ status' = [status EXCEPT ![held[w]] = IF Exists(held[w]) THEN s ELSE @]
        /\ UNCHANGED overrun
    BY <1>13 DEF FailJob, MarkFailed, GoIdle, historyVars
  <2>. HIDE DEF s
  <2>. QED
    BY <2>1, <1>11
<1>14. ASSUME NEW w \in Workers, MarkCancelled(w) PROVE Lease!LeaseNext
  BY <1>14, <1>11 DEF MarkCancelled, MarkFailed, historyVars
<1>15. ASSUME NEW w \in Workers, WorkerDies(w) \/ OutcomeLost(w)
       PROVE  Still \/ \E j \in Jobs : Lease!Drop(j, w)
  <2>1. /\ UNCHANGED <<status, overrun>>
        /\ held' = [held EXCEPT ![w] = NoJob]
        /\ \E t \in {"idle", "down"} : pc' = [pc EXCEPT ![w] = t]
    BY <1>15 DEF WorkerDies, OutcomeLost, GoIdle, Mishap, rowVars, historyVars
  <2>2. UNCHANGED phaseBar
    BY <2>1 DEF phaseBar
  <2>3. CASE pc[w] \in {"executing", "succeeded", "failing", "cancelled"}
    BY <2>1, <2>2, <2>3, <1>10 DEF Lease!Drop
  <2>4. CASE pc[w] \notin {"executing", "succeeded", "failing", "cancelled"}
    BY <2>1, <2>4, <1>s DEF Holds
  <2>. QED
    BY <2>3, <2>4
<1>16. ASSUME NEW w \in Workers, ResetStale(w) PROVE \E S \in SUBSET Jobs : Lease!Expire(S)
  <2> DEFINE S == {j \in Jobs : status[j] = "running" /\ expired[j]}
  <2>1. phaseBar' = [j \in Jobs |-> IF j \in S THEN "queued" ELSE phaseBar[j]]
    <3>1. S \in SUBSET Jobs /\ "pending" \in Status
      BY DEF Status
    <3>2. status' = [j \in Jobs |-> IF j \in S THEN "pending" ELSE status[j]]
      BY <1>16 DEF ResetStale
    <3>. HIDE DEF S
    <3>3. phaseBar' = [j \in Jobs |-> IF j \in S THEN PhaseOf("pending") ELSE phaseBar[j]]
      BY <3>1, <3>2, <1>f, ZenonT(60)
    <3>. QED
      BY <3>3, <1>q
  <2>2. \A j \in S : phaseBar[j] = "leased"
    BY <1>p, <1>q
  <2>3. UNCHANGED runnersBar
    BY <1>16 DEF ResetStale, runnersBar, Holds, workerVars
  <2>4. {j \in S : \E v \in Workers : Holds(v, j)} = {j \in S : runnersBar[j] # {}}
    BY <1>r DEF runnersBar
  <2>5. overrun' = overrun \cup {j \in S : runnersBar[j] # {}}
    BY <1>16, <2>4 DEF ResetStale
  <2>. QED
    BY <2>1, <2>2, <2>3, <2>5 DEF Lease!Expire
<1>17. ASSUME NEW w \in Workers, NEW old \in SUBSET Jobs, CleanupOldJobs(w, old)
       PROVE  Lease!Remove(old)
  <2>1. phaseBar' = [j \in Jobs |-> IF j \in old THEN "gone" ELSE phaseBar[j]]
    <3>1. status' = [j \in Jobs |-> IF j \in old THEN "deleted" ELSE status[j]]
      BY <1>17 DEF CleanupOldJobs
    <3>2. phaseBar' = [j \in Jobs |-> IF j \in old THEN PhaseOf("deleted") ELSE phaseBar[j]]
      BY <3>1, <1>f DEF Status
    <3>. QED
      BY <3>2, <1>q
  <2>2. \A j \in old : phaseBar[j] # "none"
    BY <1>17, <1>p, <1>q DEF CleanupOldJobs
  <2>3. UNCHANGED <<runnersBar, overrun>>
    BY <1>17 DEF CleanupOldJobs, runnersBar, Holds, workerVars, historyVars
  <2>. QED
    BY <2>1, <2>2, <2>3 DEF Lease!Remove
<1>18. CASE UNCHANGED vars
  BY <1>18, <1>s DEF vars, Holds, rowVars, workerVars, historyVars
<1>. HIDE DEF TypeOK, Still
<1>19. ASSUME NEW j \in Jobs, JobStep(j) PROVE Lease!LeaseNext \/ Still
  BY <1>19, <1>1, <1>2, <1>3, <1>4 DEF JobStep, Lease!LeaseNext
<1>20. ASSUME NEW w \in Workers, WorkerStep(w) PROVE Lease!LeaseNext \/ Still
  <2>1. ASSUME NEW j \in Jobs, PickLocked(w, j) \/ Select(w, j)
        PROVE  Lease!LeaseNext \/ Still
    BY <2>1, <1>6, <1>8 DEF Lease!LeaseNext
  <2>2. CASE ClaimSelected(w) \/ ClaimMissed(w) \/ WorkerStarts(w)
    BY <2>2, <1>7, <1>8 DEF Lease!LeaseNext
  <2>. QED
    BY <1>20, <2>1, <2>2, <1>9, <1>12, <1>13, <1>14 DEF WorkerStep
<1>21. ASSUME NEW w \in Workers, \/ WorkerDies(w) \/ WorkerStops(w) \/ OutcomeLost(w)
                                 \/ ResetStale(w)
                                 \/ \E old \in SUBSET Jobs : CleanupOldJobs(w, old)
       PROVE Lease!LeaseNext \/ Still
  <2>1. CASE WorkerStops(w)
    BY <2>1, <1>8
  <2>2. CASE WorkerDies(w) \/ OutcomeLost(w)
    BY <2>2, <1>15 DEF Lease!LeaseNext
  <2>3. CASE ResetStale(w)
    BY <2>3, <1>16 DEF Lease!LeaseNext
  <2>4. CASE \E old \in SUBSET Jobs : CleanupOldJobs(w, old)
    BY <2>4, <1>17 DEF Lease!LeaseNext
  <2>. QED
    BY <1>21, <2>1, <2>2, <2>3, <2>4
<1>. QED
  BY <1>18, <1>19, <1>20, <1>21 DEF Next, Still

\* The queue is an implementation of the lease protocol.
THEOREM QueueImplementsLease == Spec => ImplementsLease
BY InitRefines, NextRefines, TypeCorrect, ClaimInvHolds, PTL
   DEF Spec, ImplementsLease, Lease!LeaseSpec

-----------------------------------------------------------------------------
(* The scheduler.                                                           *)

HIDE JobQueueAssumption

USE SchedulerAssumption

-----------------------------------------------------------------------------
(* The inductive invariant.                                                 *)

RowFields == {"exists", "enabled", "trigger", "next", "last"}

IsRow(row) == DOMAIN row = RowFields /\ row.exists \in BOOLEAN /\ row.enabled \in BOOLEAN

HasPlan(row) == row.exists /\ row.enabled /\ row.trigger \in Crons => row.next # NoRun

HooksArePlanned ==
  /\ hook = [h \in Hooks |-> hook[h]]
  /\ \A h \in Hooks : IsRow(hook[h]) /\ HasPlan(hook[h])

\* A scheduler has read schedules only.
ReadingIsSound(reading) ==
  /\ DOMAIN reading = {"at", "seen", "time"}
  /\ \A h \in DOMAIN reading.seen : h \in Hooks /\ reading.seen[h].trigger \in Crons

SchedulersKnow ==
  /\ sched = [s \in Schedulers |-> sched[s]]
  /\ \A s \in Schedulers : ReadingIsSound(sched[s])

\* While a request that has read row old waits to be saved, only a scheduler touches the row,
\* and it only makes a plan.
OnlyPlanned(old, cur) ==
  /\ cur.exists = old.exists /\ cur.enabled = old.enabled /\ cur.trigger = old.trigger
  /\ cur.next = old.next \/ cur.next # NoRun

SavingIsSound(q) ==
  q.at = "save" =>
    /\ q.hook \in Hooks
    /\ IsRow(q.new) /\ HasPlan(q.new) /\ q.new.exists
    /\ q.op # "create" => q.old.exists /\ OnlyPlanned(q.old, hook[q.hook])

RequestsKnow ==
  /\ req = [r \in Requests |-> req[r]]
  /\ \A r \in Requests : SavingIsSound(req[r])

PInv == HooksArePlanned /\ SchedulersKnow /\ RequestsKnow

\* Requests are served one at a time.
OneAtATime == \A p, q \in Requests : p = q

-----------------------------------------------------------------------------
(* The next run.                                                            *)

LEMMA MinIsThere ==
  ASSUME NEW S, S \subseteq Nat, S # {}
  PROVE  Min(S) \in S
<1>1. PICK x \in S : \A y \in S : <<y, x>> \notin OpToRel(<, Nat)
  BY NatLessThanWellFounded, WFMin
<1>2. ASSUME NEW y \in S PROVE x <= y
  <2>1. ASSUME y < x PROVE FALSE
    <3>1. <<y, x>> \in Nat \X Nat /\ <<y, x>>[1] < <<y, x>>[2]
      BY <2>1
    <3>2. <<y, x>> \in OpToRel(<, Nat)
      BY <3>1 DEF OpToRel
    <3>. QED
      BY <1>1, <3>2
  <2>2. x \in Nat /\ y \in Nat
    OBVIOUS
  <2>. QED
    BY <2>1, <2>2
<1>3. \E m \in S : \A y \in S : m <= y
  BY <1>2
<1>. QED
  BY <1>3 DEF Min

LEMMA NextRunIsRun == ASSUME NEW c \in Crons, NEW t, HasNext(c, t) PROVE NextRun(c, t) # NoRun
<1>1. {m \in Matches[c] : m > t} # {} /\ {m \in Matches[c] : m > t} \subseteq Nat
  BY DEF HasNext
<1>2. NextRun(c, t) \in Matches[c]
  BY <1>1, MinIsThere DEF NextRun
<1>. QED
  BY <1>2 DEF NoRun

-----------------------------------------------------------------------------
(* The schedulers.                                                          *)

\* A scheduler plans the rows it updates and leaves all else of them alone.
PlansRow(row, new) == IsRow(new) /\ HasPlan(new) /\ OnlyPlanned(row, new)

LEMMA MovedIsPlanned ==
  ASSUME PInv, NEW s \in Schedulers, NEW h \in Hooks, h \in Updatable(s)
  PROVE  PlansRow(hook[h], Moved(s, h)) /\ PlansRow(hook[h], Fired(s, h))
<1>. DEFINE n == NextRun(sched[s].seen[h].trigger, sched[s].time)
<1>1. sched[s].seen[h].trigger \in Crons
  BY DEF PInv, SchedulersKnow, ReadingIsSound, Updatable
<1>2. n # NoRun
  BY <1>1, NextRunIsRun DEF Updatable
<1>. HIDE DEF n
<1>3. IsRow(hook[h]) /\ Moved(s, h) = [hook[h] EXCEPT !.next = n]
  BY DEF PInv, HooksArePlanned, Moved, n
<1>4. PlansRow(hook[h], Moved(s, h))
  BY <1>2, <1>3 DEF PlansRow, IsRow, RowFields, HasPlan, OnlyPlanned
<1>5. Fired(s, h) = [Moved(s, h) EXCEPT !.last = sched[s].time]
  BY DEF Fired
<1>6. Fired(s, h).next = n
  BY <1>3, <1>5 DEF IsRow, RowFields
<1>7. PlansRow(hook[h], Fired(s, h))
  BY <1>2, <1>3, <1>5, <1>6 DEF PlansRow, IsRow, RowFields, HasPlan, OnlyPlanned
<1>. QED
  BY <1>4, <1>7

LEMMA PlansAreKept ==
  ASSUME PInv, hook' = [h \in Hooks |-> hook'[h]], UNCHANGED req,
         \A h \in Hooks : hook'[h] = hook[h] \/ PlansRow(hook[h], hook'[h])
  PROVE  HooksArePlanned' /\ RequestsKnow'
<1>1. HooksArePlanned'
  BY DEF PInv, HooksArePlanned, PlansRow
<1>2. ASSUME NEW r \in Requests PROVE SavingIsSound(req[r])'
  <2>1. SUFFICES ASSUME req[r].at = "save" PROVE SavingIsSound(req[r])'
    BY DEF SavingIsSound
  <2>2. /\ req[r].hook \in Hooks /\ IsRow(req[r].new) /\ HasPlan(req[r].new) /\ req[r].new.exists
        /\ req[r].op # "create" => req[r].old.exists /\ OnlyPlanned(req[r].old, hook[req[r].hook])
    BY <2>1 DEF PInv, RequestsKnow, SavingIsSound
  <2>3. req[r].op # "create" => OnlyPlanned(req[r].old, hook'[req[r].hook])
    BY <2>2 DEF PlansRow, OnlyPlanned
  <2>. QED
    BY <2>2, <2>3 DEF SavingIsSound
<1>. QED
  BY <1>1, <1>2 DEF PInv, RequestsKnow

LEMMA ReadingIsKept ==
  ASSUME PInv, NEW s \in Schedulers, NEW x, ReadingIsSound(x), sched' = [sched EXCEPT ![s] = x]
  PROVE  SchedulersKnow'
<1>1. sched'[s] = x /\ (\A q \in Schedulers \ {s} : sched'[q] = sched[q]) /\ sched' = [q \in Schedulers |-> sched'[q]]
  BY DEF PInv, SchedulersKnow
<1>2. ASSUME NEW q \in Schedulers PROVE ReadingIsSound(sched'[q])
  <2>1. CASE q = s
    BY <1>1, <2>1
  <2>2. CASE q # s
    BY <1>1, <2>2 DEF PInv, SchedulersKnow
  <2>. QED
    BY <2>1, <2>2
<1>. QED
  BY <1>1, <1>2 DEF SchedulersKnow

LEMMA StartIsSound == ASSUME PInv, NEW s \in Schedulers, Start(s) \/ TickRead(s) PROVE PInv'
<1>1. /\ UNCHANGED <<hook, req>>
      /\ \E S, at : (\A h \in S : h \in Hooks /\ IsSchedule(hook[h])) /\
                    sched' = [sched EXCEPT ![s] = [at |-> at, time |-> now, seen |-> Seen(S)]]
  <2>1. CASE Start(s)
    <3>. DEFINE S == {h \in Hooks : hook[h].exists /\ hook[h].enabled /\ IsSchedule(hook[h])}
    <3>1. \A h \in S : h \in Hooks /\ IsSchedule(hook[h])
      OBVIOUS
    <3>2. UNCHANGED <<hook, req>> /\ sched' = [sched EXCEPT ![s] = [at |-> "recalc", time |-> now, seen |-> Seen(S)]]
      BY <2>1 DEF Start
    <3>. QED
      BY <3>1, <3>2
  <2>2. CASE TickRead(s)
    <3>. DEFINE S == {h \in Hooks : Due(h)}
    <3>1. \A h \in S : h \in Hooks /\ IsSchedule(hook[h])
      BY DEF Due
    <3>2. UNCHANGED <<hook, req>> /\ sched' = [sched EXCEPT ![s] = [at |-> "tick", time |-> now, seen |-> Seen(S)]]
      BY <2>2 DEF TickRead
    <3>. QED
      BY <3>1, <3>2
  <2>. QED
    BY <2>1, <2>2
<1>2. PICK S, at : (\A h \in S : h \in Hooks /\ IsSchedule(hook[h])) /\
                   sched' = [sched EXCEPT ![s] = [at |-> at, time |-> now, seen |-> Seen(S)]]
  BY <1>1
<1>. DEFINE x == [at |-> at, time |-> now, seen |-> Seen(S)]
<1>3. DOMAIN x = {"at", "seen", "time"} /\ x.seen = Seen(S) /\ sched' = [sched EXCEPT ![s] = x]
  BY <1>2
<1>. HIDE DEF x
<1>4. ReadingIsSound(x)
  BY <1>2, <1>3 DEF ReadingIsSound, Seen, IsSchedule
<1>5. SchedulersKnow'
  BY <1>3, <1>4, ReadingIsKept
<1>6. HooksArePlanned' /\ RequestsKnow'
  BY <1>1, PlansAreKept DEF PInv, HooksArePlanned
<1>. QED
  BY <1>5, <1>6 DEF PInv

LEMMA ForgetIsSound ==
  ASSUME PInv, NEW s \in Schedulers,
         \/ sched' = [sched EXCEPT ![s].at = "up", ![s].seen = Seen({})]
         \/ sched' = [sched EXCEPT ![s] = Down]
  PROVE  SchedulersKnow'
<1>1. CASE sched' = [sched EXCEPT ![s].at = "up", ![s].seen = Seen({})]
  <2>. DEFINE x == [sched[s] EXCEPT !.at = "up", !.seen = Seen({})]
  <2>1. DOMAIN sched[s] = {"at", "seen", "time"}
    BY DEF PInv, SchedulersKnow, ReadingIsSound
  <2>2. sched' = [sched EXCEPT ![s] = x]
    BY <1>1
  <2>3. DOMAIN x = {"at", "seen", "time"} /\ x.seen = Seen({})
    BY <2>1
  <2>. HIDE DEF x
  <2>4. ReadingIsSound(x)
    BY <2>3 DEF ReadingIsSound, Seen
  <2>. QED
    BY <2>2, <2>4, ReadingIsKept
<1>2. CASE sched' = [sched EXCEPT ![s] = Down]
  <2>1. ReadingIsSound(Down)
    BY DEF ReadingIsSound, Down
  <2>. QED
    BY <1>2, <2>1, ReadingIsKept
<1>. QED
  BY <1>1, <1>2

LEMMA WriteIsSound == ASSUME PInv, NEW s \in Schedulers, Recalculate(s) \/ TickWrite(s) PROVE PInv'
<1>1. SchedulersKnow'
  BY ForgetIsSound DEF Recalculate, TickWrite
<1>2. hook' = [h \in Hooks |-> hook'[h]] /\ \A h \in Hooks : hook'[h] = hook[h] \/ PlansRow(hook[h], hook'[h])
  <2>1. CASE Recalculate(s)
    BY <2>1, MovedIsPlanned DEF Recalculate
  <2>2. CASE TickWrite(s)
    BY <2>2, MovedIsPlanned DEF TickWrite
  <2>. QED
    BY <2>1, <2>2
<1>3. UNCHANGED req
  BY DEF Recalculate, TickWrite
<1>4. HooksArePlanned' /\ RequestsKnow'
  BY <1>2, <1>3, PlansAreKept
<1>. QED
  BY <1>1, <1>4 DEF PInv

LEMMA StopIsSound == ASSUME PInv, NEW s \in Schedulers, Fail(s) \/ Crash(s) PROVE PInv'
<1>1. SchedulersKnow' /\ UNCHANGED <<hook, req>>
  BY ForgetIsSound DEF Fail, Crash
<1>2. HooksArePlanned' /\ RequestsKnow'
  BY <1>1, PlansAreKept DEF PInv, HooksArePlanned
<1>. QED
  BY <1>1, <1>2 DEF PInv

-----------------------------------------------------------------------------
(* The requests.                                                            *)

LEMMA RequestIsKept ==
  ASSUME PInv, NEW r \in Requests, NEW x, SavingIsSound(x), req' = [req EXCEPT ![r] = x],
         UNCHANGED <<hook, sched>>
  PROVE  PInv'
<1>1. req'[r] = x /\ (\A q \in Requests \ {r} : req'[q] = req[q]) /\ req' = [q \in Requests |-> req'[q]]
  BY DEF PInv, RequestsKnow
<1>2. ASSUME NEW q \in Requests PROVE SavingIsSound(req'[q])
  <2>1. CASE q = r
    BY <1>1, <2>1
  <2>2. CASE q # r
    BY <1>1, <2>2 DEF PInv, RequestsKnow
  <2>. QED
    BY <2>1, <2>2
<1>3. ASSUME NEW q \in Requests PROVE SavingIsSound(req[q])'
  BY <1>2 DEF SavingIsSound
<1>4. RequestsKnow'
  BY <1>1, <1>3 DEF RequestsKnow
<1>. QED
  BY <1>4 DEF PInv, HooksArePlanned, SchedulersKnow

\* The row as a request leaves it has a plan.
LEMMA RememberIsSound ==
  ASSUME PInv, NEW r \in Requests, NEW op, NEW h \in Hooks, NEW new,
         IsRow(new), HasPlan(new), new.exists, op # "create" => hook[h].exists, Remember(r, op, h, new)
  PROVE  PInv'
<1>. DEFINE x == [at |-> "save", op |-> op, hook |-> h, old |-> hook[h], new |-> new]
<1>1. req' = [req EXCEPT ![r] = x] /\ UNCHANGED <<hook, sched>>
  BY DEF Remember
<1>2. x.at = "save" /\ x.op = op /\ x.hook = h /\ x.old = hook[h] /\ x.new = new
  OBVIOUS
<1>. HIDE DEF x
<1>3. OnlyPlanned(hook[h], hook[h])
  BY DEF OnlyPlanned
<1>4. SavingIsSound(x)
  BY <1>2, <1>3 DEF SavingIsSound
<1>. QED
  BY <1>1, <1>4, RequestIsKept

LEMMA CreateIsSound ==
  ASSUME PInv, NEW r \in Requests, NEW h \in Hooks, NEW t, NEW en \in BOOLEAN, CreateRead(r, h, t, en)
  PROVE  PInv'
<1>. DEFINE new == [exists |-> TRUE, enabled |-> en, trigger |-> t,
                    next |-> IF en THEN Planned(t) ELSE NoRun, last |-> NoRun]
<1>1. Remember(r, "create", h, new) /\ (en /\ t \in Crons => HasNext(t, now))
  BY DEF CreateRead
<1>2. IsRow(new) /\ new.exists
  BY DEF IsRow, RowFields
<1>3. HasPlan(new)
  <2>1. ASSUME en, t \in Crons PROVE new.next # NoRun
    BY <1>1, <2>1, NextRunIsRun DEF Planned
  <2>. QED
    BY <2>1 DEF HasPlan
<1>. QED
  BY <1>1, <1>2, <1>3, RememberIsSound

LEMMA ToggleIsSound == ASSUME PInv, NEW r \in Requests, NEW h \in Hooks, ToggleRead(r, h) PROVE PInv'
<1>. DEFINE row == hook[h]
            new == Toggled(row)
            n == IF row.enabled THEN NoRun ELSE IF IsSchedule(row) THEN NextRun(row.trigger, now) ELSE row.next
<1>1. Remember(r, "toggle", h, new) /\ row.exists /\ (~row.enabled /\ IsSchedule(row) => HasNext(row.trigger, now))
  BY DEF ToggleRead
<1>2. IsRow(row)
  BY DEF PInv, HooksArePlanned
<1>3. new = [row EXCEPT !.enabled = ~@, !.next = n]
  BY DEF Toggled
<1>4. ~row.enabled /\ row.trigger \in Crons => n # NoRun
  BY <1>1, NextRunIsRun DEF IsSchedule
<1>. HIDE DEF row, n, new
<1>5. /\ DOMAIN new = RowFields /\ new.exists = row.exists /\ new.enabled = ~row.enabled
      /\ new.trigger = row.trigger /\ new.next = n
  BY <1>2, <1>3 DEF IsRow, RowFields
<1>6. IsRow(new) /\ HasPlan(new) /\ new.exists
  BY <1>1, <1>2, <1>4, <1>5 DEF IsRow, HasPlan
<1>. QED
  BY <1>1, <1>6, RememberIsSound DEF row

LEMMA UpdateIsSound ==
  ASSUME PInv, NEW r \in Requests, NEW h \in Hooks, NEW t, NEW en \in BOOLEAN \cup {Keep}, UpdateRead(r, h, t, en)
  PROVE  PInv'
<1>. DEFINE row == hook[h]
            new == Updated(row, t, en)
            trigger == IF t = Keep THEN row.trigger ELSE t
            enabled == IF en = Keep THEN row.enabled ELSE en
            n == IF trigger \notin Crons \/ ~enabled THEN NoRun
                 ELSE IF t # Keep \/ en # Keep THEN NextRun(trigger, now) ELSE row.next
<1>1. /\ Remember(r, "update", h, new) /\ row.exists
      /\ trigger \in Crons /\ enabled /\ (t # Keep \/ en # Keep) => HasNext(trigger, now)
  BY DEF UpdateRead
<1>2. IsRow(row) /\ HasPlan(row)
  BY DEF PInv, HooksArePlanned
<1>3. new = [row EXCEPT !.trigger = trigger, !.enabled = enabled, !.next = n]
  BY DEF Updated
<1>4. enabled \in BOOLEAN
  BY <1>2 DEF IsRow
<1>5. ASSUME enabled, trigger \in Crons PROVE n # NoRun
  <2>1. CASE t # Keep \/ en # Keep
    BY <1>1, <1>5, <2>1, NextRunIsRun
  <2>2. CASE t = Keep /\ en = Keep
    BY <1>1, <1>2, <1>5, <2>2 DEF HasPlan
  <2>. QED
    BY <2>1, <2>2
<1>. HIDE DEF row, n, new, trigger, enabled
<1>6. /\ DOMAIN new = RowFields /\ new.exists = row.exists /\ new.enabled = enabled
      /\ new.trigger = trigger /\ new.next = n
  BY <1>2, <1>3 DEF IsRow, RowFields
<1>7. IsRow(new) /\ HasPlan(new) /\ new.exists
  BY <1>1, <1>2, <1>4, <1>5, <1>6 DEF IsRow, HasPlan
<1>. QED
  BY <1>1, <1>7, RememberIsSound DEF row

\* Saving the columns that the request has changed makes the row what the request meant, for
\* whoever has touched it meanwhile has only moved its next run.
LEMMA SavedHasPlan ==
  ASSUME NEW old, NEW new, NEW cur, IsRow(new), IsRow(cur), HasPlan(new), old.exists, new.exists,
         OnlyPlanned(old, cur)
  PROVE  IsRow(Saved(old, new, cur)) /\ HasPlan(Saved(old, new, cur))
<1>. DEFINE row == Saved(old, new, cur)
<1>1. /\ DOMAIN row = RowFields
      /\ row.exists = IF new.exists # old.exists THEN new.exists ELSE cur.exists
      /\ row.enabled = IF new.enabled # old.enabled THEN new.enabled ELSE cur.enabled
      /\ row.trigger = IF new.trigger # old.trigger THEN new.trigger ELSE cur.trigger
      /\ row.next = IF new.next # old.next THEN new.next ELSE cur.next
  BY DEF IsRow, RowFields, Saved
<1>. HIDE DEF row
<1>2. /\ row.enabled = new.enabled /\ row.trigger = new.trigger
      /\ row.exists = new.exists \/ row.exists = cur.exists
      /\ row.next = new.next \/ (new.next = old.next /\ row.next = cur.next)
  BY <1>1 DEF OnlyPlanned
<1>3. IsRow(row)
  BY <1>1, <1>2 DEF IsRow
<1>4. HasPlan(row)
  BY <1>2 DEF HasPlan, OnlyPlanned
<1>. QED
  BY <1>3, <1>4 DEF row

LEMMA SaveIsSound == ASSUME OneAtATime, PInv, NEW r \in Requests, Save(r) PROVE PInv'
<1>. DEFINE h == req[r].hook
            old == req[r].old
            new == req[r].new
<1>1. /\ req[r].at = "save" /\ req' = [req EXCEPT ![r] = IdleRequest] /\ UNCHANGED sched
      /\ hook' = IF req[r].op = "create" THEN [hook EXCEPT ![h] = new]
                 ELSE IF ~hook[h].exists THEN hook
                 ELSE [hook EXCEPT ![h] = Saved(old, new, @)]
  BY DEF Save
<1>2. /\ h \in Hooks /\ IsRow(new) /\ HasPlan(new) /\ new.exists
      /\ req[r].op # "create" => old.exists /\ OnlyPlanned(old, hook[h])
  BY <1>1 DEF PInv, RequestsKnow, SavingIsSound
<1>3. hook = [g \in Hooks |-> hook[g]] /\ \A g \in Hooks : IsRow(hook[g]) /\ HasPlan(hook[g])
  BY DEF PInv, HooksArePlanned
<1>. HIDE DEF h, old, new
<1>4. HooksArePlanned'
  <2>1. PICK row : /\ IsRow(row) /\ HasPlan(row)
                   /\ hook' = [hook EXCEPT ![h] = row] \/ hook' = hook
    <3>1. CASE req[r].op = "create"
      BY <1>1, <1>2, <3>1
    <3>2. CASE req[r].op # "create"
      <4>1. IsRow(Saved(old, new, hook[h])) /\ HasPlan(Saved(old, new, hook[h]))
        BY <1>2, <1>3, <3>2, SavedHasPlan
      <4>. QED
        BY <1>1, <3>2, <4>1
    <3>. QED
      BY <3>1, <3>2
  <2>2. hook' = [g \in Hooks |-> hook'[g]] /\ \A g \in Hooks : hook'[g] = row \/ hook'[g] = hook[g]
    BY <1>3, <2>1
  <2>. QED
    BY <1>3, <2>1, <2>2 DEF HooksArePlanned
<1>5. RequestsKnow'
  <2>1. req' = [q \in Requests |-> req'[q]] /\ \A q \in Requests : req'[q] = IdleRequest
    BY <1>1 DEF PInv, RequestsKnow, OneAtATime
  <2>2. IdleRequest.at = "idle"
    BY DEF IdleRequest
  <2>. QED
    BY <2>1, <2>2 DEF RequestsKnow, SavingIsSound
<1>. QED
  BY <1>1, <1>4, <1>5 DEF PInv, SchedulersKnow

LEMMA DeleteIsSound == ASSUME OneAtATime, PInv, NEW r \in Requests, NEW h \in Hooks, Delete(r, h) PROVE PInv'
<1>1. hook' = [hook EXCEPT ![h].exists = FALSE] /\ UNCHANGED <<req, sched>> /\ req[r].at = "idle"
  BY DEF Delete, Receive
<1>2. hook = [g \in Hooks |-> hook[g]] /\ \A g \in Hooks : IsRow(hook[g]) /\ HasPlan(hook[g])
  BY DEF PInv, HooksArePlanned
<1>. DEFINE row == [hook[h] EXCEPT !.exists = FALSE]
<1>3. row.exists = FALSE /\ row.enabled = hook[h].enabled /\ DOMAIN row = RowFields
  BY <1>2 DEF IsRow, RowFields
<1>4. hook' = [hook EXCEPT ![h] = row]
  BY <1>1
<1>. HIDE DEF row
<1>5. IsRow(row) /\ HasPlan(row)
  BY <1>2, <1>3 DEF IsRow, HasPlan
<1>6. hook' = [g \in Hooks |-> hook'[g]] /\ \A g \in Hooks : hook'[g] = row \/ hook'[g] = hook[g]
  BY <1>2, <1>4
<1>7. HooksArePlanned'
  BY <1>2, <1>5, <1>6 DEF HooksArePlanned
<1>8. RequestsKnow'
  BY <1>1 DEF PInv, RequestsKnow, SavingIsSound, OneAtATime
<1>. QED
  BY <1>1, <1>7, <1>8 DEF PInv, SchedulersKnow

-----------------------------------------------------------------------------
LEMMA ElsewhereIsSound == ASSUME PInv, UNCHANGED <<hook, sched, req>> PROVE PInv'
BY DEF PInv, HooksArePlanned, SchedulersKnow, RequestsKnow, SavingIsSound

LEMMA InitIsSound == SchedulerInit => PInv
<1>. SUFFICES ASSUME SchedulerInit PROVE PInv
  OBVIOUS
<1>1. HooksArePlanned
  <2>. DEFINE Planning(c) == [exists |-> TRUE, enabled |-> TRUE, trigger |-> c, next |-> NextRun(c, 1), last |-> NoRun]
  <2>1. IsRow(Absent) /\ HasPlan(Absent)
    BY DEF IsRow, RowFields, HasPlan, Absent
  <2>2. ASSUME NEW c \in Crons, HasNext(c, 1) PROVE IsRow(Planning(c)) /\ HasPlan(Planning(c))
    <3>1. NextRun(c, 1) # NoRun
      BY <2>2, NextRunIsRun
    <3>. QED
      BY <3>1 DEF IsRow, RowFields, HasPlan
  <2>3. hook \in [Hooks -> {Absent} \cup {Planning(c) : c \in {d \in Crons : HasNext(d, 1)}}]
    BY DEF SchedulerInit
  <2>. HIDE DEF Planning
  <2>. QED
    BY <2>1, <2>2, <2>3 DEF HooksArePlanned
<1>2. SchedulersKnow
  BY DEF SchedulerInit, SchedulersKnow, ReadingIsSound, Down
<1>3. RequestsKnow
  BY DEF SchedulerInit, RequestsKnow, SavingIsSound, IdleRequest
<1>. QED
  BY <1>1, <1>2, <1>3 DEF PInv

LEMMA NextKeepsPlans == ASSUME OneAtATime, PInv, [SchedulerNext]_schedulerVars PROVE PInv'
<1>1. CASE UNCHANGED schedulerVars \/ Advance
  BY <1>1, ElsewhereIsSound DEF schedulerVars, Advance
<1>2. ASSUME NEW s \in Schedulers, Tick(s) \/ Fail(s) \/ Crash(s) PROVE PInv'
  BY <1>2, StartIsSound, WriteIsSound, StopIsSound DEF Tick
<1>3. ASSUME NEW r \in Requests, Request(r) PROVE PInv'
  <2>1. CASE Save(r)
    BY <2>1, SaveIsSound
  <2>2. ASSUME NEW h \in Hooks, ToggleRead(r, h) \/ Delete(r, h) PROVE PInv'
    BY <2>2, ToggleIsSound, DeleteIsSound
  <2>3. ASSUME NEW h \in Hooks, TriggerHook(r, h) PROVE PInv'
    BY <2>3, ElsewhereIsSound DEF TriggerHook
  <2>4. ASSUME NEW h \in Hooks, NEW t \in Crons \cup {Event}, NEW en \in BOOLEAN, CreateRead(r, h, t, en) PROVE PInv'
    BY <2>4, CreateIsSound
  <2>5. ASSUME NEW h \in Hooks, NEW t \in Crons \cup {Event, Keep}, NEW en \in BOOLEAN \cup {Keep},
               UpdateRead(r, h, t, en)
        PROVE  PInv'
    BY <2>5, UpdateIsSound
  <2>. QED
    BY <1>3, <2>1, <2>2, <2>3, <2>4, <2>5 DEF Request
<1>. QED
  BY <1>1, <1>2, <1>3 DEF SchedulerNext

\* As long as the requests on the hooks are served one at a time, an enabled schedule hook has
\* a next run, for any number of hooks and schedulers, whatever their expressions and wherever
\* a scheduler stands when it fails: with two requests at a time it may be left without one.
THEOREM EnabledHasNextRunHolds == ASSUME OneAtATime PROVE SchedulerSpec => []EnabledHasNextRun
<1>1. PInv => EnabledHasNextRun
  BY DEF PInv, HooksArePlanned, HasPlan, EnabledHasNextRun, IsSchedule
<1>. QED
  BY <1>1, InitIsSound, NextKeepsPlans, PTL DEF SchedulerSpec

-----------------------------------------------------------------------------
(* When a hook runs.                                                        *)

OneScheduler == \A p, q \in Schedulers : p = q

\* A planned run is later than the last one, unless a PATCH has overtaken it.
RowIsSound(row, over, t) ==
  /\ row.next \in Runs \cup {NoRun}
  /\ row.last \in Nat /\ row.last <= t
  /\ row.exists /\ row.next # NoRun /\ ~over => row.last < row.next

ClockIsSound(x, t) == x.time \in Nat /\ x.time <= t

LastIsRead(x, row) == x.at \in {"recalc", "tick"} => row.last <= x.time

\* The run that a tick has read of h is due, and later than the last one.
ReadIsSound(x, h, row, over) ==
  x.at = "tick" /\ h \in DOMAIN x.seen =>
    /\ x.seen[h].next \in Runs /\ x.seen[h].next <= x.time
    /\ row.exists /\ ~over => row.last < x.seen[h].next

NotReadLater(x, h, n) == x.at = "tick" /\ h \in DOMAIN x.seen => x.time < n

\* A run that a request has planned is later than the last run it has read, and one that
\* enabling plans is later than any run of the tick that is under way.
PlanIsSound(q) ==
  q.at = "save" =>
    /\ q.new.next \in Runs \cup {NoRun}
    /\ q.op = "create" => q.new.last = NoRun
    /\ q.op # "create" => q.new.last = q.old.last
    /\ q.op # "create" /\ q.new.next \notin {q.old.next, NoRun} =>
         IF q.op = "update" THEN q.old.last < q.new.next
         ELSE /\ q.old.enabled = FALSE
              /\ hook[q.hook].last < q.new.next
              /\ \A s \in Schedulers : NotReadLater(sched[s], q.hook, q.new.next)

RunsAreApart ==
  /\ now \in Nat \ {0}
  /\ overtaken \in [Hooks -> BOOLEAN]
  /\ \A h \in Hooks : RowIsSound(hook[h], overtaken[h], now)
  /\ \A s \in Schedulers : ClockIsSound(sched[s], now)
  /\ \A s \in Schedulers, h \in Hooks : LastIsRead(sched[s], hook[h]) /\ ReadIsSound(sched[s], h, hook[h], overtaken[h])
  /\ \A r \in Requests : PlanIsSound(req[r])

FInv == PInv /\ RunsAreApart

LEMMA RunsArePositive == Runs \subseteq Nat \ {0}
BY DEF Runs

LEMMA NextRunIsLater ==
  ASSUME NEW c \in Crons, NEW t, HasNext(c, t)
  PROVE  NextRun(c, t) \in Runs /\ NextRun(c, t) > t
<1>1. {m \in Matches[c] : m > t} # {} /\ {m \in Matches[c] : m > t} \subseteq Nat
  BY DEF HasNext
<1>2. NextRun(c, t) \in {m \in Matches[c] : m > t}
  BY <1>1, MinIsThere DEF NextRun
<1>. QED
  BY <1>2 DEF Runs

LEMMA AdvanceKeepsApart == ASSUME FInv, Advance PROVE RunsAreApart'
<1>1. now' = now + 1 /\ UNCHANGED <<hook, sched, req, overtaken>> /\ now \in Nat \ {0}
  BY DEF Advance, FInv, RunsAreApart
<1>2. \A h \in Hooks : RowIsSound(hook[h], overtaken[h], now')
  BY <1>1 DEF FInv, RunsAreApart, RowIsSound
<1>3. \A s \in Schedulers : ClockIsSound(sched[s], now')
  BY <1>1 DEF FInv, RunsAreApart, ClockIsSound
<1>4. \A r \in Requests : PlanIsSound(req[r])'
  BY <1>1 DEF FInv, RunsAreApart, PlanIsSound
<1>. QED
  BY <1>1, <1>2, <1>3, <1>4 DEF FInv, RunsAreApart

\* A scheduler that reads, or forgets what it has read.
LEMMA ReadingKeepsApart ==
  ASSUME FInv, OneScheduler, NEW s \in Schedulers, NEW x, sched' = [sched EXCEPT ![s] = x],
         UNCHANGED <<now, hook, req, overtaken>>, ClockIsSound(x, now),
         \A h \in Hooks : LastIsRead(x, hook[h]) /\ ReadIsSound(x, h, hook[h], overtaken[h]),
         \A h \in Hooks : x.at = "tick" /\ h \in DOMAIN x.seen => hook[h].enabled
  PROVE  RunsAreApart'
<1>1. \A q \in Schedulers : sched'[q] = x
  BY DEF FInv, PInv, SchedulersKnow, OneScheduler
<1>2. ASSUME NEW r \in Requests PROVE PlanIsSound(req[r])'
  <2>. DEFINE q == req[r]
  <2>1. SUFFICES ASSUME q.at = "save", q.op # "create", q.op # "update", q.new.next \notin {q.old.next, NoRun}
                 PROVE  \A p \in Schedulers : NotReadLater(sched'[p], q.hook, q.new.next)
    BY DEF FInv, RunsAreApart, PlanIsSound
  <2>2. q.old.enabled = FALSE /\ q.hook \in Hooks /\ OnlyPlanned(q.old, hook[q.hook])
    BY <2>1 DEF FInv, PInv, RequestsKnow, SavingIsSound, RunsAreApart, PlanIsSound
  <2>3. ~hook[q.hook].enabled
    BY <2>2 DEF OnlyPlanned
  <2>. QED
    BY <1>1, <2>2, <2>3 DEF NotReadLater
<1>. QED
  BY <1>1, <1>2 DEF FInv, RunsAreApart

LEMMA StartKeepsApart == ASSUME FInv, OneScheduler, NEW s \in Schedulers, Start(s) PROVE RunsAreApart'
<1>. DEFINE S == {h \in Hooks : hook[h].exists /\ hook[h].enabled /\ IsSchedule(hook[h])}
            x == [at |-> "recalc", time |-> now, seen |-> Seen(S)]
<1>1. sched' = [sched EXCEPT ![s] = x] /\ UNCHANGED <<now, hook, req, overtaken>>
  BY DEF Start
<1>2. x.at = "recalc" /\ x.time = now
  OBVIOUS
<1>. HIDE DEF x
<1>3. ClockIsSound(x, now)
  BY <1>2 DEF ClockIsSound, FInv, RunsAreApart
<1>4. ASSUME NEW h \in Hooks PROVE LastIsRead(x, hook[h]) /\ ReadIsSound(x, h, hook[h], overtaken[h])
  BY <1>2 DEF LastIsRead, ReadIsSound, FInv, RunsAreApart, RowIsSound
<1>. QED
  BY <1>1, <1>2, <1>3, <1>4, ReadingKeepsApart

LEMMA TickReadKeepsApart == ASSUME FInv, OneScheduler, NEW s \in Schedulers, TickRead(s) PROVE RunsAreApart'
<1>. DEFINE S == {h \in Hooks : Due(h)}
            x == [at |-> "tick", time |-> now, seen |-> Seen(S)]
<1>1. sched' = [sched EXCEPT ![s] = x] /\ UNCHANGED <<now, hook, req, overtaken>>
  BY DEF TickRead
<1>2. x.at = "tick" /\ x.time = now /\ DOMAIN x.seen = S /\ \A h \in S : x.seen[h] = hook[h]
  BY DEF Seen
<1>. HIDE DEF x
<1>3. ClockIsSound(x, now)
  BY <1>2 DEF ClockIsSound, FInv, RunsAreApart
<1>4. ASSUME NEW h \in Hooks PROVE LastIsRead(x, hook[h]) /\ ReadIsSound(x, h, hook[h], overtaken[h])
  <2>1. RowIsSound(hook[h], overtaken[h], now)
    BY DEF FInv, RunsAreApart
  <2>2. h \in S => hook[h].exists /\ hook[h].next # NoRun /\ hook[h].next <= now
    BY DEF Due
  <2>. QED
    BY <1>2, <2>1, <2>2 DEF LastIsRead, ReadIsSound, RowIsSound
<1>5. \A h \in Hooks : h \in DOMAIN x.seen => hook[h].enabled
  BY <1>2 DEF Due
<1>. QED
  BY <1>1, <1>3, <1>4, <1>5, ReadingKeepsApart

LEMMA StopKeepsApart ==
  ASSUME FInv, OneScheduler, NEW s \in Schedulers, Fail(s) \/ Crash(s)
  PROVE  RunsAreApart'
<1>1. UNCHANGED <<now, hook, req, overtaken>>
  BY DEF Fail, Crash
<1>2. PICK x : /\ sched' = [sched EXCEPT ![s] = x] /\ x.at \in {"up", "down"}
               /\ x.time = sched[s].time \/ x.time = 1
  <2>1. CASE Fail(s)
    <3>. DEFINE x == [sched[s] EXCEPT !.at = "up", !.seen = Seen({})]
    <3>1. DOMAIN sched[s] = {"at", "seen", "time"}
      BY DEF FInv, PInv, SchedulersKnow, ReadingIsSound
    <3>2. sched' = [sched EXCEPT ![s] = x] /\ x.at = "up" /\ x.time = sched[s].time
      BY <2>1, <3>1 DEF Fail
    <3>. HIDE DEF x
    <3>. QED
      BY <3>2
  <2>2. CASE Crash(s)
    <3>1. sched' = [sched EXCEPT ![s] = Down]
      BY <2>2 DEF Crash
    <3>2. Down.at = "down" /\ Down.time = 1
      BY DEF Down
    <3>. QED
      BY <3>1, <3>2
  <2>. QED
    BY <2>1, <2>2
<1>3. ClockIsSound(x, now)
  BY <1>2 DEF ClockIsSound, FInv, RunsAreApart
<1>4. ASSUME NEW h \in Hooks PROVE LastIsRead(x, hook[h]) /\ ReadIsSound(x, h, hook[h], overtaken[h])
  BY <1>2 DEF LastIsRead, ReadIsSound
<1>. QED
  BY <1>1, <1>2, <1>3, <1>4, ReadingKeepsApart

\* What a scheduler writes: the last run of a hook that fires becomes the time of the tick,
\* and its next run is later.
LEMMA WrittenIsSound ==
  ASSUME FInv, NEW s \in Schedulers, NEW h \in Hooks, h \in Updatable(s), sched[s].at \in {"recalc", "tick"},
         NEW over
  PROVE  /\ RowIsSound(Moved(s, h), over, now) /\ RowIsSound(Fired(s, h), over, now)
         /\ Moved(s, h).last = hook[h].last /\ Fired(s, h).last = sched[s].time
         /\ Moved(s, h).exists = hook[h].exists /\ Fired(s, h).exists = hook[h].exists
<1>. DEFINE t == sched[s].time
            n == NextRun(sched[s].seen[h].trigger, t)
<1>1. sched[s].seen[h].trigger \in Crons
  BY DEF FInv, PInv, SchedulersKnow, ReadingIsSound, Updatable
<1>2. n \in Runs /\ n > t
  BY <1>1, NextRunIsLater DEF Updatable
<1>3. t \in Nat /\ t <= now /\ hook[h].last \in Nat /\ hook[h].last <= t /\ now \in Nat
  BY DEF FInv, RunsAreApart, ClockIsSound, LastIsRead, RowIsSound
<1>4. n \in Nat
  BY <1>2, RunsArePositive
<1>. HIDE DEF n, t
<1>5. DOMAIN hook[h] = RowFields
  BY DEF FInv, PInv, HooksArePlanned, IsRow
<1>6. Moved(s, h) = [hook[h] EXCEPT !.next = n]
  BY DEF Moved, n, t
<1>7. /\ Moved(s, h).next = n /\ Moved(s, h).last = hook[h].last
      /\ Moved(s, h).exists = hook[h].exists /\ DOMAIN Moved(s, h) = RowFields
  BY <1>5, <1>6 DEF RowFields
<1>8. Fired(s, h).next = n /\ Fired(s, h).last = t /\ Fired(s, h).exists = hook[h].exists
  BY <1>7 DEF Fired, t, RowFields
<1>9. RowIsSound(Moved(s, h), over, now)
  <2>1. hook[h].last < n /\ hook[h].last <= now
    BY <1>2, <1>3, <1>4
  <2>. QED
    BY <1>2, <1>3, <1>7, <2>1 DEF RowIsSound
<1>10. RowIsSound(Fired(s, h), over, now)
  BY <1>2, <1>3, <1>4, <1>8 DEF RowIsSound
<1>. QED
  BY <1>7, <1>8, <1>9, <1>10 DEF t

\* The scheduler that has written is up, and nothing of what it has read is left.
LEMMA UpAgain ==
  ASSUME FInv, OneScheduler, NEW s \in Schedulers, sched' = [sched EXCEPT ![s].at = "up", ![s].seen = Seen({})]
  PROVE  \A q \in Schedulers : sched'[q].at = "up" /\ sched'[q].time = sched[q].time
<1>1. DOMAIN sched[s] = {"at", "seen", "time"}
  BY DEF FInv, PInv, SchedulersKnow, ReadingIsSound
<1>2. sched'[s].at = "up" /\ sched'[s].time = sched[s].time
  BY <1>1 DEF FInv, PInv, SchedulersKnow
<1>. QED
  BY <1>2 DEF OneScheduler

LEMMA WriteKeepsApart ==
  ASSUME FInv, OneScheduler, NEW s \in Schedulers, Recalculate(s) \/ TickWrite(s)
  PROVE  RunsAreApart'
<1>1. /\ sched' = [sched EXCEPT ![s].at = "up", ![s].seen = Seen({})] /\ UNCHANGED <<now, req>>
      /\ sched[s].at \in {"recalc", "tick"}
  BY DEF Recalculate, TickWrite
<1>2. \A q \in Schedulers : sched'[q].at = "up" /\ sched'[q].time = sched[q].time
  BY <1>1, UpAgain
<1>3. overtaken' \in [Hooks -> BOOLEAN]
  BY DEF Recalculate, TickWrite, FInv, RunsAreApart
\* Either the row is left alone and has not been overtaken less, or it is written.
<1>4. ASSUME NEW h \in Hooks
      PROVE  \/ hook'[h] = hook[h] /\ (overtaken'[h] = overtaken[h] \/ ~hook[h].exists)
             \/ h \in Updatable(s) /\ hook'[h] = Moved(s, h)
             \/ sched[s].at = "tick" /\ h \in Updatable(s) /\ hook'[h] = Fired(s, h)
  <2>1. CASE Recalculate(s)
    BY <2>1 DEF Recalculate
  <2>2. CASE TickWrite(s)
    <3>1. CASE h \in Updatable(s)
      BY <2>2, <3>1 DEF TickWrite
    <3>2. CASE h \notin Updatable(s)
      <4>1. hook'[h] = hook[h]
        BY <2>2, <3>2 DEF TickWrite
      <4>2. CASE h \in DOMAIN sched[s].seen /\ HasNext(sched[s].seen[h].trigger, sched[s].time)
        BY <3>2, <4>1, <4>2 DEF Updatable
      <4>3. CASE ~(h \in DOMAIN sched[s].seen /\ HasNext(sched[s].seen[h].trigger, sched[s].time))
        <5>1. fires'[h] = fires[h]
          BY <2>2, <4>3 DEF TickWrite
        <5>2. overtaken'[h] = (overtaken[h] /\ fires'[h] = fires[h])
          BY <2>2 DEF TickWrite
        <5>3. CASE overtaken[h] = TRUE
          BY <4>1, <5>1, <5>2, <5>3
        <5>4. CASE overtaken[h] = FALSE
          BY <4>1, <5>1, <5>2, <5>4
        <5>5. overtaken[h] \in BOOLEAN
          BY DEF FInv, RunsAreApart
        <5>. QED
          BY <5>3, <5>4, <5>5
      <4>. QED
        BY <4>2, <4>3
    <3>. QED
      BY <3>1, <3>2
  <2>. QED
    BY <2>1, <2>2
<1>5. ASSUME NEW h \in Hooks PROVE RowIsSound(hook'[h], overtaken'[h], now)
  <2>1. CASE hook'[h] = hook[h] /\ (overtaken'[h] = overtaken[h] \/ ~hook[h].exists)
    BY <2>1 DEF FInv, RunsAreApart, RowIsSound
  <2>2. CASE h \in Updatable(s) /\ hook'[h] \in {Moved(s, h), Fired(s, h)}
    BY <1>1, <2>2, WrittenIsSound
  <2>. QED
    BY <1>4, <2>1, <2>2
<1>6. ASSUME NEW q \in Schedulers, NEW h \in Hooks
      PROVE  LastIsRead(sched'[q], hook'[h]) /\ ReadIsSound(sched'[q], h, hook'[h], overtaken'[h])
  BY <1>2 DEF LastIsRead, ReadIsSound
<1>7. \A q \in Schedulers : ClockIsSound(sched'[q], now)
  BY <1>2 DEF FInv, RunsAreApart, ClockIsSound
<1>8. ASSUME NEW r \in Requests PROVE PlanIsSound(req[r])'
  <2>. DEFINE q == req[r]
  <2>1. SUFFICES ASSUME q.at = "save", q.op # "create", q.op # "update", q.new.next \notin {q.old.next, NoRun}
                 PROVE  /\ hook'[q.hook].last < q.new.next
                        /\ \A p \in Schedulers : NotReadLater(sched'[p], q.hook, q.new.next)
    BY <1>1 DEF FInv, RunsAreApart, PlanIsSound
  <2>2. /\ q.hook \in Hooks
        /\ hook[q.hook].last < q.new.next
        /\ NotReadLater(sched[s], q.hook, q.new.next)
    BY <2>1 DEF FInv, PInv, RequestsKnow, SavingIsSound, RunsAreApart, PlanIsSound
  <2>. DEFINE h == q.hook
              n == q.new.next
  <2>. HIDE DEF q
  <2>3. hook'[h].last < n
    <3>1. CASE hook'[h] = hook[h]
      BY <2>2, <3>1
    <3>2. CASE h \in Updatable(s) /\ hook'[h] = Moved(s, h)
      BY <1>1, <2>2, <3>2, WrittenIsSound
    <3>3. CASE sched[s].at = "tick" /\ h \in Updatable(s) /\ hook'[h] = Fired(s, h)
      <4>1. Fired(s, h).last = sched[s].time
        BY <1>1, <2>2, <3>3, WrittenIsSound
      <4>2. sched[s].time < n
        BY <2>2, <3>3 DEF NotReadLater, Updatable
      <4>. QED
        BY <3>3, <4>1, <4>2
    <3>. QED
      BY <1>4, <2>2, <3>1, <3>2, <3>3
  <2>4. \A p \in Schedulers : NotReadLater(sched'[p], h, n)
    BY <1>2 DEF NotReadLater
  <2>. QED
    BY <2>3, <2>4
<1>. QED
  BY <1>1, <1>3, <1>5, <1>6, <1>7, <1>8 DEF FInv, RunsAreApart

\* A request that has read its row: what it plans is later than all that has run.
LEMMA RememberKeepsApart ==
  ASSUME FInv, NEW r \in Requests, NEW op, NEW h \in Hooks, NEW new, Remember(r, op, h, new),
         new.next \in Runs \cup {NoRun},
         op = "create" => new.last = NoRun,
         op # "create" => new.last = hook[h].last,
         op # "create" /\ new.next \notin {hook[h].next, NoRun} =>
           new.next > now /\ (op = "update" \/ hook[h].enabled = FALSE)
  PROVE  RunsAreApart'
<1>0. PICK x : x = [at |-> "save", op |-> op, hook |-> h, old |-> hook[h], new |-> new]
  OBVIOUS
<1>1. req' = [req EXCEPT ![r] = x] /\ UNCHANGED <<now, hook, sched, overtaken>>
  BY <1>0 DEF Remember
<1>2. x.at = "save" /\ x.op = op /\ x.hook = h /\ x.old = hook[h] /\ x.new = new
  BY <1>0
<1>3. req'[r] = x /\ \A q \in Requests \ {r} : req'[q] = req[q]
  BY <1>1 DEF FInv, PInv, RequestsKnow
<1>4. ASSUME op # "create", new.next \notin {hook[h].next, NoRun}
      PROVE  /\ hook[h].last < new.next
             /\ \A s \in Schedulers : NotReadLater(sched[s], h, new.next)
  <2>1. new.next > now /\ new.next \in Nat
    BY <1>4, RunsArePositive
  <2>2. hook[h].last \in Nat /\ hook[h].last <= now /\ now \in Nat
    BY DEF FInv, RunsAreApart, RowIsSound
  <2>3. \A s \in Schedulers : sched[s].time \in Nat /\ sched[s].time <= now
    BY DEF FInv, RunsAreApart, ClockIsSound
  <2>. QED
    BY <2>1, <2>2, <2>3 DEF NotReadLater
<1>5. PlanIsSound(x)'
  <2>1. hook' = hook /\ sched' = sched
    BY <1>1
  <2>2. PlanIsSound(x)
    BY <1>2, <1>4 DEF PlanIsSound
  <2>. QED
    BY <2>1, <2>2 DEF PlanIsSound
<1>6. ASSUME NEW q \in Requests PROVE PlanIsSound(req[q])'
  <2>1. CASE q = r
    <3>1. req'[q] = x
      BY <1>3, <2>1
    <3>. QED
      BY <1>5, <3>1 DEF PlanIsSound
  <2>2. CASE q # r
    <3>1. req'[q] = req[q] /\ hook' = hook /\ sched' = sched
      BY <1>1, <1>3, <2>2
    <3>2. PlanIsSound(req[q])
      BY DEF FInv, RunsAreApart
    <3>. QED
      BY <3>1, <3>2 DEF PlanIsSound
  <2>. QED
    BY <2>1, <2>2
<1>. QED
  BY <1>1, <1>6 DEF FInv, RunsAreApart

LEMMA CreateKeepsApart ==
  ASSUME FInv, NEW r \in Requests, NEW h \in Hooks, NEW t, NEW en \in BOOLEAN, CreateRead(r, h, t, en)
  PROVE  RunsAreApart'
<1>. DEFINE new == [exists |-> TRUE, enabled |-> en, trigger |-> t,
                    next |-> IF en THEN Planned(t) ELSE NoRun, last |-> NoRun]
<1>1. Remember(r, "create", h, new) /\ (en /\ t \in Crons => HasNext(t, now))
  BY DEF CreateRead
<1>2. new.next \in Runs \cup {NoRun} /\ new.last = NoRun
  BY <1>1, NextRunIsLater DEF Planned
<1>. QED
  BY <1>1, <1>2, RememberKeepsApart

LEMMA ToggleKeepsApart ==
  ASSUME FInv, NEW r \in Requests, NEW h \in Hooks, ToggleRead(r, h)
  PROVE  RunsAreApart'
<1>. DEFINE row == hook[h]
            new == Toggled(row)
            n == IF row.enabled THEN NoRun ELSE IF IsSchedule(row) THEN NextRun(row.trigger, now) ELSE row.next
<1>1. Remember(r, "toggle", h, new) /\ (~row.enabled /\ IsSchedule(row) => HasNext(row.trigger, now))
  BY DEF ToggleRead
<1>2. IsRow(row) /\ row.next \in Runs \cup {NoRun}
  BY DEF FInv, PInv, HooksArePlanned, RunsAreApart, RowIsSound
<1>3. new = [row EXCEPT !.enabled = ~@, !.next = n]
  BY DEF Toggled
<1>4. /\ n \in Runs \cup {NoRun}
      /\ n \notin {row.next, NoRun} => n > now /\ row.enabled = FALSE
  BY <1>1, <1>2, NextRunIsLater DEF IsSchedule, IsRow
<1>. HIDE DEF row, n, new
<1>5. new.next = n /\ new.last = row.last
  BY <1>2, <1>3 DEF IsRow, RowFields
<1>. QED
  BY <1>1, <1>4, <1>5, RememberKeepsApart DEF row

LEMMA UpdateKeepsApart ==
  ASSUME FInv, NEW r \in Requests, NEW h \in Hooks, NEW t, NEW en, UpdateRead(r, h, t, en)
  PROVE  RunsAreApart'
<1>. DEFINE row == hook[h]
            new == Updated(row, t, en)
            trigger == IF t = Keep THEN row.trigger ELSE t
            enabled == IF en = Keep THEN row.enabled ELSE en
            n == IF trigger \notin Crons \/ ~enabled THEN NoRun
                 ELSE IF t # Keep \/ en # Keep THEN NextRun(trigger, now) ELSE row.next
<1>1. /\ Remember(r, "update", h, new)
      /\ trigger \in Crons /\ enabled /\ (t # Keep \/ en # Keep) => HasNext(trigger, now)
  BY DEF UpdateRead
<1>2. IsRow(row) /\ row.next \in Runs \cup {NoRun}
  BY DEF FInv, PInv, HooksArePlanned, RunsAreApart, RowIsSound
<1>3. new = [row EXCEPT !.trigger = trigger, !.enabled = enabled, !.next = n]
  BY DEF Updated
<1>4. n \in Runs \cup {NoRun} /\ (n \notin {row.next, NoRun} => n > now)
  <2>1. CASE trigger \notin Crons \/ ~enabled
    BY <2>1
  <2>2. CASE trigger \in Crons /\ enabled /\ (t # Keep \/ en # Keep)
    <3>1. NextRun(trigger, now) \in Runs /\ NextRun(trigger, now) > now
      BY <1>1, <2>2, NextRunIsLater
    <3>2. n = NextRun(trigger, now)
      BY <2>2
    <3>. QED
      BY <3>1, <3>2
  <2>3. CASE trigger \in Crons /\ enabled /\ ~(t # Keep \/ en # Keep)
    BY <1>2, <2>3
  <2>. QED
    BY <2>1, <2>2, <2>3
<1>. HIDE DEF row, n, new, trigger, enabled
<1>5. new.next = n /\ new.last = row.last
  BY <1>2, <1>3 DEF IsRow, RowFields
<1>. QED
  BY <1>1, <1>4, <1>5, RememberKeepsApart DEF row

\* A row that a request writes: its last run is not later than what any scheduler has read.
LEMMA RowKeepsApart ==
  ASSUME FInv, NEW h \in Hooks, NEW row, NEW over \in BOOLEAN, hook' = [hook EXCEPT ![h] = row],
         overtaken' = [overtaken EXCEPT ![h] = over], UNCHANGED <<now, sched>>,
         \A r \in Requests : req'[r].at # "save",
         RowIsSound(row, over, now), row.last = NoRun \/ row.last = hook[h].last,
         row.exists /\ ~over => row.last = NoRun \/ (hook[h].exists /\ ~overtaken[h])
  PROVE  RunsAreApart'
<1>1. /\ hook'[h] = row /\ overtaken'[h] = over /\ overtaken' \in [Hooks -> BOOLEAN]
      /\ \A g \in Hooks \ {h} : hook'[g] = hook[g] /\ overtaken'[g] = overtaken[g]
  BY DEF FInv, PInv, HooksArePlanned, RunsAreApart
<1>2. ASSUME NEW g \in Hooks PROVE RowIsSound(hook'[g], overtaken'[g], now)
  <2>1. CASE g = h
    BY <1>1, <2>1
  <2>2. CASE g # h
    BY <1>1, <2>2 DEF FInv, RunsAreApart
  <2>. QED
    BY <2>1, <2>2
<1>3. ASSUME NEW s \in Schedulers, NEW g \in Hooks
      PROVE  LastIsRead(sched[s], hook'[g]) /\ ReadIsSound(sched[s], g, hook'[g], overtaken'[g])
  <2>1. LastIsRead(sched[s], hook[g]) /\ ReadIsSound(sched[s], g, hook[g], overtaken[g])
    BY DEF FInv, RunsAreApart
  <2>2. CASE g = h
    <3>1. sched[s].time \in Nat
      BY DEF FInv, RunsAreApart, ClockIsSound
    <3>2. LastIsRead(sched[s], row)
      BY <2>1, <2>2, <3>1 DEF LastIsRead, NoRun
    <3>3. ReadIsSound(sched[s], h, row, over)
      <4>. DEFINE n == sched[s].seen[h].next
      <4>1. SUFFICES ASSUME sched[s].at = "tick", h \in DOMAIN sched[s].seen
                     PROVE  n \in Runs /\ n <= sched[s].time /\ (row.exists /\ ~over => row.last < n)
        BY DEF ReadIsSound
      <4>2. n \in Runs /\ n <= sched[s].time /\ (hook[h].exists /\ ~overtaken[h] => hook[h].last < n)
        BY <2>1, <2>2, <4>1 DEF ReadIsSound
      <4>3. ASSUME row.exists, ~over PROVE row.last < n
        <5>1. CASE row.last = NoRun
          <6>1. n \in Nat \ {0}
            BY <4>2, RunsArePositive
          <6>2. row.last = 0
            BY <5>1 DEF NoRun
          <6>. QED
            BY <6>1, <6>2
        <5>2. CASE row.last # NoRun
          BY <4>2, <4>3, <5>2
        <5>. QED
          BY <5>1, <5>2
      <4>. QED
        BY <4>2, <4>3
    <3>. QED
      BY <1>1, <2>2, <3>2, <3>3
  <2>3. CASE g # h
    BY <1>1, <2>1, <2>3
  <2>. QED
    BY <2>2, <2>3
<1>4. \A r \in Requests : PlanIsSound(req[r])'
  BY DEF PlanIsSound
<1>. QED
  BY <1>1, <1>2, <1>3, <1>4 DEF FInv, RunsAreApart

LEMMA SaveKeepsApart == ASSUME FInv, OneAtATime, NEW r \in Requests, Save(r) PROVE RunsAreApart'
<1>. DEFINE q == req[r]
            h == q.hook
            cur == hook[h]
            row == IF q.op = "create" THEN q.new
                   ELSE IF ~cur.exists THEN cur ELSE Saved(q.old, q.new, cur)
            over == overtaken[h] \/ (q.op = "update" /\ q.old.last # cur.last)
<1>1. q.at = "save" /\ req' = [req EXCEPT ![r] = IdleRequest] /\ UNCHANGED <<now, sched>>
  BY DEF Save
<1>2. h \in Hooks /\ (q.op # "create" => OnlyPlanned(q.old, cur))
  BY <1>1 DEF FInv, PInv, RequestsKnow, SavingIsSound
<1>3. hook' = [hook EXCEPT ![h] = row]
  BY <1>2 DEF Save, FInv, PInv, HooksArePlanned
<1>4. overtaken' = [overtaken EXCEPT ![h] = over]
  BY DEF Save
<1>5. over \in BOOLEAN
  BY <1>2 DEF FInv, RunsAreApart
<1>6. \A p \in Requests : req'[p].at # "save"
  BY <1>1 DEF FInv, PInv, RequestsKnow, OneAtATime, IdleRequest
<1>7. RowIsSound(cur, overtaken[h], now)
  BY <1>2 DEF FInv, RunsAreApart
<1>8. PlanIsSound(q)
  BY DEF FInv, RunsAreApart
<1>9. overtaken[h] \in BOOLEAN /\ (~over => ~overtaken[h])
  BY <1>2 DEF FInv, RunsAreApart
<1>10. /\ RowIsSound(row, over, now)
       /\ row.last = NoRun \/ row.last = cur.last
       /\ row.exists /\ ~over => row.last = NoRun \/ (cur.exists /\ ~overtaken[h])
  <2>1. CASE q.op = "create"
    <3>1. row = q.new /\ row.next \in Runs \cup {NoRun} /\ row.last = NoRun
      BY <1>1, <1>8, <2>1 DEF PlanIsSound
    <3>2. 0 <= now
      BY DEF FInv, RunsAreApart
    <3>. HIDE DEF row, over
    <3>3. row.last \in Nat /\ row.last <= now
      BY <3>1, <3>2 DEF NoRun
    <3>4. ASSUME row.next # NoRun PROVE row.last < row.next
      <4>1. row.next \in Nat \ {0}
        BY <3>1, <3>4, RunsArePositive
      <4>2. row.last = 0
        BY <3>1 DEF NoRun
      <4>. QED
        BY <4>1, <4>2
    <3>5. RowIsSound(row, over, now)
      BY <3>1, <3>3, <3>4 DEF RowIsSound
    <3>. QED
      BY <3>1, <3>5
  <2>2. CASE q.op # "create" /\ ~cur.exists
    <3>1. row = cur
      BY <2>2
    <3>. HIDE DEF row, over
    <3>. QED
      BY <1>7, <1>9, <2>2, <3>1 DEF RowIsSound
  <2>3. CASE q.op # "create" /\ cur.exists
    <3>1. row = Saved(q.old, q.new, cur) /\ IsRow(cur)
      BY <1>2, <2>3 DEF FInv, PInv, HooksArePlanned
    <3>2. q.new.last = q.old.last /\ q.new.next \in Runs \cup {NoRun}
      BY <1>1, <1>8, <2>3 DEF PlanIsSound
    <3>3. /\ row.last = cur.last
          /\ row.next = IF q.new.next # q.old.next THEN q.new.next ELSE cur.next
      BY <3>1, <3>2 DEF IsRow, RowFields, Saved
    <3>4. ASSUME ~over, row.next # NoRun PROVE row.last < row.next
      <4>1. CASE q.new.next = q.old.next
        <5>1. row.next = cur.next /\ row.last = cur.last
          BY <3>3, <4>1
        <5>. QED
          BY <1>7, <1>9, <2>3, <3>4, <5>1 DEF RowIsSound
      <4>2. CASE q.new.next # q.old.next
        <5>1. row.next = q.new.next /\ q.new.next \notin {q.old.next, NoRun}
          BY <3>3, <3>4, <4>2
        <5>2. IF q.op = "update" THEN q.old.last < q.new.next ELSE cur.last < q.new.next
          BY <1>1, <1>8, <2>3, <5>1 DEF PlanIsSound
        <5>3. q.op = "update" => q.old.last = cur.last
          BY <3>4
        <5>. QED
          BY <3>3, <5>1, <5>2, <5>3
      <4>. QED
        BY <4>1, <4>2
    <3>. HIDE DEF row, over
    <3>5. RowIsSound(row, over, now)
      BY <1>7, <3>2, <3>3, <3>4 DEF RowIsSound
    <3>. QED
      BY <1>9, <2>3, <3>3, <3>5
  <2>. QED
    BY <2>1, <2>2, <2>3
<1>. HIDE DEF row, over, h
<1>. QED
  BY <1>1, <1>2, <1>3, <1>4, <1>5, <1>6, <1>10, RowKeepsApart

LEMMA DeleteKeepsApart == ASSUME FInv, OneAtATime, NEW r \in Requests, NEW h \in Hooks, Delete(r, h) PROVE RunsAreApart'
<1>0. PICK row : row = [hook[h] EXCEPT !.exists = FALSE]
  OBVIOUS
<1>1. hook' = [hook EXCEPT ![h] = row] /\ UNCHANGED <<now, req, sched, overtaken>> /\ req[r].at = "idle"
  BY <1>0 DEF Delete, Receive
<1>2. IsRow(hook[h]) /\ RowIsSound(hook[h], overtaken[h], now)
  BY DEF FInv, PInv, HooksArePlanned, RunsAreApart
<1>3. row.exists = FALSE /\ row.last = hook[h].last /\ row.next = hook[h].next
  BY <1>0, <1>2 DEF IsRow, RowFields
<1>4. PICK over \in BOOLEAN : over = overtaken[h] /\ overtaken' = [overtaken EXCEPT ![h] = over]
  BY <1>1 DEF FInv, RunsAreApart
<1>5. \A p \in Requests : req'[p].at # "save"
  BY <1>1 DEF OneAtATime
<1>6. RowIsSound(row, over, now)
  BY <1>2, <1>3, <1>4 DEF RowIsSound
<1>7. /\ row.last = NoRun \/ row.last = hook[h].last
      /\ row.exists /\ ~over => row.last = NoRun \/ (hook[h].exists /\ ~overtaken[h])
  BY <1>3
<1>8. hook' = [hook EXCEPT ![h] = row] /\ UNCHANGED <<now, sched>>
  BY <1>1
<1>9. overtaken' = [overtaken EXCEPT ![h] = over]
  BY <1>4
<1>. QED
  BY <1>5, <1>6, <1>7, <1>8, <1>9, RowKeepsApart

LEMMA ElsewhereKeepsApart ==
  ASSUME FInv, UNCHANGED <<now, hook, sched, req, overtaken>>
  PROVE  RunsAreApart'
<1>1. \A r \in Requests : PlanIsSound(req[r])'
  BY DEF FInv, RunsAreApart, PlanIsSound
<1>. QED
  BY <1>1 DEF FInv, RunsAreApart

LEMMA InitIsApart == SchedulerInit => RunsAreApart
<1>. SUFFICES ASSUME SchedulerInit PROVE RunsAreApart
  OBVIOUS
<1>1. now = 1 /\ overtaken = [h \in Hooks |-> FALSE] /\ sched = [s \in Schedulers |-> Down] /\ req = [r \in Requests |-> IdleRequest]
  BY DEF SchedulerInit
<1>2. ASSUME NEW h \in Hooks PROVE RowIsSound(hook[h], overtaken[h], now)
  <2>. DEFINE Planning(c) == [exists |-> TRUE, enabled |-> TRUE, trigger |-> c, next |-> NextRun(c, 1), last |-> NoRun]
  <2>1. hook[h] \in {Absent} \cup {Planning(c) : c \in {d \in Crons : HasNext(d, 1)}}
    BY DEF SchedulerInit
  <2>2. RowIsSound(Absent, FALSE, 1)
    BY DEF RowIsSound, Absent, NoRun
  <2>3. ASSUME NEW c \in Crons, HasNext(c, 1) PROVE RowIsSound(Planning(c), FALSE, 1)
    <3>1. NextRun(c, 1) \in Runs /\ NextRun(c, 1) \in Nat \ {0}
      BY <2>3, NextRunIsLater, RunsArePositive
    <3>2. Planning(c).next = NextRun(c, 1) /\ Planning(c).last = 0
      BY DEF NoRun
    <3>. HIDE DEF Planning
    <3>. QED
      BY <3>1, <3>2 DEF RowIsSound, NoRun
  <2>. HIDE DEF Planning
  <2>. QED
    BY <1>1, <2>1, <2>2, <2>3
<1>3. ASSUME NEW s \in Schedulers PROVE sched[s].at = "down" /\ sched[s].time = 1
  BY <1>1 DEF Down
<1>4. \A r \in Requests : req[r].at = "idle"
  BY <1>1 DEF IdleRequest
<1>5. \A s \in Schedulers, h \in Hooks : LastIsRead(sched[s], hook[h]) /\ ReadIsSound(sched[s], h, hook[h], overtaken[h])
  BY <1>3 DEF LastIsRead, ReadIsSound
<1>6. \A s \in Schedulers : ClockIsSound(sched[s], now)
  BY <1>1, <1>3 DEF ClockIsSound
<1>7. \A r \in Requests : PlanIsSound(req[r])
  BY <1>4 DEF PlanIsSound
<1>8. now \in Nat \ {0} /\ overtaken \in [Hooks -> BOOLEAN]
  BY <1>1
<1>. QED
  BY <1>2, <1>5, <1>6, <1>7, <1>8 DEF RunsAreApart

LEMMA NextKeepsApart == ASSUME OneAtATime, OneScheduler, FInv, [SchedulerNext]_schedulerVars PROVE FInv'
<1>1. PInv'
  BY NextKeepsPlans DEF FInv
<1>2. CASE UNCHANGED schedulerVars
  BY <1>1, <1>2, ElsewhereKeepsApart DEF schedulerVars, FInv
<1>3. CASE Advance
  BY <1>1, <1>3, AdvanceKeepsApart DEF FInv
<1>4. ASSUME NEW s \in Schedulers, Tick(s) \/ Fail(s) \/ Crash(s) PROVE FInv'
  BY <1>1, <1>4, StartKeepsApart, TickReadKeepsApart, WriteKeepsApart, StopKeepsApart DEF Tick, FInv
<1>5. ASSUME NEW r \in Requests, Request(r) PROVE FInv'
  <2>1. CASE Save(r)
    BY <1>1, <2>1, SaveKeepsApart DEF FInv
  <2>2. ASSUME NEW h \in Hooks, ToggleRead(r, h) \/ Delete(r, h) PROVE FInv'
    BY <1>1, <2>2, ToggleKeepsApart, DeleteKeepsApart DEF FInv
  <2>3. ASSUME NEW h \in Hooks, TriggerHook(r, h) PROVE FInv'
    BY <1>1, <2>3, ElsewhereKeepsApart DEF TriggerHook, FInv
  <2>4. ASSUME NEW h \in Hooks, NEW t \in Crons \cup {Event}, NEW en \in BOOLEAN, CreateRead(r, h, t, en) PROVE FInv'
    BY <1>1, <2>4, CreateKeepsApart DEF FInv
  <2>5. ASSUME NEW h \in Hooks, NEW t \in Crons \cup {Event, Keep}, NEW en \in BOOLEAN \cup {Keep},
               UpdateRead(r, h, t, en)
        PROVE  FInv'
    BY <1>1, <2>5, UpdateKeepsApart DEF FInv
  <2>. QED
    BY <1>5, <2>1, <2>2, <2>3, <2>4, <2>5 DEF Request
<1>. QED
  BY <1>2, <1>3, <1>4, <1>5 DEF SchedulerNext

\* What a tick enqueues is for a minute that has come since the hook ran last.
LEMMA TickWriteFiresOnce ==
  ASSUME FInv, NEW s \in Schedulers, TickWrite(s), NEW h \in Hooks, fires'[h] # fires[h], hook[h].exists
  PROVE  overtaken[h] \/ \E m \in Runs : hook[h].last < m /\ m <= hook'[h].last
<1>1. sched[s].at = "tick" /\ h \in DOMAIN sched[s].seen /\ h \in Updatable(s)
  BY DEF TickWrite, Updatable
<1>2. hook'[h] = Fired(s, h)
  BY <1>1 DEF TickWrite
<1>3. Fired(s, h).last = sched[s].time
  BY <1>1, WrittenIsSound
<1>4. ReadIsSound(sched[s], h, hook[h], overtaken[h])
  BY DEF FInv, RunsAreApart
<1>. QED
  BY <1>1, <1>2, <1>3, <1>4 DEF ReadIsSound

\* With one scheduler and one request at a time, and whatever fails or dies in between, a
\* hook never runs twice for the same minute of its schedule: the moved next_run_at and the
\* job are written in one transaction.
THEOREM NoDoubleFireHolds == ASSUME OneAtATime, OneScheduler PROVE SchedulerSpec => NoDoubleFire
<1>1. FInv /\ [SchedulerNext]_schedulerVars =>
        [\A h \in Hooks : fires'[h] # fires[h] /\ hook[h].exists =>
            \/ overtaken[h]
            \/ \E m \in Runs : hook[h].last < m /\ m <= hook'[h].last]_schedulerVars
  <2>. SUFFICES ASSUME FInv, SchedulerNext, NEW h \in Hooks, fires'[h] # fires[h], hook[h].exists
                PROVE  overtaken[h] \/ \E m \in Runs : hook[h].last < m /\ m <= hook'[h].last
    OBVIOUS
  <2>1. \E s \in Schedulers : TickWrite(s)
    <3>1. ~Advance
      BY DEF Advance
    <3>2. ASSUME NEW s \in Schedulers, Start(s) \/ Recalculate(s) \/ TickRead(s) \/ Fail(s) \/ Crash(s) PROVE FALSE
      BY <3>2 DEF Start, Recalculate, TickRead, Fail, Crash
    <3>3. ASSUME NEW r \in Requests, Request(r) PROVE FALSE
      BY <3>3 DEF Request, Save, ToggleRead, Delete, TriggerHook, CreateRead, UpdateRead, Remember
    <3>. QED
      BY <3>1, <3>2, <3>3 DEF SchedulerNext, Tick
  <2>. QED
    BY <2>1, TickWriteFiresOnce
<1>2. SchedulerInit => FInv
  BY InitIsSound, InitIsApart DEF FInv
<1>3. FInv /\ [SchedulerNext]_schedulerVars => FInv'
  BY NextKeepsApart
<1>. QED
  BY <1>1, <1>2, <1>3, PTL DEF SchedulerSpec, NoDoubleFire

=============================================================================
