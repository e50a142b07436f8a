------------------------------ MODULE JobLease ------------------------------
(***************************************************************************)
(* What the job queue promises its handlers, without tables, timestamps or *)
(* attempt counters: a job that was offered is leased to runners until one *)
(* of them settles it.  A lease that expires while its runner is alive is  *)
(* broken, and nothing is promised of a broken job any more.  JobQueue     *)
(* implements this module; the modules whose handlers run as jobs build on *)
(* it.                                                                     *)
(***************************************************************************)
CONSTANTS
  Jobs,      \* the jobs
  Workers    \* their runners

VARIABLES
  phase,     \* phase[j]: where j stands
  runners,   \* runners[j]: the workers executing j, or about to report on it
  broken     \* jobs whose lease expired under a live runner

leaseVars == <<phase, runners, broken>>

Phase == {"none", "queued", "leased", "done", "dead", "gone"}

LeaseTypeOK ==
  /\ phase \in [Jobs -> Phase]
  /\ runners \in [Jobs -> SUBSET Workers]
  /\ broken \subseteq Jobs

LeaseInit ==
  /\ phase = [j \in Jobs |-> "none"]
  /\ runners = [j \in Jobs |-> {}]
  /\ broken = {}

\* A producer enqueues j.
Offer(j) ==
  /\ phase[j] = "none"
  /\ phase' = [phase EXCEPT ![j] = "queued"]
  /\ UNCHANGED <<runners, broken>>

\* An unoccupied worker takes j.
Lease(j, w) ==
  /\ phase[j] = "queued"
  /\ \A k \in Jobs : w \notin runners[k]
  /\ phase' = [phase EXCEPT ![j] = "leased"]
  /\ runners' = [runners EXCEPT ![j] = @ \cup {w}]
  /\ UNCHANGED broken

\* A runner reports: done, dead, or to be executed again.
Settle(j, w, outcome) ==
  /\ w \in runners[j]
  /\ phase' = [phase EXCEPT ![j] = IF @ = "gone" THEN "gone" ELSE outcome]
  /\ runners' = [runners EXCEPT ![j] = @ \ {w}]
  /\ UNCHANGED broken

\* A runner vanishes without a report.
Drop(j, w) ==
  /\ w \in runners[j]
  /\ runners' = [runners EXCEPT ![j] = @ \ {w}]
  /\ UNCHANGED <<phase, broken>>

\* The leases of the jobs in S run out.
Expire(S) ==
  /\ \A j \in S : phase[j] = "leased"
  /\ phase' = [j \in Jobs |-> IF j \in S THEN "queued" ELSE phase[j]]
  /\ broken' = broken \cup {j \in S : runners[j] # {}}
  /\ UNCHANGED runners

\* An administrator offers a dead job again.
Revive(j) ==
  /\ phase[j] = "dead"
  /\ phase' = [phase EXCEPT ![j] = "queued"]
  /\ UNCHANGED <<runners, broken>>

\* Jobs are deleted; a job that was never offered is not.
Remove(S) ==
  /\ \A j \in S : phase[j] # "none"
  /\ phase' = [j \in Jobs |-> IF j \in S THEN "gone" ELSE phase[j]]
  /\ UNCHANGED <<runners, broken>>

LeaseNext ==
  \/ \E j \in Jobs : Offer(j) \/ Revive(j)
  \/ \E j \in Jobs, w \in Workers :
        \/ Lease(j, w) \/ Drop(j, w)
        \/ \E outcome \in {"queued", "done", "dead"} : Settle(j, w, outcome)
  \/ \E S \in SUBSET Jobs : Expire(S) \/ Remove(S)

LeaseSpec == LeaseInit /\ [][LeaseNext]_leaseVars

-----------------------------------------------------------------------------
\* A worker is occupied with one job at a time.
OneJobEach == \A j, k \in Jobs : runners[j] \cap runners[k] # {} => j = k

\* A job has one runner at a time, unless its lease was broken.
ExclusiveLease ==
  \A j \in Jobs \ broken : \A v, w \in runners[j] : v = w

\* A job that is executed is leased, or was deleted under its runner.
RunnersHoldLease ==
  \A j \in Jobs \ broken : runners[j] # {} => phase[j] \in {"leased", "gone"}
=============================================================================
