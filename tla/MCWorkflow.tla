----------------------------- MODULE MCWorkflow -----------------------------
(* Small instances of Workflow for TLC.  A definition of a workflow is the  *)
(* order of its steps, their types and their edges.                         *)
EXTENDS Workflow, TLC

CONSTANTS t1, t2, w1, r1, r2, r3, pay, delay, check, ship, stop

MCNone == [s \in StepNames |-> NoStep]

\* pay; delay, then check; then the end, or a step nobody has, which is the end as well.
MCChain ==
  <<[order   |-> <<pay, delay, check>>,
     type    |-> (delay :> "wait") @@ (check :> "condition") @@ (ship :> "skip")
                 @@ [s \in StepNames |-> "action"],
     next    |-> (delay :> check) @@ MCNone,
     onTrue  |-> MCNone,
     onFalse |-> (check :> stop) @@ MCNone]>>

\* The same, and an edit that removes the step an instance may be waiting for.
MCEdited == MCChain \o <<[MCChain[1] EXCEPT !.order = <<pay, ship>>]>>

CONSTANT MaxTroubles   \* bound: mishaps, manual resumes and edits together

MCNext == Next /\ mishaps' + manualResumes' + edits' <= MaxTroubles
MCSpec == Init /\ [][MCNext]_vars /\ Fairness
=============================================================================
