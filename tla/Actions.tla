------------------------------ MODULE Actions ------------------------------
(***************************************************************************)
(* The action lists that API-defined hooks and custom endpoints execute:   *)
(* infrastructure/hooks/action_executor.py and                             *)
(* infrastructure/endpoints/endpoint_executor.py.  An action is its type;  *)
(* its URL, body, payload and templates are abstracted.  What is kept is   *)
(* the order of the list, which action fails, which one has taken effect   *)
(* although it failed, and what is counted.                                *)
(*                                                                         *)
(* Every caller starts at depth 0 and no action starts another list, so    *)
(* the depth guard of both executors never refuses and is left out.        *)
(***************************************************************************)
EXTENDS Naturals, Sequences

\* A request to another system: its failure does not say whether the other
\* side acted.
OutsideKinds == {"send_webhook"}

\* These import what does not exist, get_email_service of services.email_service
\* (dependencies has it) and persistence.repositories.records_repository (the
\* class lives in record_repository): they always fail, before any effect.
BrokenKinds == {"send_email", "create_record", "update_record", "delete_record"}
QueryKinds == {"query_records"}

\* These only compute an answer.
AnswerKinds == {"aggregate_records", "transform"}

\* A row of jobs, committed in a session of its own.
QueueKinds == {"enqueue_job"}

\* The kinds that are meant to change something, and those that can.
EffectKinds == OutsideKinds \cup QueueKinds \cup BrokenKinds
ActingKinds == OutsideKinds \cup QueueKinds

\* Each executor has a table of its own.
KnownToHooks == EffectKinds
KnownToEndpoints == EffectKinds \cup QueryKinds \cup AnswerKinds

\* Any other type is like "unlisted".
Kinds == KnownToEndpoints \cup {"unlisted"}

Done == [ok |-> TRUE, effect |-> TRUE]
Answered == [ok |-> TRUE, effect |-> FALSE]
Refused == [ok |-> FALSE, effect |-> FALSE]
Unsure == [ok |-> FALSE, effect |-> TRUE]

\* How one action can end: whether it returned, and whether it took effect.
Outcomes(kind) ==
    CASE kind \in OutsideKinds -> {Done, Unsure, Refused}
      [] kind \in QueueKinds   -> {Done, Refused}
      [] kind \in AnswerKinds  -> {Answered, Refused}
      [] OTHER                 -> {Refused}

(***************************************************************************)
(* A run of a list.  next is the action to execute; an endpoint has        *)
(* appended next - 1 results to ctx.action_results.                        *)
(***************************************************************************)
PhaseAt(actions, next) == IF next > Len(actions) THEN "acted" ELSE "acting"

NewRun(of, actions) ==
    [of |-> of, actions |-> actions, next |-> 1, executed |-> 0,
     error |-> FALSE, phase |-> PhaseAt(actions, 1)]

\* A type the executor does not know is passed over and not counted.
Skip(r) == [r EXCEPT !.next = @ + 1, !.phase = PhaseAt(r.actions, r.next + 1)]

Succeed(r) == [Skip(r) EXCEPT !.executed = @ + 1]

\* Faulty variant: a failure is noted and the list goes on.
FailOnly(r) == [Skip(r) EXCEPT !.error = TRUE]

\* The first failure ends the list.
Fail(r) == [r EXCEPT !.error = TRUE, !.phase = "acted"]

\* wait_for gives up: what is counted is the number of results.
TimeOut(r) == [r EXCEPT !.error = TRUE, !.executed = r.next - 1, !.phase = "acted"]

\* The status written to hook_executions and endpoint_executions.
Status(r) ==
    IF ~r.error THEN "success"
    ELSE IF r.executed > 0 THEN "partial" ELSE "failed"
=============================================================================
