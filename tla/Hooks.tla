------------------------------- MODULE Hooks -------------------------------
(***************************************************************************)
(* The hook registry (core/hooks) while records are written, and the       *)
(* API-defined hooks that the registry starts (infrastructure/hooks).      *)
(*                                                                         *)
(* A record write triggers ON_RECORD_AFTER_... inside its transaction.     *)
(* The registry runs the callbacks one after the other; each await lets    *)
(* other requests run, register or unregister.  The dispatcher of          *)
(* API-defined hooks starts a task of its own, which reads the hook rows   *)
(* and executes their actions in sessions of their own, whatever becomes   *)
(* of the write.                                                           *)
(*                                                                         *)
(* The details of a row's own life (creation, PUT, schedules) are in       *)
(* Scheduler; webhooks are in WebhookDelivery and workflows in Workflow,   *)
(* so their callbacks only pass the data on here.                          *)
(***************************************************************************)
EXTENDS Actions, Integers, FiniteSets

CONSTANTS
    Writers,            \* record writes
    Managers,           \* requests that trigger a hook by hand
    Callers,            \* requests to custom endpoints, see Endpoints
    Rows,               \* API-defined hooks
    Customs,            \* callbacks registered by the application
    CustomHook,         \* [Customs -> the hook to register]
    Events,             \* events a write triggers
    Collections,
    AnyCollection,
    Lists,              \* action lists of hooks and endpoints
    NoRow,
    NoRun,
    Ended,              \* the run of a request that has been answered
    MaxRegistrations    \* bound: registrations after the start

\* RegisteredHook: does stands for what the callback does.
Hook == [id : Customs \cup {"audit", "webhook", "api", "workflow"}, event : Events,
         coll : Collections \cup {AnyCollection}, prio : Int, stop : BOOLEAN, builtin : BOOLEAN,
         does : {"audit", "api", "pass", "raise", "abort", "replace"}, order : Nat]

ASSUME HooksAssumption ==
    /\ CustomHook \in [Customs -> Hook]
    /\ \A c \in Customs : /\ CustomHook[c].id = c
                          /\ CustomHook[c].does \in {"pass", "raise", "abort", "replace"}
    /\ Writers \cap Managers = {} /\ Writers \cap Callers = {} /\ Managers \cap Callers = {}
    /\ Lists \subseteq Seq(Kinds)
    /\ MaxRegistrations \in Nat

VARIABLES
    registry,   \* the registered hooks
    counter,    \* the number of the last registration
    auditing,   \* the setting audit_logging_enabled, read once by a process
    writes,     \* Writers -> a write and its chain of callbacks
    rows,       \* Rows -> row of hooks, or NoRow
    tasks,      \* Writers -> the background task of the write
    run,        \* Writers, Managers, Callers -> the run in progress, or NoRun
    effects,    \* what has left the process or been committed by an action
    logs,       \* rows of hook_executions and endpoint_executions
    stops       \* number of times the server has stopped

registryVars == <<registry, counter, auditing>>
hookVars == <<registryVars, writes, rows, tasks, run, effects, logs, stops>>

Runners == Writers \cup Managers \cup Callers

(***************************************************************************)
(* Registry                                                                *)
(***************************************************************************)
\* Callbacks registered at startup, in the order of their modules.  Only hooks
\* of one event are compared, so the numbers are those among one event's.
AuditHook(e) == [id |-> "audit", event |-> e, coll |-> AnyCollection, prio |-> 100,
                 stop |-> FALSE, builtin |-> TRUE, does |-> "audit", order |-> 1]
WebhookHook(e) == [id |-> "webhook", event |-> e, coll |-> AnyCollection, prio |-> 200,
                   stop |-> FALSE, builtin |-> FALSE, does |-> "pass", order |-> 2]
ApiHook(e) == [id |-> "api", event |-> e, coll |-> AnyCollection, prio |-> 300,
               stop |-> FALSE, builtin |-> FALSE, does |-> "api", order |-> 3]
WorkflowHook(e) == [id |-> "workflow", event |-> e, coll |-> AnyCollection, prio |-> 400,
                    stop |-> FALSE, builtin |-> FALSE, does |-> "pass", order |-> 4]

AtStartup(e) == {AuditHook(e), WebhookHook(e), ApiHook(e), WorkflowHook(e)}
Startup == UNION {AtStartup(e) : e \in Events}
StartupCount == 4

\* The decorators register the callback for their event, with the collection
\* as a filter if one is named.
Decorated(c) == CustomHook[c]

\* HookRegistry.register numbers the hook.
Numbered(h) == [h EXCEPT !.order = counter + 1]

Register(c) ==
    /\ \A h \in registry : h.id # c
    /\ counter < StartupCount + MaxRegistrations
    /\ registry' = registry \cup {Numbered(Decorated(c))}
    /\ counter' = counter + 1
    /\ UNCHANGED <<auditing, writes, rows, tasks, run, effects, logs, stops>>

\* A built-in hook cannot be unregistered.
Removable(h) == ~h.builtin

\* A trigger under way keeps its own list.
Unregister(h) ==
    /\ h \in registry /\ Removable(h)
    /\ registry' = registry \ {h}
    /\ UNCHANGED <<counter, auditing, writes, rows, tasks, run, effects, logs, stops>>

\* Every hook that is not built in, the dispatchers included.
Clear ==
    /\ registry' = {h \in registry : ~Removable(h)}
    /\ registry' # registry
    /\ UNCHANGED <<counter, auditing, writes, rows, tasks, run, effects, logs, stops>>

\* _filter_hooks: the record repository passes no filters, and then every
\* hook matches, the ones with a collection of their own included.
NoFilters == [given |-> FALSE, coll |-> AnyCollection]
Matches(h, filters) ==
    \/ ~filters.given
    \/ h.coll = AnyCollection
    \/ h.coll = filters.coll

\* The hooks to run; a later change of the registry does not reach them.
Chain(e, filters) == {h \in registry : h.event = e /\ Matches(h, filters)}

\* sorted by (-priority, registration_order).
Earlier(g, h) == g.prio > h.prio \/ (g.prio = h.prio /\ g.order < h.order)
IsFirst(h, chain) == h \in chain /\ \A g \in chain \ {h} : Earlier(h, g)

(***************************************************************************)
(* A write and its chain of callbacks                                      *)
(***************************************************************************)
Idle == [phase |-> "idle", event |-> "none", coll |-> AnyCollection, user |-> FALSE,
         chain |-> {}, bare |-> FALSE, ran |-> {}, audited |-> FALSE]

NoTask == [phase |-> "none", event |-> "none", coll |-> AnyCollection, user |-> FALSE,
           todo |-> {}, due |-> {}]

\* The row is written, the event triggered.  user: the request is authenticated,
\* and then its context has a user and an account.
StartWrite(w, e, c, user) ==
    /\ writes[w].phase = "idle"
    /\ writes' = [writes EXCEPT ![w] =
           [Idle EXCEPT !.phase = "chain", !.event = e, !.coll = c, !.user = user,
                        !.chain = Chain(e, NoFilters)]]
    /\ UNCHANGED <<registryVars, rows, tasks, run, effects, logs, stops>>

\* Faulty variant: any error ends the chain.
EndsAlways(h) == TRUE

\* An error ends the chain only for a hook registered with stop_on_error.
EndsChain(h) == h.stop

\* list_event_hooks_for_account.
Listed(e, c) ==
    {r \in Rows : /\ rows[r] # NoRow
                  /\ rows[r].enabled
                  /\ rows[r].event = e
                  /\ rows[r].coll \in {AnyCollection, c}}

\* How the audit hook can end with write x: it needs the log switched on, the
\* record in the data and a user, and swallows the errors of the audit service.
AuditEnds(x) ==
    CASE ~auditing -> {"switched off"}
      [] x.bare    -> {"returned"}
      [] ~x.user   -> {"no user"}
      [] OTHER     -> {"recorded", "service failed"}

\* How callback h of the chain of x can end.
Ends(x, h) ==
    CASE h.does = "audit"              -> AuditEnds(x)
      [] h.does \in {"raise", "abort"} -> {h.does}
      [] OTHER                         -> {"returned"}

\* The task a dispatcher starts, unless the data names no record.
Dispatched(w) ==
    [NoTask EXCEPT !.phase = "queued", !.event = writes[w].event, !.coll = writes[w].coll,
                   !.user = writes[w].user,
                   !.due = Listed(writes[w].event, writes[w].coll)]

IsOver(h) == h.does = "abort" \/ (h.does = "raise" /\ EndsChain(h))

\* A write after its callback h: a dict that it returned replaces the data of
\* the next ones.
Called(x, h, end) ==
    [x EXCEPT !.chain = IF IsOver(h) THEN {} ELSE @ \ {h},
              !.bare = @ \/ h.does = "replace",
              !.audited = @ \/ end = "recorded",
              !.ran = @ \cup {[hook |-> h.id, end |-> end]}]

\* One callback of the chain: _execute_hook and what trigger does with its
\* result.  An abort ends the chain, and so does an error of a hook that
\* stops on errors; nobody reads the result of the trigger.
RunCallback(w) ==
    LET x == writes[w] IN
    /\ x.phase = "chain"
    /\ \E h \in x.chain :
         /\ IsFirst(h, x.chain)
         /\ \E end \in Ends(x, h) : writes' = [writes EXCEPT ![w] = Called(x, h, end)]
         /\ tasks' = IF h.does = "api" /\ ~x.bare
                     THEN [tasks EXCEPT ![w] = Dispatched(w)] ELSE tasks
    /\ UNCHANGED <<registryVars, rows, run, effects, logs, stops>>

\* The request commits, or fails after the write and rolls back: the audit
\* entry goes with it, the task does not.
EndWrite(w) ==
    /\ writes[w].phase = "chain"
    /\ writes[w].chain = {}
    /\ \E end \in {"committed", "undone"} :
         writes' = [writes EXCEPT ![w].phase = end]
    /\ UNCHANGED <<registryVars, rows, tasks, run, effects, logs, stops>>

(***************************************************************************)
(* The task of API-defined hooks                                           *)
(***************************************************************************)
\* _dispatch_api_hooks reads the matching rows of the account once.
ListHooks(w) ==
    /\ tasks[w].phase = "queued" /\ tasks[w].user
    /\ tasks' = [tasks EXCEPT ![w].phase = "running",
                            ![w].todo = {[id |-> r, row |-> rows[r]] :
                                            r \in Listed(tasks[w].event, tasks[w].coll)}]
    /\ UNCHANGED <<registryVars, writes, rows, run, effects, logs, stops>>

\* The context of an anonymous request has no account to list the hooks of; or
\* the query fails, and the error is swallowed.
ListsNothing(w) ==
    /\ tasks[w].phase = "queued"
    /\ \E how \in (IF tasks[w].user THEN {"unread"} ELSE {"unasked"}) :
         tasks' = [tasks EXCEPT ![w].phase = how]
    /\ UNCHANGED <<registryVars, writes, rows, run, effects, logs, stops>>

\* A condition that cannot be evaluated counts as true.
Holds(cond) == cond # "false"

\* _run_hook: the next hook of the list, in the order the database returned
\* them.
NextHook(w) ==
    /\ tasks[w].phase = "running"
    /\ run[w] = NoRun
    /\ \E h \in tasks[w].todo :
         /\ tasks' = [tasks EXCEPT ![w].todo = @ \ {h},
                                 ![w].due = IF Holds(h.row.cond) THEN @ ELSE @ \ {h.id}]
         /\ run' = IF Holds(h.row.cond)
                   THEN [run EXCEPT ![w] = NewRun(h.id, h.row.actions)] ELSE run
    /\ UNCHANGED <<registryVars, writes, rows, effects, logs, stops>>

EndTask(w) ==
    /\ tasks[w].phase = "running"
    /\ run[w] = NoRun
    /\ tasks[w].todo = {}
    /\ tasks' = [tasks EXCEPT ![w].phase = "over"]
    /\ UNCHANGED <<registryVars, writes, rows, run, effects, logs, stops>>

\* execute_hook_manually: the record is empty and the condition not asked.
ByHand(r) == NewRun(r, rows[r].actions)

\* trigger_hook: the row need not be enabled.
Trigger(m, r) ==
    /\ run[m] = NoRun
    /\ rows[r] # NoRow
    /\ run' = [run EXCEPT ![m] = ByHand(r)]
    /\ UNCHANGED <<registryVars, writes, rows, tasks, effects, logs, stops>>

\* The action with its templates filled in; what they hold is abstracted.
Resolved(r) == r.actions[r.next]

\* The run of a hook is execute_actions', that of an endpoint _run_actions'.
KnownTo(of) == IF of \in Rows THEN KnownToHooks ELSE KnownToEndpoints

\* One action of a run, of a hook or of an endpoint.
Act(x) ==
    /\ run[x] \notin {NoRun, Ended}
    /\ run[x].phase = "acting"
    /\ LET r == run[x]
           kind == Resolved(r)
       IN  IF kind \notin KnownTo(r.of)
           THEN /\ run' = [run EXCEPT ![x] = Skip(r)]
                /\ UNCHANGED effects
           ELSE \E o \in Outcomes(kind) :
                  /\ run' = [run EXCEPT ![x] = IF o.ok THEN Succeed(r) ELSE Fail(r)]
                  /\ effects' = IF o.effect
                                THEN effects \cup {[by |-> x, of |-> r.of, at |-> r.next]}
                                ELSE effects
    /\ UNCHANGED <<registryVars, writes, rows, tasks, logs, stops>>

LogOf(x) == [by |-> x, of |-> run[x].of, actions |-> run[x].actions,
             status |-> Status(run[x])]

\* Faulty variant: an error while logging ends the task.
AfterLogStops(w, written) ==
    IF written THEN [tasks[w] EXCEPT !.due = @ \ {run[w].of}]
    ELSE [tasks[w] EXCEPT !.due = @ \ {run[w].of}, !.todo = {}]

\* An error while logging is swallowed and the next hook follows.
AfterLog(w, written) == [tasks[w] EXCEPT !.due = @ \ {run[w].of}]

\* The execution row.  The insert fails when the hook is gone, and may fail
\* for reasons of the database.
LogRun(x) ==
    /\ x \in Writers \cup Managers
    /\ run[x] \notin {NoRun, Ended}
    /\ run[x].phase = "acted"
    /\ \E written \in (IF rows[run[x].of] = NoRow THEN {FALSE} ELSE BOOLEAN) :
         /\ logs' = IF written THEN logs \cup {LogOf(x)} ELSE logs
         /\ tasks' = IF x \in Writers THEN [tasks EXCEPT ![x] = AfterLog(x, written)] ELSE tasks
    /\ run' = [run EXCEPT ![x] = IF x \in Writers THEN NoRun ELSE Ended]
    /\ UNCHANGED <<registryVars, writes, rows, effects, stops>>

(***************************************************************************)
(* The rows                                                                *)
(***************************************************************************)
NoLongerDue(r) == [w \in Writers |-> [tasks[w] EXCEPT !.due = @ \ {r}]]

\* toggle_hook and the enabled flag of update_hook.
Toggle(r) ==
    /\ rows[r] # NoRow
    /\ rows' = [rows EXCEPT ![r].enabled = ~@]
    /\ tasks' = NoLongerDue(r)
    /\ UNCHANGED <<registryVars, writes, run, effects, logs, stops>>

\* The executions of a deleted hook go with it.
Delete(r) ==
    /\ rows[r] # NoRow
    /\ rows' = [rows EXCEPT ![r] = NoRow]
    /\ tasks' = NoLongerDue(r)
    /\ logs' = {l \in logs : l.of # r}
    /\ UNCHANGED <<registryVars, writes, run, effects, stops>>

\* The server stops: transactions under way are undone, tasks and runs are
\* lost, and the registry is what the next start registers, perhaps with other
\* settings.
Stop ==
    /\ registry' = Startup
    /\ counter' = StartupCount
    /\ auditing' \in BOOLEAN
    /\ writes' = [w \in Writers |->
          IF writes[w].phase = "chain" THEN [writes[w] EXCEPT !.phase = "undone"]
          ELSE writes[w]]
    /\ tasks' = [w \in Writers |->
          IF tasks[w].phase \in {"queued", "running"}
          THEN [NoTask EXCEPT !.phase = "lost"] ELSE tasks[w]]
    /\ run' = [x \in Runners |->
          IF x \in Writers \/ run[x] = NoRun THEN NoRun ELSE Ended]
    /\ stops' = stops + 1
    /\ UNCHANGED <<rows, effects, logs>>
=============================================================================
