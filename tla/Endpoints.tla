----------------------------- MODULE Endpoints -----------------------------
(***************************************************************************)
(* Custom endpoints: the requests that manage them (endpoints_router), the *)
(* dispatcher that serves them (custom_endpoint_dispatcher) and the        *)
(* executor with its timeout (endpoint_executor), beside the hooks that    *)
(* share the action executor.                                              *)
(*                                                                         *)
(* A managing request reads and checks in one step and saves in another;   *)
(* two of them may overlap.  A route is a path template and a method; one  *)
(* incoming path may match several templates.                              *)
(***************************************************************************)
EXTENDS Hooks

CONSTANTS
    Ids,            \* endpoints of one account
    Editors,        \* requests that manage them
    Routes,         \* path template and method
    Fits,           \* set of <<incoming request, route>>
    Incoming,       \* paths and methods of incoming requests
    MaxEndpoints,   \* max_endpoints_per_account
    NoEndpoint

\* A run of a list of actions, see Actions.
Runs == [of : Rows \cup Ids, actions : Lists, next : Nat \ {0}, executed : Nat,
         error : BOOLEAN, phase : {"acting", "acted"}]

ASSUME EndpointsAssumption ==
    /\ Rows \cap Ids = {}
    /\ NoRun \notin Runs /\ Ended \notin Runs /\ NoRun # Ended
    /\ MaxEndpoints \in Nat \ {0}

VARIABLES
    endpoints,  \* Ids -> row, or NoEndpoint
    crowded,    \* endpoints saved after others than their limit was checked with
    editor,     \* Editors -> what the request has read and is about to save
    call        \* Callers -> a request to a custom endpoint

endpointVars == <<endpoints, crowded, editor, call>>
serverVars == <<hookVars, endpointVars>>

Present == {i \in Ids : endpoints[i] # NoEndpoint}
IdleEditor == [phase |-> "idle"]
OverEditor == [phase |-> "over"]

(***************************************************************************)
(* Managing endpoints                                                      *)
(***************************************************************************)
\* exists_by_path_and_method.
IsTaken(route, except) == \E i \in Present \ {except} : endpoints[i].route = route

\* A new row gets an id nobody refers to.
IsFresh(i) ==
    /\ endpoints[i] = NoEndpoint
    /\ \A e \in Editors : editor[e].phase \in {"insert", "save"} => editor[e].id # i
    /\ \A c \in Callers : call[c].phase = "serving" => call[c].of # i

\* The columns of an endpoint that matter here; open: no token is required.
NewEndpoint(route, actions, open) ==
    [route |-> route, actions |-> actions, enabled |-> TRUE, open |-> open]

\* Faulty variant: the limit is taken for a number that may still be there.
HasRoomToo(found) == Cardinality(found) <= MaxEndpoints

HasRoom(found) == Cardinality(found) < MaxEndpoints

\* create_endpoint up to the insert: the limit and the name are checked on
\* what has been committed.
CreateRead(e, i, route, actions, open) ==
    /\ editor[e].phase = "idle"
    /\ IsFresh(i)
    /\ HasRoom(Present)
    /\ ~IsTaken(route, NoEndpoint)
    /\ editor' = [editor EXCEPT ![e] =
           [phase |-> "insert", id |-> i, found |-> Present,
            row |-> NewEndpoint(route, actions, open)]]
    /\ UNCHANGED <<endpoints, crowded, call, hookVars>>

\* update_endpoint up to the flush: only a changed route is checked.
UpdateRead(e, i, route) ==
    /\ editor[e].phase = "idle"
    /\ i \in Present
    /\ route # endpoints[i].route => ~IsTaken(route, i)
    /\ editor' = [editor EXCEPT ![e] =
           [phase |-> "save", id |-> i,
            row |-> [endpoints[i] EXCEPT !.route = route], old |-> endpoints[i]]]
    /\ UNCHANGED <<endpoints, crowded, call, hookVars>>

ToggleRead(e, i) ==
    /\ editor[e].phase = "idle"
    /\ i \in Present
    /\ editor' = [editor EXCEPT ![e] =
           [phase |-> "save", id |-> i,
            row |-> [endpoints[i] EXCEPT !.enabled = ~@], old |-> endpoints[i]]]
    /\ UNCHANGED <<endpoints, crowded, call, hookVars>>

\* The unique constraint on account, path and method.
RouteIsFree(route, except) == ~IsTaken(route, except)

\* The insert; a broken constraint is an error of the database and the
\* request answers 500.
Insert(e) ==
    LET i == editor[e].id IN
    /\ editor[e].phase = "insert"
    /\ IF endpoints[i] = NoEndpoint /\ RouteIsFree(editor[e].row.route, i)
       THEN /\ endpoints' = [endpoints EXCEPT ![i] = editor[e].row]
            /\ crowded' = IF Present \subseteq editor[e].found THEN crowded ELSE crowded \cup {i}
       ELSE UNCHANGED <<endpoints, crowded>>
    /\ editor' = [editor EXCEPT ![e] = OverEditor]
    /\ UNCHANGED <<call, hookVars>>

\* The session writes the columns that changed; the row may be gone, and the
\* route may have been taken.
Save(e) ==
    LET i == editor[e].id
        new == editor[e].row
        old == editor[e].old
        saved == [endpoints[i] EXCEPT
                     !.route = IF new.route # old.route THEN new.route ELSE @,
                     !.enabled = IF new.enabled # old.enabled THEN new.enabled ELSE @]
    IN  /\ editor[e].phase = "save"
        /\ endpoints' = IF i \in Present /\ RouteIsFree(saved.route, i)
                        THEN [endpoints EXCEPT ![i] = saved] ELSE endpoints
        /\ editor' = [editor EXCEPT ![e] = OverEditor]
        /\ UNCHANGED <<crowded, call, hookVars>>

\* The executions of a deleted endpoint go with it.
DeleteEndpoint(e, i) ==
    /\ editor[e].phase = "idle"
    /\ i \in Present
    /\ endpoints' = [endpoints EXCEPT ![i] = NoEndpoint]
    /\ crowded' = crowded \ {i}
    /\ logs' = {l \in logs : l.of # i}
    /\ editor' = [editor EXCEPT ![e] = OverEditor]
    /\ UNCHANGED <<call, registryVars, writes, rows, tasks, run, effects, stops>>

(***************************************************************************)
(* Serving a request                                                       *)
(***************************************************************************)
NoCall == [phase |-> "idle"]
Answer(status) == [phase |-> "answered", status |-> status]

\* get_all_enabled_for_account.
Enabled == {i \in Present : endpoints[i].enabled}

\* Enabled endpoints whose template and method fit.  The query has no ORDER
\* BY: the first match is any of them.
Candidates(request) == {i \in Enabled : <<request, endpoints[i].route>> \in Fits}

\* Who calls: nobody, a user of the account, a user of another one.
People == {"nobody", "own", "other"}

\* The status of a refusal, or 0.  A condition that cannot be evaluated
\* refuses.
Refusal(row, who, allowed) ==
    IF ~row.open /\ who = "nobody" THEN 401
    ELSE IF ~row.open /\ who = "other" THEN 403
    ELSE IF ~allowed THEN 403 ELSE 0

\* _handle_custom_endpoint up to the actions: the row read here is used to
\* the end.
Receive(c, request, who, allowed) ==
    /\ call[c].phase = "idle"
    /\ run[c] = NoRun
    /\ \/ /\ Candidates(request) = {}
          /\ call' = [call EXCEPT ![c] = Answer(404)]
          /\ UNCHANGED run
       \/ \E i \in Candidates(request) :
            LET refusal == Refusal(endpoints[i], who, allowed)
            IN  IF refusal # 0
                THEN /\ call' = [call EXCEPT ![c] = Answer(refusal)]
                     /\ UNCHANGED run
                ELSE /\ call' = [call EXCEPT ![c] = [phase |-> "serving", of |-> i]]
                     /\ run' = [run EXCEPT ![c] = NewRun(i, endpoints[i].actions)]
    /\ UNCHANGED <<endpoints, crowded, editor, registryVars, writes, rows, tasks, effects, logs, stops>>

\* _run_actions.
ActFor(x) == Act(x) /\ UNCHANGED endpointVars

\* wait_for cancels the action under way; whether it has taken effect is
\* open.
TimedOut(c) ==
    /\ run[c] \notin {NoRun, Ended}
    /\ run[c].phase = "acting"
    /\ run' = [run EXCEPT ![c] = TimeOut(run[c])]
    /\ \E acted \in (IF run[c].actions[run[c].next] \in ActingKinds THEN BOOLEAN ELSE {FALSE}) :
         effects' = IF acted
                    THEN effects \cup {[by |-> c, of |-> run[c].of, at |-> run[c].next]}
                    ELSE effects
    /\ UNCHANGED <<endpointVars, registryVars, writes, rows, tasks, logs, stops>>

\* _log_execution swallows its errors; the row needs its endpoint.
LogsAfter(c) ==
    {logs} \cup (IF endpoints[run[c].of] = NoEndpoint THEN {} ELSE {logs \cup {LogOf(c)}})

\* The answer is 200 unless the template says otherwise, whatever became of
\* the actions.
Respond(c) ==
    /\ call[c].phase = "serving"
    /\ run[c] \notin {NoRun, Ended}
    /\ run[c].phase = "acted"
    /\ logs' \in LogsAfter(c)
    /\ call' = [call EXCEPT ![c] = Answer(200)]
    /\ run' = [run EXCEPT ![c] = Ended]
    /\ UNCHANGED <<endpoints, crowded, editor, registryVars, writes, rows, tasks, effects, stops>>

\* The server stops: requests under way are lost.
StopServer ==
    /\ Stop
    /\ editor' = [e \in Editors |->
          IF editor[e].phase = "idle" THEN IdleEditor ELSE OverEditor]
    /\ call' = [c \in Callers |->
          IF call[c].phase = "serving" THEN Answer(0) ELSE call[c]]
    /\ UNCHANGED <<endpoints, crowded>>

(***************************************************************************)
(* Specification                                                           *)
(***************************************************************************)
\* Hooks and endpoints the account may have when the server starts.
ServerInit ==
    /\ registry = Startup
    /\ counter = StartupCount
    /\ auditing \in BOOLEAN
    /\ writes = [w \in Writers |-> Idle]
    /\ tasks = [w \in Writers |-> NoTask]
    /\ run = [x \in Runners |-> NoRun]
    /\ effects = {}
    /\ logs = {}
    /\ stops = 0
    /\ rows \in [Rows -> {NoRow} \cup
          [event : Events, coll : Collections \cup {AnyCollection}, enabled : BOOLEAN,
           cond : {"none", "false"}, actions : Lists]]
    /\ endpoints = [i \in Ids |-> NoEndpoint]
    /\ crowded = {}
    /\ editor = [e \in Editors |-> IdleEditor]
    /\ call = [c \in Callers |-> NoCall]

ChainNext ==
    \/ \E c \in Customs : Register(c)
    \/ \E h \in registry : Unregister(h)
    \/ Clear
    \/ \E w \in Writers :
         \/ \E e \in Events, c \in Collections, user \in BOOLEAN : StartWrite(w, e, c, user)
         \/ RunCallback(w)
         \/ EndWrite(w)

TaskNext ==
    \/ \E w \in Writers : ListHooks(w) \/ ListsNothing(w) \/ NextHook(w) \/ EndTask(w)
    \/ \E m \in Managers, r \in Rows : Trigger(m, r)
    \/ \E x \in Runners : Act(x) \/ LogRun(x)
    \/ \E r \in Rows : Toggle(r) \/ Delete(r)

HookNext == (ChainNext \/ TaskNext) /\ UNCHANGED endpointVars

EndpointNext ==
    \/ \E e \in Editors, i \in Ids :
         \/ \E route \in Routes, actions \in Lists, open \in BOOLEAN :
              CreateRead(e, i, route, actions, open)
         \/ \E route \in Routes : UpdateRead(e, i, route)
         \/ ToggleRead(e, i)
         \/ DeleteEndpoint(e, i)
    \/ \E e \in Editors : Insert(e) \/ Save(e)
    \/ \E c \in Callers :
         \/ \E request \in Incoming, who \in People, allowed \in BOOLEAN :
              Receive(c, request, who, allowed)
         \/ ActFor(c)
         \/ TimedOut(c)
         \/ Respond(c)

ServerNext == HookNext \/ EndpointNext \/ StopServer

ServerSpec == ServerInit /\ [][ServerNext]_serverVars

(***************************************************************************)
(* Properties                                                              *)
(***************************************************************************)
\* Whether a callback that ran, as the chain remembers it, keeps the ones
\* behind it from the data or from running at all.
IsInTheWay(x) ==
    \/ x.end \in {"abort", "switched off", "no user", "service failed"}
    \/ x.hook \in Customs /\ CustomHook[x.hook].does = "replace"
    \/ x.hook \in Customs /\ x.end = "raise" /\ CustomHook[x.hook].stop

\* A write that was committed without an audit entry had a callback before
\* the audit hook that aborted, stopped the chain or replaced the data, or it
\* was anonymous, the log was switched off or the audit service failed: other
\* errors of other callbacks, and callbacks that come and go while the chain
\* runs, never cost the entry (HookRegistry.trigger, unregister,
\* audit_capture_hook).
AuditedUnlessStopped ==
    \A w \in Writers :
        writes[w].phase = "committed" /\ ~writes[w].audited =>
            \E x \in writes[w].ran : IsInTheWay(x)

\* An API-defined hook that was enabled, and matched, when the record event
\* of an authenticated request fired and was left alone until its task was over
\* has been run to the end, whatever the hooks before it did, once the query of
\* the hooks has succeeded (_dispatch_api_hooks, _run_hook).
SteadyHookRuns ==
    \A w \in Writers : tasks[w].phase = "over" => tasks[w].due = {}

Known(l) == {i \in DOMAIN l.actions : l.actions[i] \in KnownTo(l.of)}
Effective(l) == {i \in DOMAIN l.actions : l.actions[i] \in EffectKinds}
Effected(l) == {e.at : e \in {f \in effects : f.by = l.by /\ f.of = l.of}}

\* An execution row tells what happened: "success" means that every action
\* with an effect has had it; otherwise the effects are those of the first
\* actions of the list without a gap, and "failed" means that at most the
\* first action that the executor knows has acted: in doubt after an answer that never came or
\* a timeout (execute_actions, execute_endpoint_actions, _run_hook,
\* _handle_custom_endpoint).
LogsAreTrue ==
    \A l \in logs :
        /\ l.status = "success" => Effected(l) = Effective(l)
        /\ \A i \in Effected(l), j \in Effective(l) : j < i => j \in Effected(l)
        /\ l.status = "failed" =>
               \A i \in Effected(l), j \in Known(l) : i <= j

\* An account has more endpoints than it may have only by those that were saved
\* after another one had come since their limit was checked: whatever else
\* is created, deleted and changed meanwhile, the others stay within the limit
\* (create_endpoint, count_for_account).
LimitIsKept == Cardinality(Present \ crowded) <= MaxEndpoints
=============================================================================
