-------------------------- MODULE AutomationProofs --------------------------
(***************************************************************************)
(* Proofs about what a record write sets off: callbacks and API-defined    *)
(* hooks, with the custom endpoints that share their actions (part one),   *)
(* and outbound webhooks over the lease of their jobs (part two).          *)
(*                                                                         *)
(* Part one holds for any writes, requests, hooks, endpoints and lists of  *)
(* actions, any callbacks of the application and any number of             *)
(* registrations and stops; part two for any operations, webhooks and      *)
(* workers, any number of attempts and of mishaps.                         *)
(***************************************************************************)
EXTENDS WebhookDelivery, Endpoints, FiniteSetTheorems, TLAPS

-----------------------------------------------------------------------------
(* Hooks and endpoints: what the variables hold.                            *)

EventOrNone == Events \cup {"none"}
Scope == Collections \cup {AnyCollection}
WaysToEnd == {"returned", "raise", "abort", "recorded", "service failed", "no user", "switched off"}
Ran == [hook : Customs \cup {"audit", "webhook", "api", "workflow"}, end : WaysToEnd]
Write == [phase : {"idle", "chain", "committed", "undone"}, event : EventOrNone, coll : Scope,
          user : BOOLEAN, chain : SUBSET Hook, bare : BOOLEAN, ran : SUBSET Ran, audited : BOOLEAN]
HookRow == [event : Events, coll : Scope, enabled : BOOLEAN, cond : {"none", "false"}, actions : Lists]
Todo == [id : Rows, row : HookRow]
TaskPhases == {"none", "queued", "running", "over", "lost", "unread", "unasked"}
Task == [phase : TaskPhases, event : EventOrNone, coll : Scope, user : BOOLEAN,
         todo : SUBSET Todo, due : SUBSET Rows]
Effect == [by : Runners, of : Rows \cup Ids, at : Nat]
Log == [by : Runners, of : Rows \cup Ids, actions : Lists, status : {"success", "partial", "failed"}]
EndpointRow == [route : Routes, actions : Lists, enabled : BOOLEAN, open : BOOLEAN]
Editor == [phase : {"idle", "over"}] \cup [phase : {"insert"}, id : Ids, found : SUBSET Ids, row : EndpointRow]
          \cup [phase : {"save"}, id : Ids, row : EndpointRow, old : EndpointRow]
Call == [phase : {"idle"}] \cup [phase : {"answered"}, status : Nat] \cup [phase : {"serving"}, of : Ids]

ServerTypeOK ==
  /\ registry \in SUBSET Hook /\ counter \in Nat /\ stops \in Nat /\ auditing \in BOOLEAN
  /\ crowded \in SUBSET Ids
  /\ writes \in [Writers -> Write]
  /\ rows \in [Rows -> HookRow \cup {NoRow}]
  /\ tasks \in [Writers -> Task]
  /\ run \in [Runners -> Runs \cup {NoRun, Ended}]
  /\ effects \in SUBSET Effect /\ logs \in SUBSET Log
  /\ endpoints \in [Ids -> EndpointRow \cup {NoEndpoint}]
  /\ editor \in [Editors -> Editor]
  /\ call \in [Callers -> Call]

-----------------------------------------------------------------------------
(* The registry and the chains made from it.                                *)

\* What the start, or the application, has registered.
IsRegistered(h) ==
  \/ \E e \in Events : h \in AtStartup(e)
  \/ \E c \in Customs : h = [CustomHook[c] EXCEPT !.order = h.order]

\* No request takes the audit hook away: it is built in.
RegistryInv ==
  /\ \A e \in Events : AuditHook(e) \in registry
  /\ \A h \in registry : IsRegistered(h)

\* Something that ran kept the audit hook from its work.
IsStopped(x) == \E y \in x.ran : IsInTheWay(y)

\* A write whose audit entry is not written, and not prevented, has the audit hook
\* before it, with the record in its data; and until the dispatcher of API-defined
\* hooks has had its turn the write has no task.
ChainIsSound(x, t) ==
  /\ x.phase = "idle" => t.phase = "none"
  /\ x.phase = "chain" =>
       /\ x.event \in Events
       /\ \A h \in x.chain : IsRegistered(h) /\ h.event = x.event
       /\ x.audited \/ IsStopped(x) \/ (AuditHook(x.event) \in x.chain /\ ~x.bare)
       /\ ApiHook(x.event) \in x.chain => t.phase = "none"
  /\ x.phase = "committed" => x.audited \/ IsStopped(x)

ChainInv == RegistryInv /\ \A w \in Writers : ChainIsSound(writes[w], tasks[w])

-----------------------------------------------------------------------------
(* The task of a write.                                                     *)

IsRunning(x) == run[x] \notin {NoRun, Ended}
Awaiting(t) == {h.id : h \in t.todo}

RowOf(r) == IF r \in {NoRun, Ended} THEN {} ELSE {r.of}

\* What is due is in the list, about to be read, or read and still to do, or at
\* work in the run r of the task.
TaskIsSound(t, r) ==
  /\ t.phase # "running" => r = NoRun
  /\ t.phase \in {"none", "over", "lost"} => t.due = {}
  /\ t.phase = "queued" => t.due \subseteq Listed(t.event, t.coll)
  /\ t.phase = "running" => t.due \subseteq Awaiting(t) \cup RowOf(r)

TaskInv == \A w \in Writers : TaskIsSound(tasks[w], run[w])

-----------------------------------------------------------------------------
(* Runs, effects and logs.                                                  *)

\* Runner x has the run of a hook, or endpoint, behind it or at work: it will not
\* begin another.
Past(x, of) == IF x \in Writers
               THEN tasks[x].phase \notin {"none", "queued"} /\ \A h \in tasks[x].todo : h.id # of
               ELSE run[x] # NoRun

IsDoing(x, of) == IsRunning(x) /\ run[x].of = of
ActedIn(set, x, of) == {e.at : e \in {f \in set : f.by = x /\ f.of = of}}
Acted(x, of) == ActedIn(effects, x, of)

\* The list l has acted at acted and its row says status.
IsTold(acted, l, status) ==
  /\ acted \subseteq Effective(l)
  /\ status = "success" => acted = Effective(l)
  /\ \A i \in acted, j \in Effective(l) : j < i => j \in acted
  /\ status = "failed" => \A i \in acted, j \in Known(l) : i <= j

\* A run in the middle of its list has acted wherever it could, so far.
RunIsSound(r, acted) ==
  /\ r.phase = "acting" =>
       /\ r.next <= Len(r.actions) /\ ~r.error
       /\ acted = {i \in Effective(r) : i < r.next}
       /\ r.executed = 0 => \A j \in Known(r) : r.next <= j
  /\ r.phase = "acted" => IsTold(acted, r, Status(r))

\* A task runs each hook once.
TodoOnce(t) == \A g, h \in t.todo : g.id = h.id => g = h

\* What is logged is over: nothing can add to the effects it tells of.
LogInv ==
  /\ \A w \in Writers : TodoOnce(tasks[w])
  /\ \A e \in effects : Past(e.by, e.of)
  /\ \A x \in Runners : IsRunning(x) => Past(x, run[x].of) /\ RunIsSound(run[x], Acted(x, run[x].of))
  /\ \A l \in logs : /\ Past(l.by, l.of) /\ ~IsDoing(l.by, l.of)
                     /\ IsTold(Acted(l.by, l.of), l, l.status)
-----------------------------------------------------------------------------
(* The types are kept.                                                      *)

\* A list of actions is a sequence.
LEMMA ListsHaveActions ==
  ASSUME NEW list \in Lists
  PROVE  list \in Seq(Kinds) /\ Len(list) \in Nat /\ DOMAIN list = 1..Len(list)
BY HooksAssumption

\* What the start registers are hooks.
LEMMA StartupHooks == \A e \in Events : AtStartup(e) \subseteq Hook
BY DEF AtStartup, AuditHook, WebhookHook, ApiHook, WorkflowHook, Hook

\* A run that starts, and each step of a run, gives a run.
LEMMA NewRunIsRun == ASSUME NEW of \in Rows \cup Ids, NEW list \in Lists PROVE NewRun(of, list) \in Runs
BY ListsHaveActions DEF NewRun, PhaseAt, Runs

LEMMA StepsOfRuns ==
  ASSUME NEW r \in Runs
  PROVE  Skip(r) \in Runs /\ Succeed(r) \in Runs /\ Fail(r) \in Runs
<1>1. PhaseAt(r.actions, r.next + 1) \in {"acting", "acted"} /\ r.next + 1 \in Nat \ {0}
  BY DEF PhaseAt, Runs
<1>2. Skip(r) \in Runs
  BY <1>1 DEF Skip, Runs
<1>3. Succeed(r) \in Runs
  BY <1>2 DEF Succeed, Runs
<1>4. Fail(r) \in Runs
  BY DEF Fail, Runs
<1>. QED
  BY <1>2, <1>3, <1>4

LEMMA TimedOutIsRun == ASSUME NEW r \in Runs PROVE TimeOut(r) \in Runs
<1>1. r.next - 1 \in Nat
  BY DEF Runs
<1>. QED
  BY <1>1 DEF TimeOut, Runs

LEMMA TypesAtFirst == ServerInit => ServerTypeOK
<1>. SUFFICES ASSUME ServerInit PROVE ServerTypeOK
  OBVIOUS
<1>1. registry \in SUBSET Hook /\ counter \in Nat /\ stops \in Nat /\ auditing \in BOOLEAN
  BY StartupHooks DEF ServerInit, Startup, StartupCount
<1>2. writes \in [Writers -> Write] /\ tasks \in [Writers -> Task]
  BY DEF ServerInit, Idle, NoTask, Write, Task, TaskPhases, EventOrNone, Scope
<1>3. rows \in [Rows -> HookRow \cup {NoRow}]
  BY DEF ServerInit, HookRow, Scope
<1>4. run \in [Runners -> Runs \cup {NoRun, Ended}] /\ effects \in SUBSET Effect /\ logs \in SUBSET Log
  BY DEF ServerInit
<1>5. /\ endpoints \in [Ids -> EndpointRow \cup {NoEndpoint}]
      /\ editor \in [Editors -> Editor] /\ call \in [Callers -> Call] /\ crowded \in SUBSET Ids
  BY DEF ServerInit, IdleEditor, NoCall, Editor, Call
<1>. QED
  BY <1>1, <1>2, <1>3, <1>4, <1>5 DEF ServerTypeOK

-----------------------------------------------------------------------------
(* A step of the registry, of a write and its callbacks.                    *)

\* A callback leaves a write behind.
LEMMA CalledIsWrite ==
  ASSUME NEW x \in Write, NEW h \in Hook, NEW end \in WaysToEnd
  PROVE  Called(x, h, end) \in Write
<1>1. [hook |-> h.id, end |-> end] \in Ran
  BY DEF Ran, Hook
<1>2. /\ (IF IsOver(h) THEN {} ELSE x.chain \ {h}) \in SUBSET Hook
      /\ (x.bare \/ h.does = "replace") \in BOOLEAN /\ (x.audited \/ end = "recorded") \in BOOLEAN
      /\ x.phase \in {"idle", "chain", "committed", "undone"} /\ x.event \in EventOrNone /\ x.coll \in Scope
      /\ x.ran \in SUBSET Ran
  BY DEF Write
<1>. HIDE DEF Ran
<1>3. x.ran \cup {[hook |-> h.id, end |-> end]} \in SUBSET Ran
  BY <1>1, <1>2
<1>. DEFINE chain == IF IsOver(h) THEN {} ELSE x.chain \ {h}
            bare == x.bare \/ h.does = "replace"
            audited == x.audited \/ end = "recorded"
            ran == x.ran \cup {[hook |-> h.id, end |-> end]}
<1>4. Called(x, h, end) = [x EXCEPT !.chain = chain, !.bare = bare, !.audited = audited, !.ran = ran]
  BY Zenon DEF Called
<1>. HIDE DEF chain, bare, audited, ran
<1>5. chain \in SUBSET Hook /\ bare \in BOOLEAN /\ audited \in BOOLEAN /\ ran \in SUBSET Ran
  BY <1>2, <1>3 DEF chain, bare, audited, ran
<1>6. [x EXCEPT !.chain = chain, !.bare = bare, !.audited = audited, !.ran = ran] \in Write
  BY <1>5 DEF Write
<1>. QED
  BY <1>4, <1>6

\* How a callback of a chain can end.
LEMMA EndsAreWays == ASSUME NEW x, NEW h \in Hook PROVE Ends(x, h) \subseteq WaysToEnd
<1>1. AuditEnds(x) \subseteq WaysToEnd
  BY DEF AuditEnds, WaysToEnd
<1>. QED
  BY <1>1 DEF Ends, WaysToEnd

LEMMA ChainStepsKeepTypes == ServerTypeOK /\ ChainNext /\ UNCHANGED endpointVars => ServerTypeOK'
<1>. SUFFICES ASSUME ServerTypeOK, UNCHANGED endpointVars, ChainNext PROVE ServerTypeOK'
  OBVIOUS
<1>. USE DEF ServerTypeOK, endpointVars, registryVars
<1>1. ASSUME NEW c \in Customs, Register(c) PROVE ServerTypeOK'
  <2>1. CustomHook[c] \in Hook
    BY HooksAssumption
  <2>2. Numbered(Decorated(c)) \in Hook
    BY <2>1 DEF Numbered, Decorated, Hook
  <2>. QED
    BY <1>1, <2>2 DEF Register
<1>2. ASSUME NEW h \in registry, Unregister(h) PROVE ServerTypeOK'
  BY <1>2 DEF Unregister
<1>3. CASE Clear
  BY <1>3 DEF Clear
<1>4. ASSUME NEW w \in Writers, NEW e \in Events, NEW c \in Collections, NEW user \in BOOLEAN,
             StartWrite(w, e, c, user) PROVE ServerTypeOK'
  <2>1. [Idle EXCEPT !.phase = "chain", !.event = e, !.coll = c, !.user = user,
                     !.chain = Chain(e, NoFilters)] \in Write
    BY DEF Idle, Write, EventOrNone, Scope, Chain
  <2>. QED
    BY <1>4, <2>1 DEF StartWrite, registryVars
<1>5. ASSUME NEW w \in Writers, RunCallback(w) PROVE ServerTypeOK'
  <2>1. PICK h \in writes[w].chain :
          /\ \E end \in Ends(writes[w], h) :
               writes' = [writes EXCEPT ![w] = Called(writes[w], h, end)]
          /\ tasks' = IF h.does = "api" /\ ~writes[w].bare
                      THEN [tasks EXCEPT ![w] = Dispatched(w)] ELSE tasks
          /\ UNCHANGED <<registryVars, rows, run, effects, logs, stops>>
    BY <1>5 DEF RunCallback
  <2>2. PICK end \in Ends(writes[w], h) :
          writes' = [writes EXCEPT ![w] = Called(writes[w], h, end)]
    BY <2>1
  <2>3. writes[w] \in Write /\ h \in Hook
    BY DEF Write
  <2>6. end \in WaysToEnd
    BY <2>2, <2>3, EndsAreWays
  <2>4. Called(writes[w], h, end) \in Write
    BY <2>3, <2>6, CalledIsWrite
  <2>5. Dispatched(w) \in Task
    BY <2>3 DEF Dispatched, NoTask, Task, TaskPhases, Write, Listed
  <2>. QED
    BY <2>1, <2>2, <2>4, <2>5
<1>6. ASSUME NEW w \in Writers, EndWrite(w) PROVE ServerTypeOK'
  <2>1. PICK end \in {"committed", "undone"} : writes' = [writes EXCEPT ![w].phase = end]
    BY <1>6 DEF EndWrite
  <2>2. \A x \in Write : [x EXCEPT !.phase = end] \in Write
    BY DEF Write
  <2>3. writes' \in [Writers -> Write]
    BY <2>1, <2>2
  <2>. QED
    BY <1>6, <2>3 DEF EndWrite, registryVars
<1>. QED
  BY <1>1, <1>2, <1>3, <1>4, <1>5, <1>6 DEF ChainNext

-----------------------------------------------------------------------------
(* ... of a task, a run, a row.                                             *)

\* Changes of a task.
LEMMA ChangedTaskIsTask ==
  ASSUME NEW t \in Task
  PROVE  /\ \A due \in SUBSET Rows : [t EXCEPT !.due = due] \in Task
         /\ \A todo \in SUBSET Todo, due \in SUBSET Rows : [t EXCEPT !.todo = todo, !.due = due] \in Task
         /\ \A p \in TaskPhases : [t EXCEPT !.phase = p] \in Task
         /\ \A todo \in SUBSET Todo : [t EXCEPT !.phase = "running", !.todo = todo] \in Task
<1>. USE DEF Task, TaskPhases
<1>1. \A due \in SUBSET Rows : [t EXCEPT !.due = due] \in Task
  OBVIOUS
<1>2. \A todo \in SUBSET Todo, due \in SUBSET Rows : [t EXCEPT !.todo = todo, !.due = due] \in Task
  OBVIOUS
<1>3. \A p \in TaskPhases : [t EXCEPT !.phase = p] \in Task
  OBVIOUS
<1>4. \A todo \in SUBSET Todo : [t EXCEPT !.phase = "running", !.todo = todo] \in Task
  OBVIOUS
<1>. QED
  BY <1>1, <1>2, <1>3, <1>4

\* One action of a run: passed over, or executed with one of its outcomes.
LEMMA ActSteps ==
  ASSUME NEW x, Act(x)
  PROVE  /\ run[x] \notin {NoRun, Ended} /\ run[x].phase = "acting"
         /\ UNCHANGED <<registryVars, writes, rows, tasks, logs, stops>>
         /\ \/ /\ Resolved(run[x]) \notin KnownTo(run[x].of)
               /\ run' = [run EXCEPT ![x] = Skip(run[x])] /\ effects' = effects
            \/ \E o \in Outcomes(Resolved(run[x])) :
                  /\ Resolved(run[x]) \in KnownTo(run[x].of)
                  /\ run' = [run EXCEPT ![x] = IF o.ok THEN Succeed(run[x]) ELSE Fail(run[x])]
                  /\ effects' = IF o.effect
                                THEN effects \cup {[by |-> x, of |-> run[x].of, at |-> run[x].next]}
                                ELSE effects
BY DEF Act

\* An action gives a run and an effect of their types.
LEMMA ActKeepsTypes ==
  ASSUME ServerTypeOK, NEW x \in Runners, Act(x)
  PROVE  run' \in [Runners -> Runs \cup {NoRun, Ended}] /\ effects' \in SUBSET Effect
<1>1. run \in [Runners -> Runs \cup {NoRun, Ended}] /\ effects \in SUBSET Effect /\ run[x] \in Runs
  BY ActSteps DEF ServerTypeOK
<1>2. [by |-> x, of |-> run[x].of, at |-> run[x].next] \in Effect
  BY <1>1 DEF Effect, Runs
<1>3. Skip(run[x]) \in Runs /\ Succeed(run[x]) \in Runs /\ Fail(run[x]) \in Runs
  BY <1>1, StepsOfRuns
<1>4. run' = [run EXCEPT ![x] = Skip(run[x])] \/ run' = [run EXCEPT ![x] = Succeed(run[x])]
      \/ run' = [run EXCEPT ![x] = Fail(run[x])]
  BY ActSteps
<1>5. effects' = effects \/ effects' = effects \cup {[by |-> x, of |-> run[x].of, at |-> run[x].next]}
  BY ActSteps
<1>6. effects' \in SUBSET Effect
  BY <1>1, <1>2, <1>5
<1>. QED
  BY <1>1, <1>3, <1>4, <1>6

\* What the end of a run writes.
LEMMA LogIsLog ==
  ASSUME ServerTypeOK, NEW x \in Runners, run[x] \notin {NoRun, Ended}
  PROVE  LogOf(x) \in Log
<1>1. run[x] \in Runs
  BY DEF ServerTypeOK
<1>. QED
  BY <1>1 DEF LogOf, Log, Runs, Status

LEMMA TaskStepsKeepTypes == ServerTypeOK /\ TaskNext /\ UNCHANGED endpointVars => ServerTypeOK'
<1>. SUFFICES ASSUME ServerTypeOK, UNCHANGED endpointVars, TaskNext PROVE ServerTypeOK'
  OBVIOUS
<1>. USE DEF ServerTypeOK, endpointVars, registryVars
<1>1. ASSUME NEW w \in Writers, ListHooks(w) PROVE ServerTypeOK'
  <2>. DEFINE todo == {[id |-> r, row |-> rows[r]] : r \in Listed(tasks[w].event, tasks[w].coll)}
  <2>1. tasks' = [tasks EXCEPT ![w] = [tasks[w] EXCEPT !.phase = "running", !.todo = todo]]
    BY <1>1 DEF ListHooks
  <2>2. todo \in SUBSET Todo
    BY DEF Listed, Todo
  <2>. HIDE DEF todo
  <2>3. tasks' \in [Writers -> Task]
    BY <2>1, <2>2, ChangedTaskIsTask
  <2>. QED
    BY <1>1, <2>3 DEF ListHooks
<1>2. ASSUME NEW w \in Writers, NextHook(w) PROVE ServerTypeOK'
  <2>1. PICK h \in tasks[w].todo :
          /\ tasks' = [tasks EXCEPT ![w].todo = @ \ {h},
                                    ![w].due = IF Holds(h.row.cond) THEN @ ELSE @ \ {h.id}]
          /\ run' = IF Holds(h.row.cond) THEN [run EXCEPT ![w] = NewRun(h.id, h.row.actions)] ELSE run
    BY <1>2 DEF NextHook
  <2>2. tasks[w] \in Task /\ h.id \in Rows /\ h.row.actions \in Lists
    BY <2>1 DEF Task, Todo, HookRow
  <2>3. tasks[w].todo \ {h} \in SUBSET Todo
        /\ (IF Holds(h.row.cond) THEN tasks[w].due ELSE tasks[w].due \ {h.id}) \in SUBSET Rows
    BY <2>2 DEF Task
  <2>4. tasks' = [tasks EXCEPT ![w] = [tasks[w] EXCEPT !.todo = tasks[w].todo \ {h},
                    !.due = IF Holds(h.row.cond) THEN tasks[w].due ELSE tasks[w].due \ {h.id}]]
    BY <2>1, <2>2
  <2>5. tasks' \in [Writers -> Task]
    BY <2>2, <2>3, <2>4, ChangedTaskIsTask
  <2>6. NewRun(h.id, h.row.actions) \in Runs
    BY <2>2, NewRunIsRun
  <2>7. run' \in [Runners -> Runs \cup {NoRun, Ended}]
    BY <2>1, <2>6
  <2>. QED
    BY <1>2, <2>5, <2>7 DEF NextHook
<1>3. ASSUME NEW w \in Writers, EndTask(w) \/ ListsNothing(w) PROVE ServerTypeOK'
  <2>1. PICK p \in {"over", "unread", "unasked"} : tasks' = [tasks EXCEPT ![w].phase = p]
    BY <1>3 DEF EndTask, ListsNothing
  <2>2. p \in TaskPhases
    BY DEF TaskPhases
  <2>3. tasks' \in [Writers -> Task]
    BY <2>1, <2>2, ChangedTaskIsTask
  <2>. QED
    BY <1>3, <2>3 DEF EndTask, ListsNothing
<1>4. ASSUME NEW m \in Managers, NEW r \in Rows, Trigger(m, r) PROVE ServerTypeOK'
  <2>1. rows[r].actions \in Lists
    BY <1>4 DEF Trigger, HookRow
  <2>2. ByHand(r) \in Runs
    BY <2>1, NewRunIsRun DEF ByHand
  <2>3. run' \in [Runners -> Runs \cup {NoRun, Ended}]
    BY <1>4, <2>2 DEF Trigger
  <2>. QED
    BY <1>4, <2>3 DEF Trigger
<1>5. ASSUME NEW x \in Runners, Act(x) PROVE ServerTypeOK'
  <2>1. run' \in [Runners -> Runs \cup {NoRun, Ended}] /\ effects' \in SUBSET Effect
    BY <1>5, ActKeepsTypes
  <2>. QED
    BY <1>5, <2>1, ActSteps
<1>6. ASSUME NEW x \in Runners, LogRun(x) PROVE ServerTypeOK'
  <2>1. PICK written \in BOOLEAN :
          /\ logs' = IF written THEN logs \cup {LogOf(x)} ELSE logs
          /\ tasks' = IF x \in Writers THEN [tasks EXCEPT ![x] = AfterLog(x, written)] ELSE tasks
    BY <1>6 DEF LogRun
  <2>2. LogOf(x) \in Log
    BY <1>6, LogIsLog DEF LogRun
  <2>3. logs' \in SUBSET Log
    BY <2>1, <2>2
  <2>4. ASSUME x \in Writers PROVE AfterLog(x, written) \in Task
    <3>1. tasks[x] \in Task /\ tasks[x].due \ {run[x].of} \in SUBSET Rows
      BY <2>4 DEF Task
    <3>. QED
      BY <3>1, ChangedTaskIsTask DEF AfterLog
  <2>5. tasks' \in [Writers -> Task]
    BY <2>1, <2>4
  <2>6. run' \in [Runners -> Runs \cup {NoRun, Ended}]
    BY <1>6 DEF LogRun
  <2>. QED
    BY <1>6, <2>3, <2>5, <2>6 DEF LogRun
<1>7. ASSUME NEW r \in Rows, Toggle(r) \/ Delete(r) PROVE ServerTypeOK'
  <2>1. \A w \in Writers : tasks[w].due \ {r} \in SUBSET Rows
    BY DEF Task
  <2>2. tasks' = [w \in Writers |-> [tasks[w] EXCEPT !.due = tasks[w].due \ {r}]]
    BY <1>7 DEF Toggle, Delete, NoLongerDue
  <2>3. tasks' \in [Writers -> Task]
    BY <2>1, <2>2, ChangedTaskIsTask
  <2>4. rows' \in [Rows -> HookRow \cup {NoRow}]
    <3>1. CASE Delete(r)
      BY <3>1 DEF Delete
    <3>2. CASE Toggle(r)
      <4>1. rows[r] \in HookRow /\ rows' = [rows EXCEPT ![r].enabled = ~@]
        BY <3>2 DEF Toggle
      <4>2. [rows[r] EXCEPT !.enabled = ~@] \in HookRow
        BY <4>1 DEF HookRow
      <4>. QED
        BY <4>1, <4>2
    <3>. QED
      BY <1>7, <3>1, <3>2
  <2>5. logs' \in SUBSET Log
    BY <1>7 DEF Toggle, Delete
  <2>. QED
    BY <1>7, <2>3, <2>4, <2>5 DEF Toggle, Delete
<1>. QED
  BY <1>1, <1>2, <1>3, <1>4, <1>5, <1>6, <1>7 DEF TaskNext

-----------------------------------------------------------------------------
(* ... of an endpoint, and a stop of the server.                            *)

LEMMA EndpointStepsKeepTypes == ServerTypeOK /\ EndpointNext => ServerTypeOK'
<1>. SUFFICES ASSUME ServerTypeOK, EndpointNext PROVE ServerTypeOK'
  OBVIOUS
<1>. USE DEF ServerTypeOK, hookVars, registryVars
<1>1. ASSUME NEW e \in Editors, NEW i \in Ids, NEW route \in Routes, NEW list \in Lists, NEW open \in BOOLEAN,
             CreateRead(e, i, route, list, open)
      PROVE  ServerTypeOK'
  <2>1. [phase |-> "insert", id |-> i, found |-> Present, row |-> NewEndpoint(route, list, open)] \in Editor
    BY DEF NewEndpoint, EndpointRow, Editor, Present
  <2>. QED
    BY <1>1, <2>1 DEF CreateRead
<1>2. ASSUME NEW e \in Editors, NEW i \in Ids, NEW route \in Routes, UpdateRead(e, i, route) PROVE ServerTypeOK'
  <2>1. endpoints[i] \in EndpointRow
    BY <1>2 DEF UpdateRead, Present
  <2>2. [endpoints[i] EXCEPT !.route = route] \in EndpointRow
    BY <2>1 DEF EndpointRow
  <2>3. [phase |-> "save", id |-> i, row |-> [endpoints[i] EXCEPT !.route = route], old |-> endpoints[i]] \in Editor
    BY <2>1, <2>2 DEF Editor
  <2>. QED
    BY <1>2, <2>3 DEF UpdateRead
<1>3. ASSUME NEW e \in Editors, NEW i \in Ids, ToggleRead(e, i) PROVE ServerTypeOK'
  <2>1. endpoints[i] \in EndpointRow
    BY <1>3 DEF ToggleRead, Present
  <2>2. [endpoints[i] EXCEPT !.enabled = ~@] \in EndpointRow
    BY <2>1 DEF EndpointRow
  <2>3. [phase |-> "save", id |-> i, row |-> [endpoints[i] EXCEPT !.enabled = ~@], old |-> endpoints[i]] \in Editor
    BY <2>1, <2>2 DEF Editor
  <2>. QED
    BY <1>3, <2>3 DEF ToggleRead
<1>4. ASSUME NEW e \in Editors, NEW i \in Ids, DeleteEndpoint(e, i) PROVE ServerTypeOK'
  BY <1>4 DEF DeleteEndpoint, OverEditor, Editor
<1>5. ASSUME NEW e \in Editors, Insert(e) PROVE ServerTypeOK'
  <2>1. editor[e].id \in Ids /\ editor[e].row \in EndpointRow
    BY <1>5 DEF Insert, Editor
  <2>2. endpoints' \in [Ids -> EndpointRow \cup {NoEndpoint}]
    BY <1>5, <2>1 DEF Insert
  <2>3. crowded' \in SUBSET Ids
    BY <1>5, <2>1 DEF Insert
  <2>. QED
    BY <1>5, <2>2, <2>3 DEF Insert, OverEditor, Editor
<1>6. ASSUME NEW e \in Editors, Save(e) PROVE ServerTypeOK'
  <2>. DEFINE i == editor[e].id
              new == editor[e].row
              old == editor[e].old
              saved == [endpoints[i] EXCEPT !.route = IF new.route # old.route THEN new.route ELSE @,
                                            !.enabled = IF new.enabled # old.enabled THEN new.enabled ELSE @]
  <2>1. i \in Ids /\ new \in EndpointRow /\ old \in EndpointRow
    BY <1>6 DEF Save, Editor
  <2>2. ASSUME i \in Present PROVE saved \in EndpointRow
    BY <2>1, <2>2 DEF Present, EndpointRow
  <2>3. endpoints' = endpoints \/ (i \in Present /\ endpoints' = [endpoints EXCEPT ![i] = saved])
    BY <1>6 DEF Save
  <2>. HIDE DEF saved
  <2>4. endpoints' \in [Ids -> EndpointRow \cup {NoEndpoint}]
    BY <2>1, <2>2, <2>3
  <2>. QED
    BY <1>6, <2>4 DEF Save, OverEditor, Editor
<1>7. ASSUME NEW c \in Callers, NEW request \in Incoming, NEW who \in People, NEW allowed \in BOOLEAN,
             Receive(c, request, who, allowed)
      PROVE  ServerTypeOK'
  <2>1. CASE UNCHANGED run /\ call' = [call EXCEPT ![c] = Answer(404)]
    <3>1. call' \in [Callers -> Call]
      BY <2>1 DEF Answer, Call
    <3>. QED
      BY <1>7, <2>1, <3>1 DEF Receive
  <2>2. ASSUME NEW i \in Candidates(request), UNCHANGED run, Refusal(endpoints[i], who, allowed) # 0,
               call' = [call EXCEPT ![c] = Answer(Refusal(endpoints[i], who, allowed))]
        PROVE  ServerTypeOK'
    <3>1. Refusal(endpoints[i], who, allowed) \in Nat
      BY DEF Refusal
    <3>2. call' \in [Callers -> Call]
      BY <2>2, <3>1 DEF Answer, Call
    <3>. QED
      BY <1>7, <2>2, <3>2 DEF Receive
  <2>3. ASSUME NEW i \in Candidates(request), call' = [call EXCEPT ![c] = [phase |-> "serving", of |-> i]],
               run' = [run EXCEPT ![c] = NewRun(i, endpoints[i].actions)]
        PROVE  ServerTypeOK'
    <3>1. i \in Ids /\ endpoints[i].actions \in Lists
      BY DEF Candidates, Enabled, Present, EndpointRow
    <3>2. NewRun(i, endpoints[i].actions) \in Runs
      BY <3>1, NewRunIsRun
    <3>3. run' \in [Runners -> Runs \cup {NoRun, Ended}]
      BY <2>3, <3>2
    <3>4. call' \in [Callers -> Call]
      BY <2>3, <3>1 DEF Call
    <3>. QED
      BY <1>7, <3>3, <3>4 DEF Receive
  <2>. QED
    BY <1>7, <2>1, <2>2, <2>3 DEF Receive
<1>8. ASSUME NEW c \in Callers, ActFor(c) PROVE ServerTypeOK'
  <2>1. c \in Runners /\ Act(c) /\ UNCHANGED endpointVars
    BY <1>8 DEF ActFor, Runners
  <2>2. run' \in [Runners -> Runs \cup {NoRun, Ended}] /\ effects' \in SUBSET Effect
    BY <2>1, ActKeepsTypes
  <2>. QED
    BY <2>1, <2>2, ActSteps DEF endpointVars
<1>9. ASSUME NEW c \in Callers, TimedOut(c) PROVE ServerTypeOK'
  <2>1. c \in Runners /\ run[c] \in Runs
    BY <1>9 DEF TimedOut, Runners
  <2>2. TimeOut(run[c]) \in Runs
    BY <2>1, TimedOutIsRun
  <2>3. [by |-> c, of |-> run[c].of, at |-> run[c].next] \in Effect
    BY <2>1 DEF Effect, Runs
  <2>4. effects' = effects \/ effects' = effects \cup {[by |-> c, of |-> run[c].of, at |-> run[c].next]}
    BY <1>9 DEF TimedOut
  <2>5. effects' \in SUBSET Effect
    BY <2>3, <2>4
  <2>6. run' \in [Runners -> Runs \cup {NoRun, Ended}]
    BY <1>9, <2>2 DEF TimedOut
  <2>. QED
    BY <1>9, <2>5, <2>6 DEF TimedOut, endpointVars
<1>10. ASSUME NEW c \in Callers, Respond(c) PROVE ServerTypeOK'
  <2>1. c \in Runners
    BY DEF Runners
  <2>2. LogOf(c) \in Log
    BY <1>10, <2>1, LogIsLog DEF Respond
  <2>3. logs' \in SUBSET Log
    BY <1>10, <2>2 DEF Respond, LogsAfter
  <2>4. run' \in [Runners -> Runs \cup {NoRun, Ended}]
    BY <1>10 DEF Respond
  <2>5. call' \in [Callers -> Call]
    BY <1>10 DEF Respond, Answer, Call
  <2>. QED
    BY <1>10, <2>3, <2>4, <2>5 DEF Respond
<1>. QED
  BY <1>1, <1>2, <1>3, <1>4, <1>5, <1>6, <1>7, <1>8, <1>9, <1>10 DEF EndpointNext

LEMMA StopKeepsTypes == ServerTypeOK /\ StopServer => ServerTypeOK'
<1>. SUFFICES ASSUME ServerTypeOK, StopServer PROVE ServerTypeOK'
  OBVIOUS
<1>. USE DEF ServerTypeOK, StopServer, Stop
<1>1. registry' \in SUBSET Hook /\ counter' \in Nat /\ stops' \in Nat /\ auditing' \in BOOLEAN
  BY StartupHooks DEF Startup, StartupCount
<1>2. writes' \in [Writers -> Write]
  <2>1. \A x \in Write : [x EXCEPT !.phase = "undone"] \in Write
    BY DEF Write
  <2>. QED
    BY <2>1
<1>3. tasks' \in [Writers -> Task]
  <2>1. [NoTask EXCEPT !.phase = "lost"] \in Task
    BY DEF NoTask, Task, TaskPhases, EventOrNone, Scope
  <2>. QED
    BY <2>1
<1>4. run' \in [Runners -> Runs \cup {NoRun, Ended}]
  OBVIOUS
<1>5. editor' \in [Editors -> Editor]
  BY DEF IdleEditor, OverEditor, Editor
<1>6. call' \in [Callers -> Call]
  <2>1. Answer(0) \in Call
    BY DEF Answer, Call
  <2>. QED
    BY <2>1
<1>. QED
  BY <1>1, <1>2, <1>3, <1>4, <1>5, <1>6

-----------------------------------------------------------------------------
(* The chain of a write: whoever is in it was registered.                   *)

\* What a registered hook that does something special is.
LEMMA HookKinds ==
  ASSUME NEW h, IsRegistered(h)
  PROVE  /\ h.does = "api" => h = ApiHook(h.event)
         /\ h.does = "audit" => h = AuditHook(h.event)
         /\ h.does = "replace" \/ h.stop => /\ h.id \in Customs /\ CustomHook[h.id].does = h.does
                                            /\ CustomHook[h.id].stop = h.stop
<1>1. ASSUME NEW e \in Events, h \in AtStartup(e)
      PROVE  /\ h.does = "api" => h = ApiHook(h.event)
             /\ h.does = "audit" => h = AuditHook(h.event)
             /\ h.does # "replace" /\ ~h.stop
  BY <1>1 DEF AtStartup, AuditHook, WebhookHook, ApiHook, WorkflowHook
<1>2. ASSUME NEW c \in Customs, h = [CustomHook[c] EXCEPT !.order = h.order]
      PROVE  h.id = c /\ h.does = CustomHook[c].does /\ h.stop = CustomHook[c].stop /\ h.does \notin {"api", "audit"}
  <2>1. CustomHook[c] \in Hook /\ CustomHook[c].id = c /\ CustomHook[c].does \in {"pass", "raise", "abort", "replace"}
    BY HooksAssumption
  <2>. DEFINE n == h.order
              k == CustomHook[c]
  <2>2. h = [k EXCEPT !.order = n]
    BY <1>2
  <2>. HIDE DEF n, k
  <2>3. k \in Hook => h.id = k.id /\ h.does = k.does /\ h.stop = k.stop
    BY <2>2 DEF Hook
  <2>. QED
    BY <2>1, <2>3 DEF k
<1>. QED
  BY <1>1, <1>2 DEF IsRegistered

\* The hooks of a step of the registry.
LEMMA RegistryKept == ServerTypeOK /\ RegistryInv /\ [ServerNext]_serverVars => RegistryInv'
<1>. SUFFICES ASSUME ServerTypeOK, RegistryInv, [ServerNext]_serverVars PROVE RegistryInv'
  OBVIOUS
<1>. USE DEF RegistryInv
<1>1. ASSUME NEW c \in Customs, Register(c) PROVE RegistryInv'
  <2>1. CustomHook[c] \in Hook
    BY HooksAssumption
  <2>2. IsRegistered(Numbered(Decorated(c)))
    <3>1. Numbered(Decorated(c)) = [CustomHook[c] EXCEPT !.order = counter + 1]
      BY DEF Numbered, Decorated
    <3>2. Numbered(Decorated(c)).order = counter + 1
      BY <2>1, <3>1 DEF Hook
    <3>. QED
      BY <3>1, <3>2 DEF IsRegistered
  <2>. QED
    BY <1>1, <2>2 DEF Register, IsRegistered
<1>2. ASSUME NEW h \in registry, Unregister(h) PROVE RegistryInv'
  BY <1>2 DEF Unregister, Removable, AuditHook, IsRegistered
<1>3. CASE Clear
  BY <1>3 DEF Clear, Removable, AuditHook, IsRegistered
<1>4. CASE registry' = Startup
  BY <1>4 DEF Startup, AtStartup, IsRegistered
<1>5. CASE registry' = registry
  BY <1>5 DEF IsRegistered
<1>6. ASSUME NEW w \in Writers,
             \/ \E e \in Events, c \in Collections, user \in BOOLEAN : StartWrite(w, e, c, user)
             \/ RunCallback(w) \/ EndWrite(w)
      PROVE  registry' = registry
  BY <1>6 DEF StartWrite, RunCallback, EndWrite, registryVars
<1>7. TaskNext => registry' = registry
  <2>1. \A x \in Runners : Act(x) => registry' = registry
    BY ActSteps DEF registryVars
  <2>. QED
    BY <2>1 DEF TaskNext, ListHooks, ListsNothing, NextHook, EndTask, Trigger, LogRun, Toggle, Delete, registryVars
<1>8. EndpointNext => registry' = registry
  <2>1. \A c \in Callers : ActFor(c) => registry' = registry
    BY ActSteps DEF ActFor, registryVars
  <2>2. \A c \in Callers, request \in Incoming, who \in People, allowed \in BOOLEAN :
          Receive(c, request, who, allowed) => registry' = registry
    BY DEF Receive, registryVars
  <2>3. \A c \in Callers : TimedOut(c) \/ Respond(c) => registry' = registry
    BY DEF TimedOut, Respond, registryVars
  <2>4. \A e \in Editors : Insert(e) \/ Save(e) => registry' = registry
    BY Zenon DEF Insert, Save, registryVars, hookVars
  <2>5. \A e \in Editors, i \in Ids : ToggleRead(e, i) \/ DeleteEndpoint(e, i) => registry' = registry
    BY DEF ToggleRead, DeleteEndpoint, registryVars, hookVars
  <2>6. \A e \in Editors, i \in Ids, route \in Routes : UpdateRead(e, i, route) => registry' = registry
    BY DEF UpdateRead, registryVars, hookVars
  <2>7. \A e \in Editors, i \in Ids, route \in Routes, list \in Lists, open \in BOOLEAN :
          CreateRead(e, i, route, list, open) => registry' = registry
    BY DEF CreateRead, registryVars, hookVars
  <2>. QED
    BY <2>1, <2>2, <2>3, <2>4, <2>5, <2>6, <2>7, Zenon DEF EndpointNext
<1>9. StopServer => registry' = Startup
  BY DEF StopServer, Stop
<1>10. CASE HookNext
  <2>1. CASE ChainNext
    BY <1>1, <1>2, <1>3, <1>5, <1>6, <2>1 DEF ChainNext
  <2>. QED
    BY <1>5, <1>7, <1>10, <2>1 DEF HookNext
<1>11. CASE UNCHANGED serverVars
  BY <1>5, <1>11 DEF serverVars, hookVars, registryVars
<1>. QED
  BY <1>4, <1>5, <1>8, <1>9, <1>10, <1>11 DEF ServerNext

\* A callback that does not keep the audit hook from its work leaves it in the chain.
LEMMA CallbackKeepsChain ==
  ASSUME ServerTypeOK, ChainInv, NEW w \in Writers, RunCallback(w)
  PROVE  ChainInv'
<1>. DEFINE x == writes[w]
<1>1. PICK h \in x.chain :
        /\ \E end \in Ends(x, h) : writes' = [writes EXCEPT ![w] = Called(x, h, end)]
        /\ tasks' = IF h.does = "api" /\ ~x.bare THEN [tasks EXCEPT ![w] = Dispatched(w)] ELSE tasks
        /\ x.phase = "chain" /\ UNCHANGED <<registryVars, rows, run, effects, logs, stops>>
  BY DEF RunCallback
<1>2. PICK end \in Ends(x, h) : writes' = [writes EXCEPT ![w] = Called(x, h, end)]
  BY <1>1
<1>. DEFINE y == Called(x, h, end)
            once == [hook |-> h.id, end |-> end]
<1>3. x \in Write /\ writes' \in [Writers -> Write \cup {y}] /\ writes'[w] = y
      /\ \A v \in Writers \ {w} : writes'[v] = writes[v] /\ tasks'[v] = tasks[v]
  BY <1>1, <1>2 DEF ServerTypeOK
<1>4. /\ y.phase = "chain" /\ y.event = x.event /\ y.chain = (IF IsOver(h) THEN {} ELSE x.chain \ {h})
      /\ y.bare = (x.bare \/ h.does = "replace") /\ y.audited = (x.audited \/ end = "recorded")
      /\ y.ran = x.ran \cup {once}
  <2>1. \A chain, bare, audited, ran :
          LET z == [x EXCEPT !.chain = chain, !.bare = bare, !.audited = audited, !.ran = ran] IN
          /\ z.phase = x.phase /\ z.event = x.event /\ z.chain = chain /\ z.bare = bare
          /\ z.audited = audited /\ z.ran = ran
    BY <1>3 DEF Write
  <2>. QED
    BY <1>1, <2>1 DEF Called
<1>5. /\ x.event \in Events /\ IsRegistered(h) /\ h.event = x.event
      /\ \A g \in x.chain : IsRegistered(g) /\ g.event = x.event
      /\ x.audited \/ IsStopped(x) \/ (AuditHook(x.event) \in x.chain /\ ~x.bare)
      /\ ApiHook(x.event) \in x.chain => tasks[w].phase = "none"
  BY <1>1 DEF ChainInv, ChainIsSound
<1>6. /\ h.does = "api" => h = ApiHook(x.event)
      /\ h.does = "audit" => h = AuditHook(x.event)
      /\ h.does = "replace" \/ h.stop => h.id \in Customs /\ CustomHook[h.id].does = h.does
                                         /\ CustomHook[h.id].stop = h.stop
  BY <1>5, HookKinds
<1>7. once.hook = h.id /\ once.end = end
  OBVIOUS
<1>8. y.audited \/ IsStopped(y) \/ (AuditHook(y.event) \in y.chain /\ ~y.bare)
  <2>. HIDE DEF y, once
  <2>1. CASE x.audited
    BY <2>1, <1>4
  <2>2. CASE IsStopped(x)
    BY <2>2, <1>4 DEF IsStopped
  <2>3. CASE AuditHook(x.event) \in x.chain /\ ~x.bare
    <3>1. IsInTheWay(once) => IsStopped(y)
      BY <1>4 DEF IsStopped
    <3>2. CASE h = AuditHook(x.event)
      <4>1. h.does = "audit"
        BY <3>2 DEF AuditHook
      <4>2. end \in {"recorded", "switched off", "no user", "service failed"}
        BY <4>1, <2>3, <1>2 DEF Ends, AuditEnds
      <4>3. CASE end = "recorded"
        BY <4>3, <1>4
      <4>4. CASE end # "recorded"
        BY <4>2, <4>4, <3>1, <1>7 DEF IsInTheWay
      <4>. QED
        BY <4>3, <4>4
    <3>3. CASE h # AuditHook(x.event)
      <4>1. h.does # "audit"
        BY <3>3, <1>6
      <4>2. CASE IsOver(h)
        <5>1. h.does = "abort" \/ (h.does = "raise" /\ h.stop)
          BY <4>2 DEF IsOver, EndsChain
        <5>2. once.end = h.does
          BY <5>1, <1>2, <1>7 DEF Ends
        <5>. QED
          BY <5>1, <5>2, <3>1, <1>6, <1>7 DEF IsInTheWay
      <4>3. CASE ~IsOver(h) /\ h.does = "replace"
        BY <4>3, <3>1, <1>6, <1>7 DEF IsInTheWay
      <4>4. CASE ~IsOver(h) /\ h.does # "replace"
        BY <4>4, <3>3, <2>3, <1>4
      <4>. QED
        BY <4>2, <4>3, <4>4
    <3>. QED
      BY <3>2, <3>3
  <2>. QED
    BY <2>1, <2>2, <2>3, <1>5
<1>9. ApiHook(y.event) \in y.chain => tasks'[w].phase = "none"
  <2>. HIDE DEF y
  <2>. SUFFICES ASSUME ApiHook(y.event) \in y.chain PROVE tasks'[w].phase = "none"
    OBVIOUS
  <2>1. ApiHook(x.event) \in x.chain /\ h # ApiHook(x.event)
    BY <1>4
  <2>2. tasks' = tasks
    BY <2>1, <1>6, <1>1
  <2>. QED
    BY <2>1, <2>2, <1>5
<1>10. \A g \in y.chain : IsRegistered(g) /\ g.event = y.event
  BY <1>4, <1>5
<1>11. ChainIsSound(y, tasks'[w])
  <2>. HIDE DEF y
  <2>. QED
    BY <1>4, <1>5, <1>8, <1>9, <1>10 DEF ChainIsSound
<1>12. \A v \in Writers \ {w} : ChainIsSound(writes'[v], tasks'[v])
  BY <1>3 DEF ChainInv
<1>13. RegistryInv'
  BY <1>1 DEF ChainInv, RegistryInv, registryVars, IsRegistered
<1>. QED
  BY <1>3, <1>11, <1>12, <1>13 DEF ChainInv, ChainIsSound, IsRegistered

\* A step of other kinds starts no task of its own accord.
LEMMA ChainStays ==
  ASSUME NEW x, NEW t, NEW u, ChainIsSound(x, t), t.phase = "none" => u.phase = "none"
  PROVE  ChainIsSound(x, u)
BY DEF ChainIsSound

\* Writes begin with the audit hook in their chain, and end with the chain empty.
LEMMA ChainStepsKeepChain ==
  ASSUME ServerTypeOK, ChainInv, RegistryInv', ChainNext PROVE ChainInv'
<1>1. ASSUME NEW w \in Writers, NEW e \in Events, NEW c \in Collections, NEW user \in BOOLEAN,
             StartWrite(w, e, c, user) PROVE ChainInv'
  <2>. DEFINE y == [Idle EXCEPT !.phase = "chain", !.event = e, !.coll = c, !.user = user,
                                !.chain = Chain(e, NoFilters)]
  <2>1. writes' = [writes EXCEPT ![w] = y] /\ tasks' = tasks /\ writes[w].phase = "idle"
    BY <1>1 DEF StartWrite
  <2>2. y.phase = "chain" /\ y.event = e /\ y.chain = Chain(e, NoFilters) /\ ~y.bare
    BY DEF Idle
  <2>3. \A h : h \in Chain(e, NoFilters) <=> h \in registry /\ h.event = e
    BY DEF Chain, Matches, NoFilters
  <2>4. AuditHook(e) \in Chain(e, NoFilters)
    BY <2>3 DEF ChainInv, RegistryInv, AuditHook
  <2>5. \A h \in Chain(e, NoFilters) : IsRegistered(h) /\ h.event = e
    BY <2>3 DEF ChainInv, RegistryInv
  <2>6. tasks[w].phase = "none"
    BY <2>1 DEF ChainInv, ChainIsSound
  <2>. HIDE DEF y
  <2>7. ChainIsSound(y, tasks'[w])
    BY <2>1, <2>2, <2>4, <2>5, <2>6 DEF ChainIsSound
  <2>8. writes'[w] = y /\ \A v \in Writers \ {w} : writes'[v] = writes[v]
    BY <2>1 DEF ServerTypeOK
  <2>9. \A v \in Writers : ChainIsSound(writes'[v], tasks'[v])
    BY <2>1, <2>7, <2>8 DEF ChainInv
  <2>. QED
    BY <2>9 DEF ChainInv, ChainIsSound, IsRegistered
<1>2. ASSUME NEW w \in Writers, EndWrite(w) PROVE ChainInv'
  <2>1. PICK end \in {"committed", "undone"} : writes' = [writes EXCEPT ![w].phase = end]
    BY <1>2 DEF EndWrite
  <2>2. writes[w].phase = "chain" /\ writes[w].chain = {} /\ tasks' = tasks
    BY <1>2 DEF EndWrite
  <2>3. writes[w].audited \/ IsStopped(writes[w])
    BY <2>2 DEF ChainInv, ChainIsSound
  <2>4. /\ writes'[w].phase = end /\ writes'[w].audited = writes[w].audited /\ writes'[w].ran = writes[w].ran
        /\ \A v \in Writers \ {w} : writes'[v] = writes[v]
    BY <2>1 DEF ServerTypeOK, Write
  <2>5. ChainIsSound(writes'[w], tasks'[w])
    BY <2>3, <2>4 DEF ChainIsSound, IsStopped
  <2>6. \A v \in Writers : ChainIsSound(writes'[v], tasks'[v])
    BY <2>2, <2>4, <2>5 DEF ChainInv
  <2>. QED
    BY <2>6 DEF ChainInv, ChainIsSound, IsRegistered
<1>3. CASE UNCHANGED <<writes, tasks>>
  BY <1>3 DEF ChainInv, ChainIsSound, IsRegistered
<1>4. (\E c \in Customs : Register(c)) \/ (\E h \in registry : Unregister(h)) \/ Clear => UNCHANGED <<writes, tasks>>
  BY DEF Register, Unregister, Clear
<1>. QED
  BY <1>1, <1>2, <1>3, <1>4, CallbackKeepsChain DEF ChainNext

-----------------------------------------------------------------------------
(* What the other steps change.                                             *)

\* Requests that manage endpoints change nothing but endpoints; those that are
\* served start a run, take a step of it or end it.
LEMMA EndpointSteps ==
  ASSUME ServerTypeOK, EndpointNext
  PROVE  \/ UNCHANGED <<registryVars, writes, rows, tasks, run, effects, stops>> /\ logs' \subseteq logs
         \/ \E c \in Callers, i \in Ids, list \in Lists :
              /\ run[c] = NoRun /\ run' = [run EXCEPT ![c] = NewRun(i, list)]
              /\ UNCHANGED <<registryVars, writes, rows, tasks, effects, logs, stops>>
         \/ \E c \in Callers : ActFor(c) \/ TimedOut(c) \/ Respond(c)
<1>. DEFINE Still == UNCHANGED <<registryVars, writes, rows, tasks, run, effects, stops>> /\ logs' \subseteq logs
<1>1. ASSUME NEW c \in Callers, NEW request \in Incoming, NEW who \in People, NEW allowed \in BOOLEAN,
             Receive(c, request, who, allowed)
      PROVE  \/ Still
             \/ \E i \in Ids, list \in Lists :
                  /\ run[c] = NoRun /\ run' = [run EXCEPT ![c] = NewRun(i, list)]
                  /\ UNCHANGED <<registryVars, writes, rows, tasks, effects, logs, stops>>
  <2>1. run[c] = NoRun /\ UNCHANGED <<registryVars, writes, rows, tasks, effects, logs, stops>>
    BY <1>1 DEF Receive
  <2>2. run' = run \/ \E i \in Candidates(request) : run' = [run EXCEPT ![c] = NewRun(i, endpoints[i].actions)]
    BY <1>1 DEF Receive
  <2>3. \A i \in Candidates(request) : i \in Ids /\ endpoints[i].actions \in Lists
    BY DEF ServerTypeOK, Candidates, Enabled, Present, EndpointRow
  <2>. QED
    BY <2>1, <2>2, <2>3
<1>2. \A e \in Editors : Insert(e) \/ Save(e) => Still
  BY Zenon DEF Insert, Save, hookVars
<1>3. \A e \in Editors, i \in Ids : ToggleRead(e, i) \/ DeleteEndpoint(e, i) => Still
  BY DEF ToggleRead, DeleteEndpoint, hookVars
<1>4. \A e \in Editors, i \in Ids, route \in Routes : UpdateRead(e, i, route) => Still
  BY DEF UpdateRead, hookVars
<1>5. \A e \in Editors, i \in Ids, route \in Routes, list \in Lists, open \in BOOLEAN :
        CreateRead(e, i, route, list, open) => Still
  BY DEF CreateRead, hookVars
<1>. HIDE DEF Still
<1>6. Still \/ \E c \in Callers :
        \/ \E request \in Incoming, who \in People, allowed \in BOOLEAN : Receive(c, request, who, allowed)
        \/ ActFor(c) \/ TimedOut(c) \/ Respond(c)
  BY <1>2, <1>3, <1>4, <1>5, Zenon DEF EndpointNext
<1>. QED
  BY <1>1, <1>6 DEF Still

\* No step of a task, a run or a row starts a task.
LEMMA TaskStepsStartNone ==
  ASSUME ServerTypeOK, TaskNext
  PROVE  writes' = writes /\ \A w \in Writers : tasks[w].phase = "none" => tasks'[w].phase = "none"
<1>. DEFINE Quiet == writes' = writes /\ \A w \in Writers : tasks[w].phase = "none" => tasks'[w].phase = "none"
<1>. USE DEF ServerTypeOK
<1>1. ASSUME NEW w \in Writers, ListHooks(w) \/ ListsNothing(w) \/ NextHook(w) \/ EndTask(w) PROVE Quiet
  <2>1. tasks[w].phase # "none" /\ writes' = writes
    BY <1>1 DEF ListHooks, ListsNothing, NextHook, EndTask
  <2>2. \A v \in Writers \ {w} : tasks'[v] = tasks[v]
    BY <1>1 DEF ListHooks, ListsNothing, NextHook, EndTask
  <2>. QED
    BY <2>1, <2>2
<1>2. ASSUME NEW m \in Managers, NEW r \in Rows, Trigger(m, r) PROVE Quiet
  BY <1>2 DEF Trigger
<1>3. ASSUME NEW x \in Runners, Act(x) PROVE Quiet
  BY <1>3, ActSteps
<1>4. ASSUME NEW x \in Runners, LogRun(x) PROVE Quiet
  <2>1. PICK written \in BOOLEAN :
          tasks' = IF x \in Writers THEN [tasks EXCEPT ![x] = AfterLog(x, written)] ELSE tasks
    BY <1>4 DEF LogRun
  <2>2. x \in Writers => AfterLog(x, written).phase = tasks[x].phase
    BY DEF AfterLog, Task
  <2>. QED
    BY <1>4, <2>1, <2>2 DEF LogRun
<1>5. ASSUME NEW r \in Rows, Toggle(r) \/ Delete(r) PROVE Quiet
  <2>1. tasks' = [w \in Writers |-> [tasks[w] EXCEPT !.due = tasks[w].due \ {r}]] /\ writes' = writes
    BY <1>5 DEF Toggle, Delete, NoLongerDue
  <2>2. \A w \in Writers : [tasks[w] EXCEPT !.due = tasks[w].due \ {r}].phase = tasks[w].phase
    BY DEF Task
  <2>. QED
    BY <2>1, <2>2
<1>. HIDE DEF Quiet
<1>6. Quiet
  BY <1>1, <1>2, <1>3, <1>4, <1>5 DEF TaskNext
<1>. QED
  BY <1>6 DEF Quiet

\* A stop undoes the writes under way; nothing else touches a write.
LEMMA NextKeepsChain ==
  ASSUME ServerTypeOK, ChainInv, [ServerNext]_serverVars PROVE ChainInv'
<1>1. RegistryInv'
  BY RegistryKept DEF ChainInv
<1>2. ASSUME writes' = writes, \A w \in Writers : tasks[w].phase = "none" => tasks'[w].phase = "none"
      PROVE  ChainInv'
  <2>1. \A w \in Writers : ChainIsSound(writes'[w], tasks'[w])
    BY <1>2, ChainStays DEF ChainInv
  <2>. QED
    BY <1>1, <2>1 DEF ChainInv, ChainIsSound, IsRegistered
<1>3. CASE HookNext
  BY <1>1, <1>2, <1>3, ChainStepsKeepChain, TaskStepsStartNone DEF HookNext
<1>4. CASE EndpointNext
  <2>1. \A c \in Callers : ActFor(c) \/ TimedOut(c) \/ Respond(c) => UNCHANGED <<writes, tasks>>
    BY ActSteps DEF ActFor, TimedOut, Respond
  <2>. QED
    BY <1>2, <1>4, <2>1, EndpointSteps
<1>5. CASE StopServer
  <2>1. ASSUME NEW w \in Writers PROVE ChainIsSound(writes'[w], tasks'[w])
    <3>1. writes'[w] = IF writes[w].phase = "chain" THEN [writes[w] EXCEPT !.phase = "undone"] ELSE writes[w]
      BY <1>5 DEF StopServer, Stop
    <3>2. tasks'[w] = IF tasks[w].phase \in {"queued", "running"} THEN [NoTask EXCEPT !.phase = "lost"] ELSE tasks[w]
      BY <1>5 DEF StopServer, Stop
    <3>3. CASE writes[w].phase = "chain"
      BY <3>1, <3>3 DEF ChainIsSound, ServerTypeOK, Write
    <3>4. CASE writes[w].phase # "chain"
      BY <3>1, <3>2, <3>4, ChainStays DEF ChainInv
    <3>. QED
      BY <3>3, <3>4
  <2>. QED
    BY <1>1, <2>1 DEF ChainInv, ChainIsSound, IsRegistered
<1>6. CASE UNCHANGED serverVars
  BY <1>2, <1>6 DEF serverVars, hookVars
<1>. QED
  BY <1>3, <1>4, <1>5, <1>6 DEF ServerNext

LEMMA ChainAtFirst == ServerInit => ChainInv
<1>. SUFFICES ASSUME ServerInit PROVE ChainInv
  OBVIOUS
<1>1. RegistryInv
  BY DEF ServerInit, Startup, AtStartup, RegistryInv, IsRegistered
<1>2. \A w \in Writers : ChainIsSound(writes[w], tasks[w])
  BY DEF ServerInit, Idle, NoTask, ChainIsSound
<1>. QED
  BY <1>1, <1>2 DEF ChainInv

-----------------------------------------------------------------------------
(* The task of a write: what is due is still to come.                       *)

\* A run that starts is a run, and is of its row.
LEMMA NewRunIsOf ==
  ASSUME NEW of \in Rows \cup Ids, NEW list \in Lists
  PROVE  NewRun(of, list) \notin {NoRun, Ended} /\ NewRun(of, list).of = of
BY NewRunIsRun, EndpointsAssumption DEF NewRun

\* A step of a run leaves it a run of the same list.
LEMMA StepsKeepOf ==
  ASSUME NEW r \in Runs
  PROVE  \A q \in {Skip(r), Succeed(r), Fail(r)} : q \notin {NoRun, Ended} /\ q.of = r.of /\ q.actions = r.actions
<1>1. Skip(r).of = r.of /\ Skip(r).actions = r.actions /\ Skip(r) \in Runs
  BY StepsOfRuns DEF Skip, Runs
<1>2. Succeed(r).of = r.of /\ Succeed(r).actions = r.actions
  BY <1>1 DEF Succeed, Runs
<1>3. Fail(r).of = r.of /\ Fail(r).actions = r.actions
  BY DEF Fail, Runs
<1>. QED
  BY <1>1, <1>2, <1>3, StepsOfRuns, EndpointsAssumption

LEMMA ActKeepsOf ==
  ASSUME ServerTypeOK, NEW x \in Runners, Act(x)
  PROVE  /\ run[x] \in Runs /\ run'[x] \notin {NoRun, Ended} /\ run'[x].of = run[x].of
         /\ \A y \in Runners \ {x} : run'[y] = run[y]
<1>1. run[x] \in Runs
  BY ActSteps DEF ServerTypeOK
<1>2. run' = [run EXCEPT ![x] = Skip(run[x])] \/ run' = [run EXCEPT ![x] = Succeed(run[x])]
      \/ run' = [run EXCEPT ![x] = Fail(run[x])]
  BY ActSteps
<1>3. run'[x] \in {Skip(run[x]), Succeed(run[x]), Fail(run[x])} /\ \A y \in Runners \ {x} : run'[y] = run[y]
  BY <1>2 DEF ServerTypeOK
<1>. QED
  BY <1>1, <1>3, StepsKeepOf

\* Requests to endpoints leave the runs of writes alone.
LEMMA EndpointsLeaveRuns ==
  ASSUME ServerTypeOK, EndpointNext
  PROVE  UNCHANGED <<rows, tasks>> /\ \A w \in Writers : run'[w] = run[w]
<1>1. \A c \in Callers : c \in Runners /\ c \notin Writers
  BY HooksAssumption DEF Runners
<1>2. \A w \in Writers : w \in Runners
  BY DEF Runners
<1>3. \A c \in Callers : ActFor(c) => UNCHANGED <<rows, tasks>> /\ \A w \in Writers : run'[w] = run[w]
  BY <1>1, <1>2, ActSteps, ActKeepsOf DEF ActFor
<1>4. ASSUME NEW c \in Callers, TimedOut(c) \/ Respond(c)
      PROVE  UNCHANGED <<rows, tasks>> /\ \A w \in Writers : run'[w] = run[w]
  <2>1. UNCHANGED <<rows, tasks>> /\ \E r : run' = [run EXCEPT ![c] = r]
    BY <1>4 DEF TimedOut, Respond
  <2>. QED
    BY <1>1, <1>2, <2>1 DEF ServerTypeOK
<1>. QED
  BY <1>1, <1>2, <1>3, <1>4, EndpointSteps DEF ServerTypeOK

LEMMA TaskAtFirst == ServerInit => TaskInv
BY DEF ServerInit, NoTask, TaskInv, TaskIsSound, Runners

\* A write that dispatches has no task yet: the new one has everything due before it.
LEMMA DispatchKeepsTasks ==
  ASSUME ServerTypeOK, ChainInv, TaskInv, NEW w \in Writers, RunCallback(w)
  PROVE  TaskInv'
<1>. DEFINE x == writes[w]
<1>1. PICK h \in x.chain :
        /\ tasks' = IF h.does = "api" /\ ~x.bare THEN [tasks EXCEPT ![w] = Dispatched(w)] ELSE tasks
        /\ x.phase = "chain" /\ UNCHANGED <<rows, run>>
  BY DEF RunCallback
<1>2. CASE tasks' = tasks
  BY <1>1, <1>2 DEF TaskInv, TaskIsSound, Listed, Awaiting, RowOf
<1>3. CASE h.does = "api" /\ tasks' = [tasks EXCEPT ![w] = Dispatched(w)]
  <2>1. IsRegistered(h) /\ h.event = x.event /\ (ApiHook(x.event) \in x.chain => tasks[w].phase = "none")
    BY <1>1 DEF ChainInv, ChainIsSound
  <2>2. tasks[w].phase = "none"
    BY <2>1, <1>3, HookKinds
  <2>3. run[w] = NoRun
    BY <2>2 DEF TaskInv, TaskIsSound
  <2>4. Dispatched(w).phase = "queued" /\ Dispatched(w).due = Listed(Dispatched(w).event, Dispatched(w).coll)
    BY DEF Dispatched, NoTask
  <2>5. tasks'[w] = Dispatched(w) /\ \A v \in Writers \ {w} : tasks'[v] = tasks[v]
    BY <1>3 DEF ServerTypeOK
  <2>. DEFINE t == Dispatched(w)
  <2>. HIDE DEF t
  <2>6. TaskIsSound(t, run[w])
    BY <2>3, <2>4 DEF TaskIsSound, t
  <2>7. \A v \in Writers : TaskIsSound(tasks'[v], run[v])
    BY <2>5, <2>6 DEF TaskInv, t
  <2>. QED
    BY <1>1, <2>7 DEF TaskInv, TaskIsSound, Listed, Awaiting, RowOf
<1>. QED
  BY <1>1, <1>2, <1>3

\* Whatever leaves the list of a task is at work, or no longer due.
LEMMA TaskStepsKeepTasks ==
  ASSUME ServerTypeOK, TaskInv, TaskNext PROVE TaskInv'
<1>. USE DEF ServerTypeOK
<1>1. \A w \in Writers : w \in Runners
  BY DEF Runners
<1>2. ASSUME NEW w \in Writers, rows' = rows, \A v \in Writers \ {w} : tasks'[v] = tasks[v] /\ run'[v] = run[v],
             TaskIsSound(tasks'[w], run'[w])
      PROVE  TaskInv'
  <2>1. \A v \in Writers : TaskIsSound(tasks'[v], run'[v])
    BY <1>2 DEF TaskInv
  <2>. QED
    BY <2>1, <1>2 DEF TaskInv, TaskIsSound, Listed, Awaiting, RowOf
<1>3. ASSUME NEW w \in Writers, ListHooks(w) PROVE TaskInv'
  <2>. DEFINE t == tasks[w]
              todo == {[id |-> r, row |-> rows[r]] : r \in Listed(t.event, t.coll)}
              u == [t EXCEPT !.phase = "running", !.todo = todo]
  <2>1. tasks' = [tasks EXCEPT ![w] = u] /\ UNCHANGED <<rows, run>> /\ t.phase = "queued" /\ t \in Task
    BY <1>3 DEF ListHooks
  <2>2. run[w] = NoRun /\ t.due \subseteq Listed(t.event, t.coll)
    BY <2>1 DEF TaskInv, TaskIsSound
  <2>3. u.phase = "running" /\ u.todo = todo /\ u.due = t.due
    BY <2>1 DEF Task
  <2>4. tasks'[w] = u /\ \A v \in Writers \ {w} : tasks'[v] = tasks[v] /\ run'[v] = run[v]
    BY <2>1
  <2>5. Listed(t.event, t.coll) \subseteq {h.id : h \in todo}
    <3>1. \A r \in Listed(t.event, t.coll) : [id |-> r, row |-> rows[r]] \in todo
      OBVIOUS
    <3>2. \A r : [id |-> r, row |-> rows[r]].id = r
      OBVIOUS
    <3>. HIDE DEF todo
    <3>. QED
      BY <3>1, <3>2
  <2>. HIDE DEF todo, u
  <2>6. TaskIsSound(tasks'[w], run'[w])
    BY <2>1, <2>2, <2>3, <2>4, <2>5 DEF TaskIsSound, Awaiting
  <2>. QED
    BY <1>2, <2>1, <2>4, <2>6
<1>4. ASSUME NEW w \in Writers, NextHook(w) PROVE TaskInv'
  <2>. DEFINE t == tasks[w]
  <2>1. PICK h \in t.todo :
          /\ tasks' = [tasks EXCEPT ![w].todo = @ \ {h},
                                    ![w].due = IF Holds(h.row.cond) THEN @ ELSE @ \ {h.id}]
          /\ run' = IF Holds(h.row.cond) THEN [run EXCEPT ![w] = NewRun(h.id, h.row.actions)] ELSE run
          /\ t.phase = "running" /\ run[w] = NoRun /\ rows' = rows
    BY <1>4 DEF NextHook
  <2>2. t \in Task /\ h.id \in Rows /\ h.row.actions \in Lists
    BY <2>1 DEF Task, Todo, HookRow
  <2>3. t.due \subseteq Awaiting(t)
    BY <2>1 DEF TaskInv, TaskIsSound, RowOf
  <2>4. /\ tasks'[w].phase = "running" /\ tasks'[w].todo = t.todo \ {h}
        /\ tasks'[w].due = (IF Holds(h.row.cond) THEN t.due ELSE t.due \ {h.id})
        /\ \A v \in Writers \ {w} : tasks'[v] = tasks[v] /\ run'[v] = run[v]
    BY <1>1, <2>1, <2>2 DEF Task
  <2>5. Awaiting(t) \subseteq Awaiting(tasks'[w]) \cup {h.id}
    BY <2>4 DEF Awaiting
  <2>6. TaskIsSound(tasks'[w], run'[w])
    <3>1. CASE Holds(h.row.cond)
      <4>1. RowOf(run'[w]) = {h.id}
        BY <1>1, <2>1, <2>2, <3>1, NewRunIsOf DEF RowOf
      <4>. QED
        BY <2>3, <2>4, <2>5, <3>1, <4>1 DEF TaskIsSound
    <3>2. CASE ~Holds(h.row.cond)
      BY <2>3, <2>4, <2>5, <3>2 DEF TaskIsSound
    <3>. QED
      BY <3>1, <3>2
  <2>. QED
    BY <1>2, <2>1, <2>4, <2>6
<1>11. ASSUME NEW w \in Writers, ListsNothing(w) PROVE TaskInv'
  <2>1. PICK p \in {"unread", "unasked"} : tasks' = [tasks EXCEPT ![w].phase = p]
    BY <1>11 DEF ListsNothing
  <2>2. UNCHANGED <<rows, run>> /\ tasks[w].phase = "queued" /\ tasks[w] \in Task
    BY <1>11 DEF ListsNothing
  <2>3. run[w] = NoRun
    BY <2>2 DEF TaskInv, TaskIsSound
  <2>4. tasks'[w].phase = p /\ \A v \in Writers \ {w} : tasks'[v] = tasks[v] /\ run'[v] = run[v]
    BY <2>1, <2>2 DEF Task
  <2>5. TaskIsSound(tasks'[w], run'[w])
    BY <2>2, <2>3, <2>4 DEF TaskIsSound
  <2>. QED
    BY <1>2, <2>2, <2>4, <2>5
<1>5. ASSUME NEW w \in Writers, EndTask(w) PROVE TaskInv'
  <2>1. tasks' = [tasks EXCEPT ![w].phase = "over"] /\ UNCHANGED <<rows, run>> /\ run[w] = NoRun
        /\ tasks[w].todo = {} /\ tasks[w].phase = "running" /\ tasks[w] \in Task
    BY <1>5 DEF EndTask
  <2>2. tasks[w].due = {}
    BY <2>1 DEF TaskInv, TaskIsSound, Awaiting, RowOf
  <2>3. /\ tasks'[w].phase = "over" /\ tasks'[w].due = {}
        /\ \A v \in Writers \ {w} : tasks'[v] = tasks[v] /\ run'[v] = run[v]
    BY <2>1, <2>2 DEF Task
  <2>4. TaskIsSound(tasks'[w], run'[w])
    BY <2>1, <2>3 DEF TaskIsSound
  <2>. QED
    BY <1>2, <2>1, <2>3, <2>4
<1>6. ASSUME UNCHANGED <<rows, tasks>>, \A w \in Writers : run'[w] = run[w] PROVE TaskInv'
  BY <1>6 DEF TaskInv, TaskIsSound, Listed, Awaiting, RowOf
<1>7. ASSUME NEW m \in Managers, NEW r \in Rows, Trigger(m, r) PROVE TaskInv'
  <2>1. m \notin Writers
    BY HooksAssumption
  <2>. QED
    BY <1>1, <1>6, <1>7, <2>1 DEF Trigger
<1>8. ASSUME NEW x \in Runners, Act(x) PROVE TaskInv'
  <2>1. UNCHANGED <<rows, tasks>>
    BY <1>8, ActSteps
  <2>2. CASE x \notin Writers
    BY <1>1, <1>6, <1>8, <2>1, <2>2, ActKeepsOf
  <2>3. CASE x \in Writers
    <3>1. tasks[x].phase = "running"
      BY <1>8, <2>3, ActSteps DEF TaskInv, TaskIsSound
    <3>2. RowOf(run'[x]) = RowOf(run[x])
      BY <1>8, ActSteps, ActKeepsOf DEF RowOf
    <3>3. TaskIsSound(tasks'[x], run'[x])
      BY <2>1, <2>3, <3>1, <3>2 DEF TaskInv, TaskIsSound
    <3>4. \A v \in Writers \ {x} : tasks'[v] = tasks[v] /\ run'[v] = run[v]
      BY <1>1, <1>8, <2>1, ActKeepsOf
    <3>. QED
      BY <1>2, <2>1, <2>3, <3>3, <3>4
  <2>. QED
    BY <2>2, <2>3
<1>9. ASSUME NEW x \in Runners, LogRun(x) PROVE TaskInv'
  <2>1. PICK written \in BOOLEAN :
          tasks' = IF x \in Writers THEN [tasks EXCEPT ![x] = AfterLog(x, written)] ELSE tasks
    BY <1>9 DEF LogRun
  <2>2. run' = [run EXCEPT ![x] = IF x \in Writers THEN NoRun ELSE Ended] /\ rows' = rows
        /\ run[x] \notin {NoRun, Ended}
    BY <1>9 DEF LogRun
  <2>3. CASE x \notin Writers
    BY <1>1, <1>6, <2>1, <2>2, <2>3
  <2>4. CASE x \in Writers
    <3>1. tasks[x].phase = "running" /\ tasks[x].due \subseteq Awaiting(tasks[x]) \cup {run[x].of}
      BY <2>2, <2>4 DEF TaskInv, TaskIsSound, RowOf
    <3>2. tasks'[x] = AfterLog(x, written) /\ run'[x] = NoRun
          /\ \A v \in Writers \ {x} : tasks'[v] = tasks[v] /\ run'[v] = run[v]
      BY <1>1, <2>1, <2>2, <2>4
    <3>3. /\ AfterLog(x, written).phase = tasks[x].phase /\ AfterLog(x, written).todo = tasks[x].todo
          /\ AfterLog(x, written).due = tasks[x].due \ {run[x].of}
      BY <2>4 DEF AfterLog, Task
    <3>4. TaskIsSound(tasks'[x], run'[x])
      BY <3>1, <3>2, <3>3 DEF TaskIsSound, Awaiting
    <3>. QED
      BY <1>2, <2>2, <2>4, <3>2, <3>4
  <2>. QED
    BY <2>3, <2>4
<1>10. ASSUME NEW r \in Rows, Toggle(r) \/ Delete(r) PROVE TaskInv'
  <2>1. tasks' = [w \in Writers |-> [tasks[w] EXCEPT !.due = tasks[w].due \ {r}]] /\ run' = run
    BY <1>10 DEF Toggle, Delete, NoLongerDue
  <2>2. \A q \in Rows \ {r} : rows'[q] = rows[q]
    BY <1>10 DEF Toggle, Delete
  <2>3. \A e, c : Listed(e, c) \ {r} \subseteq Listed(e, c)'
    BY <2>2 DEF Listed
  <2>4. ASSUME NEW w \in Writers PROVE TaskIsSound(tasks[w], run[w])'
    <3>. DEFINE t == tasks[w]
    <3>1. /\ tasks'[w].phase = t.phase /\ tasks'[w].event = t.event /\ tasks'[w].coll = t.coll
          /\ tasks'[w].todo = t.todo /\ tasks'[w].due = t.due \ {r}
      BY <2>1 DEF Task
    <3>2. TaskIsSound(t, run[w])
      BY DEF TaskInv
    <3>. QED
      BY <2>1, <2>3, <3>1, <3>2 DEF TaskIsSound, Awaiting, RowOf
  <2>. QED
    BY <2>4 DEF TaskInv
<1>. QED
  BY <1>3, <1>4, <1>5, <1>7, <1>8, <1>9, <1>10, <1>11 DEF TaskNext

\* A stop loses the tasks and what was due in them.
LEMMA NextKeepsTasks ==
  ASSUME ServerTypeOK, ChainInv, TaskInv, [ServerNext]_serverVars PROVE TaskInv'
<1>1. ASSUME UNCHANGED <<rows, tasks>>, \A w \in Writers : run'[w] = run[w] PROVE TaskInv'
  BY <1>1 DEF TaskInv, TaskIsSound, Listed, Awaiting, RowOf
<1>2. CASE HookNext
  <2>1. CASE ChainNext
    <3>1. (\E c \in Customs : Register(c)) \/ (\E h \in registry : Unregister(h)) \/ Clear
          \/ (\E w \in Writers : \/ \E e \in Events, c \in Collections, user \in BOOLEAN : StartWrite(w, e, c, user)
                             \/ EndWrite(w))
          => UNCHANGED <<rows, tasks, run>>
      BY DEF Register, Unregister, Clear, StartWrite, EndWrite
    <3>. QED
      BY <1>1, <2>1, <3>1, DispatchKeepsTasks DEF ChainNext
  <2>. QED
    BY <1>2, <2>1, TaskStepsKeepTasks DEF HookNext
<1>3. CASE EndpointNext
  BY <1>1, <1>3, EndpointsLeaveRuns
<1>4. CASE StopServer
  <2>1. ASSUME NEW w \in Writers PROVE TaskIsSound(tasks[w], run[w])'
    <3>1. run'[w] = NoRun
      BY <1>4 DEF StopServer, Stop, Runners
    <3>2. tasks'[w] = IF tasks[w].phase \in {"queued", "running"} THEN [NoTask EXCEPT !.phase = "lost"] ELSE tasks[w]
      BY <1>4 DEF StopServer, Stop
    <3>3. CASE tasks[w].phase \in {"queued", "running"}
      BY <3>1, <3>2, <3>3 DEF NoTask, TaskIsSound
    <3>4. CASE tasks[w].phase \notin {"queued", "running"}
      BY <3>1, <3>2, <3>4 DEF TaskInv, TaskIsSound
    <3>. QED
      BY <3>3, <3>4
  <2>. QED
    BY <2>1 DEF TaskInv
<1>5. CASE UNCHANGED serverVars
  BY <1>1, <1>5 DEF serverVars, hookVars
<1>. QED
  BY <1>2, <1>3, <1>4, <1>5 DEF ServerNext

-----------------------------------------------------------------------------
(* The limit of endpoints.                                                  *)

\* What a request is about to insert, it has found room for.
LimitInv ==
  /\ IsFiniteSet(Present)
  /\ LimitIsKept
  /\ \A e \in Editors : editor[e].phase = "insert" => IsFiniteSet(editor[e].found) /\ HasRoom(editor[e].found)

LEMMA FewerAreWithin ==
  ASSUME NEW S, NEW T, IsFiniteSet(T), Cardinality(T) <= MaxEndpoints, S \subseteq T
  PROVE  IsFiniteSet(S) /\ Cardinality(S) <= MaxEndpoints
<1>1. IsFiniteSet(S) /\ Cardinality(S) <= Cardinality(T)
  BY FS_Subset
<1>2. Cardinality(S) \in Nat /\ Cardinality(T) \in Nat /\ MaxEndpoints \in Nat
  BY <1>1, FS_CardinalityType, EndpointsAssumption
<1>. QED
  BY <1>1, <1>2

\* One more is within the limit when there was room.
LEMMA OneMoreIsWithin ==
  ASSUME NEW S, NEW i, IsFiniteSet(S), HasRoom(S)
  PROVE  IsFiniteSet(S \cup {i}) /\ Cardinality(S \cup {i}) <= MaxEndpoints
<1>1. IsFiniteSet(S \cup {i}) /\ (Cardinality(S \cup {i}) = Cardinality(S) \/ Cardinality(S \cup {i}) = Cardinality(S) + 1)
  BY FS_AddElement
<1>2. Cardinality(S) \in Nat /\ MaxEndpoints \in Nat
  BY FS_CardinalityType, EndpointsAssumption
<1>. QED
  BY <1>1, <1>2 DEF HasRoom

\* What is not crowded does not grow, and no request finds room anew.
LEMMA LimitStays ==
  ASSUME LimitInv, Present' \subseteq Present \cup crowded', Present' \ crowded' \subseteq Present \ crowded,
         IsFiniteSet(Present'),
         \A e \in Editors : editor'[e].phase = "insert" => editor'[e] = editor[e]
  PROVE  LimitInv'
<1>1. IsFiniteSet(Present \ crowded) /\ Cardinality(Present \ crowded) <= MaxEndpoints
  BY FS_Subset DEF LimitInv, LimitIsKept
<1>2. Cardinality(Present' \ crowded') <= MaxEndpoints
  BY <1>1, FewerAreWithin
<1>3. LimitIsKept'
  BY <1>2 DEF LimitIsKept
<1>4. \A e \in Editors : editor'[e].phase = "insert" => IsFiniteSet(editor'[e].found) /\ HasRoom(editor'[e].found)
  BY DEF LimitInv
<1>5. (\A e \in Editors : editor[e].phase = "insert" => IsFiniteSet(editor[e].found) /\ HasRoom(editor[e].found))'
  BY <1>4 DEF HasRoom
<1>. QED
  BY <1>3, <1>5 DEF LimitInv

\* An insert crowds the others, or they are among those it has found room beside.
LEMMA InsertKeepsLimit ==
  ASSUME ServerTypeOK, LimitInv, NEW e \in Editors, Insert(e) PROVE LimitInv'
<1>. DEFINE i == editor[e].id
            found == editor[e].found
<1>1. /\ editor[e].phase = "insert" /\ i \in Ids /\ editor' = [editor EXCEPT ![e] = OverEditor]
      /\ \A d \in Editors : editor'[d].phase = "insert" => editor'[d] = editor[d]
  BY DEF Insert, OverEditor, ServerTypeOK, Editor
<1>2. CASE UNCHANGED <<endpoints, crowded>>
  <2>1. Present' = Present /\ crowded' = crowded
    BY <1>2 DEF Present
  <2>. QED
    BY <1>1, <2>1, LimitStays DEF LimitInv
<1>3. CASE endpoints' = [endpoints EXCEPT ![i] = editor[e].row] /\ ~(Present \subseteq found) /\ crowded' = crowded \cup {i}
  <2>1. Present' \subseteq Present \cup {i}
    BY <1>3 DEF Present, ServerTypeOK
  <2>2. IsFiniteSet(Present \cup {i})
    BY FS_AddElement DEF LimitInv
  <2>3. IsFiniteSet(Present')
    BY <2>1, <2>2, FS_Subset
  <2>. QED
    BY <1>1, <1>3, <2>1, <2>3, LimitStays
<1>4. CASE endpoints' = [endpoints EXCEPT ![i] = editor[e].row] /\ Present \subseteq found /\ crowded' = crowded
  <2>1. Present' \subseteq found \cup {i}
    BY <1>4 DEF Present, ServerTypeOK
  <2>2. IsFiniteSet(found) /\ HasRoom(found)
    BY <1>1 DEF LimitInv
  <2>3. IsFiniteSet(found \cup {i}) /\ Cardinality(found \cup {i}) <= MaxEndpoints
    BY <2>2, OneMoreIsWithin
  <2>. HIDE DEF found, i
  <2>4. IsFiniteSet(Present') /\ Cardinality(Present' \ crowded') <= MaxEndpoints
    <3>1. Present' \ crowded' \subseteq found \cup {i}
      BY <2>1
    <3>2. IsFiniteSet(Present')
      BY <2>1, <2>3, FewerAreWithin
    <3>3. Cardinality(Present' \ crowded') <= MaxEndpoints
      BY <2>3, <3>1, FewerAreWithin
    <3>. QED
      BY <3>2, <3>3
  <2>5. (\A d \in Editors : editor[d].phase = "insert" => IsFiniteSet(editor[d].found) /\ HasRoom(editor[d].found))'
    BY <1>1 DEF LimitInv, HasRoom
  <2>. QED
    BY <2>4, <2>5 DEF LimitInv, LimitIsKept
<1>. QED
  BY <1>2, <1>3, <1>4 DEF Insert

\* Only an insert adds an endpoint, and only a creation finds room.
LEMMA NextKeepsLimit ==
  ASSUME ServerTypeOK, LimitInv, [ServerNext]_serverVars PROVE LimitInv'
<1>1. ASSUME Present' \subseteq Present, Present' \ crowded' \subseteq Present \ crowded,
             \A e \in Editors : editor'[e].phase = "insert" => editor'[e] = editor[e]
      PROVE  LimitInv'
  <2>1. IsFiniteSet(Present')
    BY <1>1, FS_Subset DEF LimitInv
  <2>. QED
    BY <1>1, <2>1, LimitStays
<1>2. ASSUME UNCHANGED <<endpoints, crowded>>,
             \A e \in Editors : editor'[e].phase = "insert" => editor'[e] = editor[e]
      PROVE  LimitInv'
  <2>1. Present' = Present /\ crowded' = crowded
    BY <1>2 DEF Present
  <2>. QED
    BY <1>1, <1>2, <2>1
<1>3. ASSUME NEW e \in Editors, NEW i \in Ids, NEW route \in Routes, NEW list \in Lists, NEW open \in BOOLEAN,
             CreateRead(e, i, route, list, open)
      PROVE  LimitInv'
  <2>1. /\ HasRoom(Present) /\ UNCHANGED <<endpoints, crowded>>
        /\ editor' = [editor EXCEPT ![e] =
              [phase |-> "insert", id |-> i, found |-> Present, row |-> NewEndpoint(route, list, open)]]
    BY <1>3 DEF CreateRead
  <2>2. editor'[e].found = Present /\ \A d \in Editors \ {e} : editor'[d] = editor[d]
    BY <2>1 DEF ServerTypeOK
  <2>3. (\A d \in Editors : editor[d].phase = "insert" => IsFiniteSet(editor[d].found) /\ HasRoom(editor[d].found))'
    BY <2>1, <2>2 DEF LimitInv, HasRoom
  <2>4. Present' = Present /\ crowded' = crowded
    BY <2>1 DEF Present
  <2>. QED
    BY <2>3, <2>4 DEF LimitInv, LimitIsKept
<1>4. ASSUME NEW e \in Editors, NEW i \in Ids, ToggleRead(e, i) \/ \E route \in Routes : UpdateRead(e, i, route)
      PROVE  LimitInv'
  <2>1. UNCHANGED <<endpoints, crowded>> /\ \E new, old : editor' = [editor EXCEPT ![e] =
              [phase |-> "save", id |-> i, row |-> new, old |-> old]]
    BY <1>4 DEF ToggleRead, UpdateRead
  <2>2. \A d \in Editors : editor'[d].phase = "insert" => editor'[d] = editor[d]
    BY <2>1 DEF ServerTypeOK
  <2>. QED
    BY <1>2, <2>1, <2>2
<1>5. ASSUME NEW e \in Editors, Save(e) PROVE LimitInv'
  <2>. DEFINE i == editor[e].id
              new == editor[e].row
              old == editor[e].old
              saved == [endpoints[i] EXCEPT !.route = IF new.route # old.route THEN new.route ELSE @,
                                            !.enabled = IF new.enabled # old.enabled THEN new.enabled ELSE @]
  <2>1. endpoints' = endpoints \/ (i \in Present /\ endpoints' = [endpoints EXCEPT ![i] = saved])
    BY <1>5 DEF Save
  <2>2. editor' = [editor EXCEPT ![e] = OverEditor] /\ crowded' = crowded
    BY <1>5 DEF Save
  <2>. HIDE DEF saved
  <2>3. Present' \subseteq Present
    BY <2>1 DEF Present, ServerTypeOK
  <2>4. \A d \in Editors : editor'[d].phase = "insert" => editor'[d] = editor[d]
    BY <2>2 DEF OverEditor, ServerTypeOK
  <2>. QED
    BY <1>1, <2>2, <2>3, <2>4
<1>6. ASSUME NEW e \in Editors, NEW i \in Ids, DeleteEndpoint(e, i) PROVE LimitInv'
  <2>1. /\ endpoints' = [endpoints EXCEPT ![i] = NoEndpoint] /\ crowded' = crowded \ {i}
        /\ editor' = [editor EXCEPT ![e] = OverEditor]
    BY <1>6 DEF DeleteEndpoint
  <2>2. Present' \subseteq Present \ {i}
    BY <2>1 DEF Present, ServerTypeOK
  <2>3. \A d \in Editors : editor'[d].phase = "insert" => editor'[d] = editor[d]
    BY <2>1 DEF OverEditor, ServerTypeOK
  <2>. QED
    BY <1>1, <2>1, <2>2, <2>3
<1>7. CASE EndpointNext
  <2>1. ASSUME NEW c \in Callers, NEW request \in Incoming, NEW who \in People, NEW allowed \in BOOLEAN,
               Receive(c, request, who, allowed)
        PROVE  LimitInv'
    BY <1>2, <2>1 DEF Receive
  <2>2. ASSUME NEW c \in Callers, ActFor(c) \/ TimedOut(c) \/ Respond(c) PROVE LimitInv'
    BY <1>2, <2>2 DEF ActFor, TimedOut, Respond, endpointVars
  <2>. QED
    BY <1>3, <1>4, <1>5, <1>6, <1>7, <2>1, <2>2, InsertKeepsLimit, Zenon DEF EndpointNext
<1>8. CASE StopServer
  <2>1. \A e \in Editors : editor'[e].phase # "insert"
    BY <1>8 DEF StopServer, IdleEditor, OverEditor
  <2>. QED
    BY <1>2, <1>8, <2>1 DEF StopServer
<1>9. CASE UNCHANGED endpointVars
  BY <1>2, <1>9 DEF endpointVars
<1>. QED
  BY <1>7, <1>8, <1>9 DEF ServerNext, HookNext, serverVars

LEMMA LimitAtFirst == ServerInit => LimitInv
<1>. SUFFICES ASSUME ServerInit PROVE LimitInv
  OBVIOUS
<1>1. Present = {}
  BY DEF ServerInit, Present
<1>2. IsFiniteSet(Present) /\ Present \ crowded = {} /\ Cardinality({}) = 0
  BY <1>1, FS_EmptySet
<1>3. LimitIsKept
  BY <1>2, EndpointsAssumption DEF LimitIsKept
<1>4. \A e \in Editors : editor[e].phase # "insert"
  BY DEF ServerInit, IdleEditor
<1>. QED
  BY <1>2, <1>3, <1>4 DEF LimitInv

-----------------------------------------------------------------------------
(* What is behind a runner stays behind it.                                 *)

IsBegun(t) == t.phase \notin {"none", "queued"}

\* A task goes on: what it has yet to do gets less once the list has been read.
GoesOn(t, u) ==
  /\ IsBegun(t) => IsBegun(u) /\ u.todo \subseteq t.todo
  /\ TodoOnce(t) => TodoOnce(u)

LEMMA LessToDo ==
  ASSUME NEW t, NEW u, u.phase = t.phase \/ IsBegun(u), u.todo \subseteq t.todo
  PROVE  GoesOn(t, u)
BY DEF GoesOn, IsBegun, TodoOnce

\* A new task takes the place of none that has begun.
LEMMA ChainsLetTasksGoOn ==
  ASSUME ServerTypeOK, ChainInv, ChainNext
  PROVE  \A w \in Writers : GoesOn(tasks[w], tasks'[w])
<1>1. CASE tasks' = tasks
  BY <1>1, LessToDo
<1>2. ASSUME NEW w \in Writers, RunCallback(w) PROVE \A v \in Writers : GoesOn(tasks[v], tasks'[v])
  <2>1. PICK h \in writes[w].chain :
          /\ tasks' = IF h.does = "api" /\ ~writes[w].bare THEN [tasks EXCEPT ![w] = Dispatched(w)] ELSE tasks
          /\ writes[w].phase = "chain"
    BY <1>2 DEF RunCallback
  <2>2. CASE tasks' = tasks
    BY <1>1, <2>2
  <2>3. CASE h.does = "api" /\ tasks' = [tasks EXCEPT ![w] = Dispatched(w)]
    <3>1. IsRegistered(h) /\ h.event = writes[w].event
          /\ (ApiHook(writes[w].event) \in writes[w].chain => tasks[w].phase = "none")
      BY <2>1 DEF ChainInv, ChainIsSound
    <3>2. tasks[w].phase = "none"
      BY <3>1, <2>1, <2>3, HookKinds
    <3>3. Dispatched(w).todo = {}
      BY DEF Dispatched, NoTask
    <3>4. tasks'[w] = Dispatched(w) /\ \A v \in Writers \ {w} : tasks'[v] = tasks[v]
      BY <2>3 DEF ServerTypeOK
    <3>. QED
      BY <3>2, <3>3, <3>4, LessToDo DEF GoesOn, IsBegun, TodoOnce
  <2>. QED
    BY <2>1, <2>2, <2>3
<1>3. (\E c \in Customs : Register(c)) \/ (\E h \in registry : Unregister(h)) \/ Clear
      \/ (\E w \in Writers : \/ \E e \in Events, c \in Collections, user \in BOOLEAN : StartWrite(w, e, c, user)
                         \/ EndWrite(w))
      => tasks' = tasks
  BY DEF Register, Unregister, Clear, StartWrite, EndWrite
<1>. QED
  BY <1>1, <1>2, <1>3 DEF ChainNext

\* The list is read once and then gets shorter.
LEMMA TasksGoOn ==
  ASSUME ServerTypeOK, TaskNext
  PROVE  \A w \in Writers : GoesOn(tasks[w], tasks'[w])
<1>. USE DEF ServerTypeOK
<1>. DEFINE Go == \A w \in Writers : GoesOn(tasks[w], tasks'[w])
<1>1. CASE tasks' = tasks
  BY <1>1, LessToDo
<1>2. ASSUME NEW w \in Writers, ListHooks(w) PROVE Go
  <2>. DEFINE todo == {[id |-> r, row |-> rows[r]] : r \in Listed(tasks[w].event, tasks[w].coll)}
              u == [tasks[w] EXCEPT !.phase = "running", !.todo = todo]
  <2>1. tasks' = [tasks EXCEPT ![w] = u] /\ tasks[w].phase = "queued" /\ tasks[w] \in Task
    BY <1>2 DEF ListHooks
  <2>2. u.todo = todo
    BY <2>1 DEF Task
  <2>3. \A g, h \in todo : g.id = h.id => g = h
    OBVIOUS
  <2>4. tasks'[w] = u /\ \A v \in Writers \ {w} : tasks'[v] = tasks[v]
    BY <2>1
  <2>. HIDE DEF todo, u
  <2>. QED
    BY <2>1, <2>2, <2>3, <2>4, LessToDo DEF GoesOn, IsBegun, TodoOnce
<1>3. ASSUME NEW w \in Writers, NextHook(w) PROVE Go
  <2>1. PICK h \in tasks[w].todo :
          tasks' = [tasks EXCEPT ![w].todo = @ \ {h}, ![w].due = IF Holds(h.row.cond) THEN @ ELSE @ \ {h.id}]
    BY <1>3 DEF NextHook
  <2>2. tasks[w] \in Task
    OBVIOUS
  <2>3. tasks'[w].phase = tasks[w].phase /\ tasks'[w].todo = tasks[w].todo \ {h}
        /\ \A v \in Writers \ {w} : tasks'[v] = tasks[v]
    BY <2>1, <2>2 DEF Task
  <2>4. \A v \in Writers : tasks'[v].phase = tasks[v].phase /\ tasks'[v].todo \subseteq tasks[v].todo
    BY <2>3
  <2>. QED
    BY <2>4, LessToDo
<1>4. ASSUME NEW w \in Writers, EndTask(w) \/ ListsNothing(w) PROVE Go
  <2>1. PICK p \in {"over", "unread", "unasked"} : tasks' = [tasks EXCEPT ![w].phase = p]
    BY <1>4 DEF EndTask, ListsNothing
  <2>2. \A v \in Writers : (tasks'[v].phase = tasks[v].phase \/ tasks'[v].phase = p)
                           /\ tasks'[v].todo \subseteq tasks[v].todo
    BY <2>1 DEF Task
  <2>3. p \notin {"none", "queued"}
    OBVIOUS
  <2>. QED
    BY <2>2, <2>3, LessToDo DEF IsBegun
<1>5. ASSUME NEW x \in Runners, LogRun(x) PROVE Go
  <2>1. PICK written \in BOOLEAN :
          tasks' = IF x \in Writers THEN [tasks EXCEPT ![x] = AfterLog(x, written)] ELSE tasks
    BY <1>5 DEF LogRun
  <2>2. x \in Writers => AfterLog(x, written).phase = tasks[x].phase /\ AfterLog(x, written).todo = tasks[x].todo
    BY DEF AfterLog, Task
  <2>3. \A v \in Writers : tasks'[v].phase = tasks[v].phase /\ tasks'[v].todo = tasks[v].todo
    BY <2>1, <2>2
  <2>. QED
    BY <2>3, LessToDo
<1>6. ASSUME NEW r \in Rows, Toggle(r) \/ Delete(r) PROVE Go
  <2>1. tasks' = [w \in Writers |-> [tasks[w] EXCEPT !.due = tasks[w].due \ {r}]]
    BY <1>6 DEF Toggle, Delete, NoLongerDue
  <2>2. \A v \in Writers : tasks'[v].phase = tasks[v].phase /\ tasks'[v].todo = tasks[v].todo
    BY <2>1 DEF Task
  <2>. QED
    BY <2>2, LessToDo
<1>7. (\E m \in Managers, r \in Rows : Trigger(m, r)) \/ (\E x \in Runners : Act(x)) => tasks' = tasks
  BY ActSteps DEF Trigger
<1>. HIDE DEF Go
<1>8. Go
  BY <1>1, <1>2, <1>3, <1>4, <1>5, <1>6, <1>7 DEF TaskNext, Go
<1>. QED
  BY <1>8 DEF Go

\* So it is for every step.
LEMMA AllTasksGoOn ==
  ASSUME ServerTypeOK, ChainInv, [ServerNext]_serverVars
  PROVE  \A w \in Writers : GoesOn(tasks[w], tasks'[w])
<1>1. CASE tasks' = tasks
  BY <1>1, LessToDo
<1>2. CASE HookNext
  BY <1>2, ChainsLetTasksGoOn, TasksGoOn DEF HookNext
<1>3. CASE EndpointNext
  BY <1>1, <1>3, EndpointsLeaveRuns
<1>4. CASE StopServer
  <2>1. \A w \in Writers :
          tasks'[w] = IF tasks[w].phase \in {"queued", "running"} THEN [NoTask EXCEPT !.phase = "lost"] ELSE tasks[w]
    BY <1>4 DEF StopServer, Stop
  <2>2. [NoTask EXCEPT !.phase = "lost"].phase = "lost" /\ [NoTask EXCEPT !.phase = "lost"].todo = {}
    BY DEF NoTask
  <2>. QED
    BY <2>1, <2>2, LessToDo DEF IsBegun
<1>5. CASE UNCHANGED serverVars
  BY <1>1, <1>5 DEF serverVars, hookVars
<1>. QED
  BY <1>2, <1>3, <1>4, <1>5 DEF ServerNext

\* Requests that have begun a run have begun it for good.
LEMMA RunsGoOn ==
  ASSUME ServerTypeOK, [ServerNext]_serverVars
  PROVE  \A x \in Runners \ Writers : run[x] # NoRun => run'[x] # NoRun
<1>. USE DEF ServerTypeOK
<1>1. CASE run' = run
  BY <1>1
<1>2. \A w \in Writers : w \in Runners
  BY DEF Runners
<1>3. ASSUME NEW y \in Runners, \A x \in Runners \ {y} : run'[x] = run[x], y \in Writers \/ run'[y] # NoRun
      PROVE  \A x \in Runners \ Writers : run[x] # NoRun => run'[x] # NoRun
  BY <1>3
<1>4. ASSUME NEW w \in Writers, ListHooks(w) \/ ListsNothing(w) \/ NextHook(w) \/ EndTask(w)
      PROVE  \A x \in Runners \ Writers : run[x] # NoRun => run'[x] # NoRun
  BY <1>2, <1>4 DEF ListHooks, ListsNothing, NextHook, EndTask
<1>5. ASSUME NEW m \in Managers, NEW r \in Rows, Trigger(m, r)
      PROVE  \A x \in Runners \ Writers : run[x] # NoRun => run'[x] # NoRun
  <2>1. run[m] = NoRun /\ run' = [run EXCEPT ![m] = ByHand(r)]
    BY <1>5 DEF Trigger
  <2>. QED
    BY <2>1
<1>6. \A y \in Runners : Act(y) => \A x \in Runners \ Writers : run[x] # NoRun => run'[x] # NoRun
  BY ActKeepsOf
<1>7. ASSUME NEW y \in Runners, LogRun(y) PROVE \A x \in Runners \ Writers : run[x] # NoRun => run'[x] # NoRun
  <2>1. run' = [run EXCEPT ![y] = IF y \in Writers THEN NoRun ELSE Ended]
    BY <1>7 DEF LogRun
  <2>. QED
    BY <2>1, EndpointsAssumption
<1>8. CASE TaskNext
  <2>1. \A r \in Rows : Toggle(r) \/ Delete(r) => run' = run
    BY DEF Toggle, Delete
  <2>. QED
    BY <1>1, <1>4, <1>5, <1>6, <1>7, <1>8, <2>1 DEF TaskNext
<1>9. ChainNext => run' = run
  BY DEF ChainNext, Register, Unregister, Clear, StartWrite, RunCallback, EndWrite
<1>10. CASE EndpointNext
  <2>1. \A c \in Callers : c \in Runners
    BY DEF Runners
  <2>2. \A c \in Callers : ActFor(c) => \A x \in Runners \ Writers : run[x] # NoRun => run'[x] # NoRun
    BY <1>6, <2>1 DEF ActFor
  <2>3. ASSUME NEW c \in Callers, TimedOut(c) PROVE \A x \in Runners \ Writers : run[x] # NoRun => run'[x] # NoRun
    <3>1. run[c] \in Runs /\ run' = [run EXCEPT ![c] = TimeOut(run[c])]
      BY <2>1, <2>3 DEF TimedOut
    <3>2. TimeOut(run[c]) # NoRun
      BY <3>1, TimedOutIsRun, EndpointsAssumption
    <3>. QED
      BY <2>1, <3>1, <3>2
  <2>4. ASSUME NEW c \in Callers, Respond(c) PROVE \A x \in Runners \ Writers : run[x] # NoRun => run'[x] # NoRun
    BY <2>1, <2>4, EndpointsAssumption DEF Respond
  <2>5. ASSUME NEW c \in Callers, NEW i, NEW list, run[c] = NoRun, run' = [run EXCEPT ![c] = NewRun(i, list)]
        PROVE  \A x \in Runners \ Writers : run[x] # NoRun => run'[x] # NoRun
    BY <2>1, <2>5
  <2>. QED
    BY <1>1, <1>10, <2>2, <2>3, <2>4, <2>5, EndpointSteps
<1>11. CASE StopServer
  <2>1. \A x \in Runners : run'[x] = IF x \in Writers \/ run[x] = NoRun THEN NoRun ELSE Ended
    BY <1>11 DEF StopServer, Stop
  <2>. QED
    BY <2>1, EndpointsAssumption
<1>12. CASE UNCHANGED serverVars
  BY <1>1, <1>12 DEF serverVars, hookVars
<1>. QED
  BY <1>1, <1>8, <1>9, <1>10, <1>11, <1>12 DEF ServerNext, HookNext

\* Nobody begins anew what is behind it.
LEMMA PastGrows ==
  ASSUME ServerTypeOK, ChainInv, [ServerNext]_serverVars
  PROVE  \A x \in Runners : \A of : Past(x, of) => Past(x, of)'
<1>1. ASSUME NEW x \in Writers, NEW of, Past(x, of) PROVE Past(x, of)'
  <2>1. IsBegun(tasks[x]) /\ \A h \in tasks[x].todo : h.id # of
    BY <1>1 DEF Past, IsBegun
  <2>2. IsBegun(tasks'[x]) /\ tasks'[x].todo \subseteq tasks[x].todo
    BY <2>1, AllTasksGoOn DEF GoesOn
  <2>. QED
    BY <2>1, <2>2 DEF Past, IsBegun
<1>2. \A x \in Runners \ Writers : \A of : Past(x, of) => Past(x, of)'
  BY RunsGoOn DEF Past
<1>. QED
  BY <1>1, <1>2

-----------------------------------------------------------------------------
(* A run and what it has done.                                              *)

\* A run that starts has done nothing; the run of an empty list is over at once.
LEMMA FreshRunIsSound ==
  ASSUME NEW of \in Rows \cup Ids, NEW list \in Lists
  PROVE  RunIsSound(NewRun(of, list), {})
<1>. DEFINE r == NewRun(of, list)
<1>1. /\ r.actions = list /\ r.next = 1 /\ r.executed = 0 /\ r.error = FALSE /\ r.phase = PhaseAt(list, 1)
      /\ list \in Seq(Kinds) /\ Len(list) \in Nat /\ DOMAIN list = 1..Len(list)
  BY ListsHaveActions DEF NewRun
<1>2. \A i \in Effective(r) \cup Known(r) : i \in 1..Len(list)
  BY <1>1 DEF Effective, Known
<1>3. Status(r) = "success"
  BY <1>1 DEF Status
<1>. HIDE DEF r
<1>4. ASSUME Len(list) = 0 PROVE RunIsSound(r, {})
  <2>1. r.phase = "acted"
    BY <1>1, <1>4 DEF PhaseAt
  <2>2. Effective(r) = {}
    BY <1>2, <1>4
  <2>. QED
    BY <1>3, <2>1, <2>2 DEF RunIsSound, IsTold
<1>5. ASSUME Len(list) # 0 PROVE RunIsSound(r, {})
  <2>1. r.phase = "acting"
    BY <1>1, <1>5 DEF PhaseAt
  <2>2. {} = {i \in Effective(r) : i < r.next}
    BY <1>1, <1>2
  <2>3. \A j \in Known(r) : r.next <= j
    BY <1>1, <1>2
  <2>4. r.next <= Len(r.actions) /\ ~r.error
    BY <1>1, <1>5
  <2>. QED
    BY <2>1, <2>2, <2>3, <2>4 DEF RunIsSound
<1>. QED
  BY <1>4, <1>5 DEF r

\* What is known of a run in the middle of its list.
LEMMA MiddleOfRun ==
  ASSUME NEW r \in Runs, r.phase = "acting", NEW acted, RunIsSound(r, acted)
  PROVE  /\ r.next \in 1..Len(r.actions) /\ Len(r.actions) \in Nat /\ DOMAIN r.actions = 1..Len(r.actions)
         /\ ~r.error /\ r.executed \in Nat /\ acted = {i \in Effective(r) : i < r.next}
         /\ r.executed = 0 => \A j \in Known(r) : r.next <= j
         /\ Effective(r) \subseteq 1..Len(r.actions) /\ Known(r) \subseteq 1..Len(r.actions)
         /\ r.next \in Effective(r) <=> r.actions[r.next] \in EffectKinds
         /\ r.next \in Known(r) <=> r.actions[r.next] \in KnownTo(r.of)
<1>1. r.actions \in Lists /\ r.next \in Nat \ {0} /\ r.executed \in Nat
  BY DEF Runs
<1>2. Len(r.actions) \in Nat /\ DOMAIN r.actions = 1..Len(r.actions)
  BY <1>1, ListsHaveActions
<1>3. r.next <= Len(r.actions) /\ ~r.error /\ acted = {i \in Effective(r) : i < r.next}
      /\ (r.executed = 0 => \A j \in Known(r) : r.next <= j)
  BY DEF RunIsSound
<1>4. r.next \in 1..Len(r.actions)
  BY <1>1, <1>2, <1>3
<1>. QED
  BY <1>1, <1>2, <1>3, <1>4 DEF Effective, Known

\* The list goes on with its next action, or is through.
LEMMA PassedIsSound ==
  ASSUME NEW r \in Runs, r.phase = "acting", NEW acted, RunIsSound(r, acted),
         NEW q \in Runs, q.of = r.of, q.actions = r.actions, q.next = r.next + 1, ~q.error,
         q.phase = PhaseAt(r.actions, r.next + 1),
         NEW after, after = {i \in Effective(r) : i <= r.next},
         q.executed = 0 => r.executed = 0 /\ r.next \notin Known(r)
  PROVE  RunIsSound(q, after)
<1>1. Effective(q) = Effective(r) /\ Known(q) = Known(r)
  BY DEF Effective, Known
<1>2. Status(q) = "success"
  BY DEF Status
<1>3. CASE r.next + 1 > Len(r.actions)
  <2>1. q.phase = "acted"
    BY <1>3 DEF PhaseAt
  <2>2. after = Effective(r)
    BY <1>3, MiddleOfRun
  <2>. QED
    BY <1>1, <1>2, <2>1, <2>2 DEF RunIsSound, IsTold
<1>4. CASE ~(r.next + 1 > Len(r.actions))
  <2>1. q.phase = "acting"
    BY <1>4 DEF PhaseAt
  <2>2. q.next <= Len(q.actions)
    BY <1>4, MiddleOfRun
  <2>3. after = {i \in Effective(q) : i < q.next}
    BY <1>1, MiddleOfRun
  <2>4. q.executed = 0 => \A j \in Known(q) : q.next <= j
    BY <1>1, MiddleOfRun
  <2>. QED
    BY <2>1, <2>2, <2>3, <2>4 DEF RunIsSound
<1>. QED
  BY <1>3, <1>4

\* The list ends with an error at an action that may or may not have acted.
LEMMA EndedIsSound ==
  ASSUME NEW r \in Runs, r.phase = "acting", NEW acted, RunIsSound(r, acted),
         NEW q \in Runs, q.of = r.of, q.actions = r.actions, q.phase = "acted", q.error,
         q.executed = 0 => r.executed = 0 \/ r.next = 1,
         NEW after, after \in {acted, acted \cup {r.next}},
         after # acted => r.actions[r.next] \in EffectKinds
  PROVE  RunIsSound(q, after)
<1>1. Effective(q) = Effective(r) /\ Known(q) = Known(r)
  BY DEF Effective, Known
<1>2. Status(q) # "success" /\ (Status(q) = "failed" => q.executed = 0)
  BY DEF Status, Runs
<1>3. /\ acted = {i \in Effective(r) : i < r.next} /\ r.next \in Nat
      /\ Effective(r) \subseteq Nat /\ Known(r) \subseteq Nat \ {0}
  BY MiddleOfRun
<1>4. after \subseteq Effective(r) /\ \A i \in after : i <= r.next
  BY <1>3, MiddleOfRun
<1>5. \A i \in after, j \in Effective(r) : j < i => j \in after
  BY <1>3, <1>4
<1>6. ASSUME q.executed = 0, NEW i \in after, NEW j \in Known(r) PROVE i <= j
  <2>1. r.next <= j
    BY <1>3, <1>6, MiddleOfRun
  <2>. QED
    BY <1>3, <1>4, <2>1
<1>. QED
  BY <1>1, <1>2, <1>4, <1>5, <1>6 DEF RunIsSound, IsTold

\* Whatever is meant to change something is known to both executors.
LEMMA EffectsAreKnown == \A of : EffectKinds \subseteq KnownTo(of)
BY DEF KnownTo, KnownToHooks, KnownToEndpoints

\* Unknown actions are passed over.
LEMMA SkipIsSound ==
  ASSUME NEW r \in Runs, r.phase = "acting", NEW acted, RunIsSound(r, acted),
         r.actions[r.next] \notin KnownTo(r.of)
  PROVE  RunIsSound(Skip(r), acted)
<1>. DEFINE q == Skip(r)
<1>1. q \in Runs
  BY StepsOfRuns
<1>2. /\ q.of = r.of /\ q.actions = r.actions /\ q.next = r.next + 1 /\ q.error = r.error /\ q.executed = r.executed
      /\ q.phase = PhaseAt(r.actions, r.next + 1)
  BY DEF Skip, Runs
<1>. HIDE DEF q
<1>3. r.next \notin Effective(r) /\ r.next \notin Known(r)
  BY MiddleOfRun, EffectsAreKnown
<1>4. acted = {i \in Effective(r) : i <= r.next}
  BY <1>3, MiddleOfRun
<1>5. ~q.error
  BY <1>2, MiddleOfRun
<1>6. RunIsSound(q, acted)
  BY <1>1, <1>2, <1>3, <1>4, <1>5, PassedIsSound
<1>. QED
  BY <1>6 DEF q

\* An action that has returned has had its effect, if it has one.
LEMMA OutcomesTell ==
  ASSUME NEW kind, NEW o \in Outcomes(kind)
  PROVE  /\ o.ok => (o.effect <=> kind \in EffectKinds)
         /\ o.effect => kind \in EffectKinds
<1>1. Done.ok /\ Done.effect /\ Answered.ok /\ ~Answered.effect /\ ~Refused.ok /\ ~Refused.effect
      /\ ~Unsure.ok /\ Unsure.effect
  BY DEF Done, Answered, Refused, Unsure
<1>2. o \in {Done, Answered, Refused, Unsure}
  BY DEF Outcomes
<1>3. o = Done \/ o = Unsure => kind \in EffectKinds
  BY <1>1 DEF Outcomes, EffectKinds
<1>4. o = Answered => kind \notin EffectKinds
  BY <1>1 DEF Outcomes, EffectKinds, OutsideKinds, QueueKinds, BrokenKinds, AnswerKinds
<1>. QED
  BY <1>1, <1>2, <1>3, <1>4

\* A known action succeeds or ends the list.
LEMMA ActIsSound ==
  ASSUME NEW r \in Runs, r.phase = "acting", NEW acted, RunIsSound(r, acted),
         r.actions[r.next] \in KnownTo(r.of), NEW o \in Outcomes(r.actions[r.next])
  PROVE  RunIsSound(IF o.ok THEN Succeed(r) ELSE Fail(r), IF o.effect THEN acted \cup {r.next} ELSE acted)
<1>. DEFINE after == IF o.effect THEN acted \cup {r.next} ELSE acted
<1>1. CASE o.ok
  <2>. DEFINE q == Succeed(r)
  <2>1. q \in Runs
    BY StepsOfRuns
  <2>2. /\ q.of = r.of /\ q.actions = r.actions /\ q.next = r.next + 1 /\ q.error = r.error
        /\ q.executed = r.executed + 1
        /\ q.phase = PhaseAt(r.actions, r.next + 1)
    BY DEF Succeed, Skip, Runs
  <2>. HIDE DEF q
  <2>3. o.effect <=> r.next \in Effective(r)
    BY <1>1, OutcomesTell, MiddleOfRun
  <2>4. after = {i \in Effective(r) : i <= r.next}
    <3>1. acted = {i \in Effective(r) : i < r.next} /\ r.next \in Nat /\ Effective(r) \subseteq Nat
      BY MiddleOfRun
    <3>. QED
      BY <2>3, <3>1
  <2>5. ~q.error /\ q.executed # 0
    BY <2>2, MiddleOfRun
  <2>. HIDE DEF after
  <2>6. RunIsSound(q, after)
    BY <2>1, <2>2, <2>4, <2>5, PassedIsSound
  <2>. QED
    BY <1>1, <2>6 DEF q, after
<1>2. CASE ~o.ok
  <2>. DEFINE q == Fail(r)
  <2>1. q \in Runs
    BY StepsOfRuns
  <2>2. q.of = r.of /\ q.actions = r.actions /\ q.error /\ q.executed = r.executed /\ q.phase = "acted"
    BY DEF Fail, Runs
  <2>3. after \in {acted, acted \cup {r.next}} /\ (after # acted => r.actions[r.next] \in EffectKinds)
    BY OutcomesTell
  <2>. HIDE DEF q, after
  <2>4. RunIsSound(q, after)
    BY <2>1, <2>2, <2>3, EndedIsSound
  <2>. QED
    BY <1>2, <2>4 DEF q, after
<1>. QED
  BY <1>1, <1>2, OutcomesTell

\* So does the timeout, whatever became of the action under way.
LEMMA TimedOutIsSound ==
  ASSUME NEW r \in Runs, r.phase = "acting", NEW acted, RunIsSound(r, acted),
         NEW after \in {acted, acted \cup {r.next}}, after # acted => r.actions[r.next] \in EffectKinds
  PROVE  RunIsSound(TimeOut(r), after)
<1>. DEFINE q == TimeOut(r)
<1>1. q \in Runs
  BY TimedOutIsRun
<1>2. q.of = r.of /\ q.actions = r.actions /\ q.error /\ q.executed = r.next - 1 /\ q.phase = "acted" /\ r.next \in Nat
  BY DEF TimeOut, Runs
<1>3. q.executed = 0 => r.next = 1
  BY <1>2
<1>. HIDE DEF q
<1>4. RunIsSound(q, after)
  BY <1>1, <1>2, <1>3, EndedIsSound
<1>. QED
  BY <1>4 DEF q

-----------------------------------------------------------------------------
(* What the logs say stays true.                                            *)

LEMMA LogAtFirst == ServerInit => LogInv
BY DEF ServerInit, NoTask, LogInv, TodoOnce, IsRunning, Runners

\* Only the list of actions counts, and whose it is.
LEMMA ToldOfActions ==
  ASSUME NEW acted, NEW l, NEW r, NEW status, l.of = r.of, l.actions = r.actions, IsTold(acted, r, status)
  PROVE  IsTold(acted, l, status)
BY DEF IsTold, Effective, Known

\* A list with each hook once stays so.
LEMMA NextKeepsTodoOnce ==
  ASSUME ServerTypeOK, ChainInv, LogInv, [ServerNext]_serverVars
  PROVE  \A w \in Writers : TodoOnce(tasks'[w])
BY AllTasksGoOn DEF LogInv, GoesOn

\* A step in which runs end at most, and rows of the log are at most deleted,
\* apart from one that is added for the run that ends.
LEMMA RunsEnd ==
  ASSUME ServerTypeOK, ChainInv, LogInv, [ServerNext]_serverVars,
         effects' = effects, \A x \in Runners : run'[x] = run[x] \/ run'[x] \in {NoRun, Ended},
         \A l \in logs' : \/ l \in logs
                          \/ \E x \in Runners : /\ l = LogOf(x) /\ IsRunning(x) /\ run[x].phase = "acted"
                                                /\ run'[x] \in {NoRun, Ended}
  PROVE  LogInv'
<1>1. \A x \in Runners : IsRunning(x)' => IsRunning(x) /\ run'[x] = run[x]
  BY DEF IsRunning
<1>2. \A x, of : Acted(x, of)' = Acted(x, of)
  BY DEF Acted
<1>3. \A e \in effects' : e.by \in Runners /\ Past(e.by, e.of)'
  BY PastGrows DEF LogInv, ServerTypeOK, Effect
<1>4. ASSUME NEW x \in Runners, IsRunning(x)' PROVE (Past(x, run[x].of) /\ RunIsSound(run[x], Acted(x, run[x].of)))'
  <2>1. IsRunning(x) /\ run'[x] = run[x]
    BY <1>1, <1>4
  <2>2. Past(x, run[x].of) /\ RunIsSound(run[x], Acted(x, run[x].of))
    BY <2>1 DEF LogInv
  <2>3. Past(x, run[x].of)'
    BY <2>1, <2>2, PastGrows
  <2>. QED
    BY <1>2, <2>1, <2>2, <2>3
<1>5. ASSUME NEW l \in logs'
      PROVE  (Past(l.by, l.of) /\ ~IsDoing(l.by, l.of) /\ IsTold(Acted(l.by, l.of), l, l.status))'
  <2>1. CASE l \in logs
    <3>1. Past(l.by, l.of) /\ ~IsDoing(l.by, l.of) /\ IsTold(Acted(l.by, l.of), l, l.status) /\ l.by \in Runners
      BY <2>1 DEF LogInv, ServerTypeOK, Log
    <3>2. Past(l.by, l.of)'
      BY <3>1, PastGrows
    <3>3. ~IsDoing(l.by, l.of)'
      BY <3>1, <1>1 DEF IsDoing
    <3>. QED
      BY <1>2, <3>1, <3>2, <3>3
  <2>2. ASSUME NEW x \in Runners, l = LogOf(x), IsRunning(x), run[x].phase = "acted", run'[x] \in {NoRun, Ended}
        PROVE  (Past(l.by, l.of) /\ ~IsDoing(l.by, l.of) /\ IsTold(Acted(l.by, l.of), l, l.status))'
    <3>1. l.by = x /\ l.of = run[x].of /\ l.actions = run[x].actions /\ l.status = Status(run[x])
      BY <2>2 DEF LogOf
    <3>2. Past(x, run[x].of) /\ RunIsSound(run[x], Acted(x, run[x].of))
      BY <2>2 DEF LogInv
    <3>3. IsTold(Acted(x, run[x].of), run[x], Status(run[x]))
      BY <2>2, <3>2 DEF RunIsSound
    <3>4. IsTold(Acted(x, run[x].of), l, l.status)
      BY <3>1, <3>3, ToldOfActions
    <3>5. Past(l.by, l.of)'
      BY <3>1, <3>2, PastGrows
    <3>6. ~IsDoing(l.by, l.of)'
      BY <2>2, <3>1 DEF IsDoing, IsRunning
    <3>. QED
      BY <1>2, <3>1, <3>4, <3>5, <3>6
  <2>. QED
    BY <2>1, <2>2
<1>. QED
  BY <1>3, <1>4, <1>5, NextKeepsTodoOnce DEF LogInv

\* A run starts of what the runner has not been at before.
LEMMA RunStarts ==
  ASSUME ServerTypeOK, ChainInv, LogInv, [ServerNext]_serverVars,
         NEW x \in Runners, NEW of \in Rows \cup Ids, NEW list \in Lists, ~Past(x, of), Past(x, of)',
         run' = [run EXCEPT ![x] = NewRun(of, list)], effects' = effects, logs' = logs
  PROVE  LogInv'
<1>1. run'[x] = NewRun(of, list) /\ \A y \in Runners \ {x} : run'[y] = run[y]
  BY DEF ServerTypeOK
<1>2. NewRun(of, list).of = of
  BY NewRunIsOf
<1>3. \A y, p : Acted(y, p)' = Acted(y, p)
  BY DEF Acted
<1>4. \A e \in effects' : Past(e.by, e.of)'
  BY PastGrows DEF LogInv, ServerTypeOK, Effect
<1>5. Acted(x, of) = {}
  BY DEF Acted, ActedIn, LogInv
<1>. DEFINE Fine(y) == Past(y, run[y].of) /\ RunIsSound(run[y], Acted(y, run[y].of))
<1>6. Fine(x)'
  <2>1. RunIsSound(NewRun(of, list), {})
    BY FreshRunIsSound
  <2>. QED
    BY <1>1, <1>2, <1>3, <1>5, <2>1
<1>7. ASSUME NEW y \in Runners \ {x}, IsRunning(y)' PROVE Fine(y)'
  <2>1. IsRunning(y) /\ run'[y] = run[y]
    BY <1>1, <1>7 DEF IsRunning
  <2>2. Past(y, run[y].of) /\ RunIsSound(run[y], Acted(y, run[y].of))
    BY <2>1 DEF LogInv
  <2>. QED
    BY <1>3, <2>1, <2>2, PastGrows
<1>8. ASSUME NEW l \in logs'
      PROVE  (Past(l.by, l.of) /\ ~IsDoing(l.by, l.of) /\ IsTold(Acted(l.by, l.of), l, l.status))'
  <2>1. Past(l.by, l.of) /\ ~IsDoing(l.by, l.of) /\ IsTold(Acted(l.by, l.of), l, l.status) /\ l.by \in Runners
    BY <1>8 DEF LogInv, ServerTypeOK, Log
  <2>2. Past(l.by, l.of)'
    BY <2>1, PastGrows
  <2>3. ~IsDoing(l.by, l.of)'
    BY <1>1, <1>2, <2>1 DEF IsDoing, IsRunning
  <2>. QED
    BY <1>3, <2>1, <2>2, <2>3
<1>9. \A y \in Runners : IsRunning(y)' => Fine(y)'
  BY <1>6, <1>7
<1>. QED
  BY <1>4, <1>8, <1>9, NextKeepsTodoOnce DEF LogInv

\* A run takes a step: what others have done is not touched.
LEMMA RunGoesOn ==
  ASSUME ServerTypeOK, ChainInv, LogInv, [ServerNext]_serverVars,
         NEW x \in Runners, IsRunning(x), run[x].phase = "acting",
         NEW q \in Runs, q.of = run[x].of, run' = [run EXCEPT ![x] = q], logs' = logs,
         NEW acts \in BOOLEAN,
         effects' = IF acts THEN effects \cup {[by |-> x, of |-> run[x].of, at |-> run[x].next]} ELSE effects,
         RunIsSound(q, IF acts THEN Acted(x, run[x].of) \cup {run[x].next} ELSE Acted(x, run[x].of))
  PROVE  LogInv'
<1>. DEFINE of == run[x].of
            new == [by |-> x, of |-> of, at |-> run[x].next]
<1>1. run'[x] = q /\ \A y \in Runners \ {x} : run'[y] = run[y]
  BY DEF ServerTypeOK
<1>2. new.by = x /\ new.of = of /\ new.at = run[x].next
  OBVIOUS
<1>3. effects' = (IF acts THEN effects \cup {new} ELSE effects)
  OBVIOUS
<1>. HIDE DEF new
<1>4. ActedIn(effects', x, of) = IF acts THEN Acted(x, of) \cup {run[x].next} ELSE Acted(x, of)
  BY <1>2, <1>3 DEF Acted, ActedIn
<1>5. \A y, p : ~(y = x /\ p = of) => ActedIn(effects', y, p) = Acted(y, p)
  BY <1>2, <1>3 DEF Acted, ActedIn
<1>6. Past(x, of)
  BY DEF LogInv
<1>7. \A e \in effects : e.by \in Runners /\ Past(e.by, e.of)
  BY DEF LogInv, ServerTypeOK, Effect
<1>. DEFINE p == of
<1>. HIDE DEF p
<1>8. p = of
  BY DEF p
<1>9. \A e \in effects' : Past(e.by, e.of)'
  BY <1>2, <1>3, <1>6, <1>7, PastGrows
<1>10. (Past(x, run[x].of) /\ RunIsSound(run[x], Acted(x, run[x].of)))'
  <2>1. run'[x].of = of
    BY <1>1
  <2>2. Past(x, run[x].of)'
    BY <1>6, <2>1, PastGrows
  <2>3. Acted(x, run[x].of)' = ActedIn(effects', x, of)
    BY <2>1 DEF Acted
  <2>. QED
    BY <1>1, <1>4, <2>2, <2>3
<1>11. ASSUME NEW y \in Runners \ {x}, IsRunning(y)'
       PROVE  (Past(y, run[y].of) /\ RunIsSound(run[y], Acted(y, run[y].of)))'
  <2>1. IsRunning(y) /\ run'[y] = run[y]
    BY <1>1, <1>11 DEF IsRunning
  <2>2. Past(y, run[y].of) /\ RunIsSound(run[y], Acted(y, run[y].of))
    BY <2>1 DEF LogInv
  <2>3. Acted(y, run[y].of)' = Acted(y, run[y].of)
    BY <1>5, <2>1 DEF Acted
  <2>. QED
    BY <2>1, <2>2, <2>3, PastGrows
<1>12. ASSUME NEW l \in logs'
       PROVE  (Past(l.by, l.of) /\ ~IsDoing(l.by, l.of) /\ IsTold(Acted(l.by, l.of), l, l.status))'
  <2>1. Past(l.by, l.of) /\ ~IsDoing(l.by, l.of) /\ IsTold(Acted(l.by, l.of), l, l.status) /\ l.by \in Runners
    BY <1>12 DEF LogInv, ServerTypeOK, Log
  <2>2. Past(l.by, l.of)'
    BY <2>1, PastGrows
  <2>3. ~(l.by = x /\ l.of = of)
    BY <2>1 DEF IsDoing
  <2>4. Acted(l.by, l.of)' = Acted(l.by, l.of)
    BY <1>5, <2>3 DEF Acted
  <2>5. ~IsDoing(l.by, l.of)'
    BY <1>1, <2>1, <2>3 DEF IsDoing, IsRunning
  <2>. QED
    BY <2>1, <2>2, <2>4, <2>5
<1>13. \A y \in Runners : IsRunning(y)' => (Past(y, run[y].of) /\ RunIsSound(run[y], Acted(y, run[y].of)))'
  BY <1>10, <1>11
<1>. QED
  BY <1>9, <1>12, <1>13, NextKeepsTodoOnce DEF LogInv

\* One action of the list.
LEMMA ActKeepsLog ==
  ASSUME ServerTypeOK, ChainInv, LogInv, [ServerNext]_serverVars, NEW x \in Runners, Act(x)
  PROVE  LogInv'
<1>. DEFINE r == run[x]
            acted == Acted(x, r.of)
<1>1. IsRunning(x) /\ r.phase = "acting" /\ r \in Runs /\ logs' = logs
  BY ActSteps DEF IsRunning, ServerTypeOK
<1>2. RunIsSound(r, acted)
  BY <1>1 DEF LogInv
<1>3. \A q \in {Skip(r), Succeed(r), Fail(r)} : q.of = r.of
  BY <1>1, StepsKeepOf
<1>4. Skip(r) \in Runs /\ Succeed(r) \in Runs /\ Fail(r) \in Runs
  BY <1>1, StepsOfRuns
<1>5. CASE Resolved(r) \notin KnownTo(r.of) /\ run' = [run EXCEPT ![x] = Skip(r)] /\ effects' = effects
  <2>1. RunIsSound(Skip(r), acted)
    BY <1>1, <1>2, <1>5, SkipIsSound DEF Resolved
  <2>. QED
    BY <1>1, <1>3, <1>4, <1>5, <2>1, RunGoesOn
<1>6. ASSUME NEW o \in Outcomes(Resolved(r)), Resolved(r) \in KnownTo(r.of),
             run' = [run EXCEPT ![x] = IF o.ok THEN Succeed(r) ELSE Fail(r)],
             effects' = IF o.effect THEN effects \cup {[by |-> x, of |-> r.of, at |-> r.next]} ELSE effects
      PROVE  LogInv'
  <2>. DEFINE q == IF o.ok THEN Succeed(r) ELSE Fail(r)
              acts == IF o.effect THEN TRUE ELSE FALSE
  <2>1. RunIsSound(q, IF acts THEN acted \cup {r.next} ELSE acted)
    BY <1>1, <1>2, <1>6, ActIsSound DEF Resolved
  <2>2. q \in Runs /\ q.of = r.of /\ acts \in BOOLEAN
    BY <1>3, <1>4
  <2>3. run' = [run EXCEPT ![x] = q]
        /\ effects' = IF acts THEN effects \cup {[by |-> x, of |-> r.of, at |-> r.next]} ELSE effects
    BY <1>6
  <2>. HIDE DEF q, acts
  <2>. QED
    BY <1>1, <2>1, <2>2, <2>3, RunGoesOn
<1>. QED
  BY <1>5, <1>6, ActSteps

\* The timeout.
LEMMA TimeoutKeepsLog ==
  ASSUME ServerTypeOK, ChainInv, LogInv, [ServerNext]_serverVars, NEW c \in Callers, TimedOut(c)
  PROVE  LogInv'
<1>. DEFINE r == run[c]
            acted == Acted(c, r.of)
<1>1. c \in Runners /\ IsRunning(c) /\ r.phase = "acting" /\ r \in Runs /\ logs' = logs
      /\ run' = [run EXCEPT ![c] = TimeOut(r)]
  BY DEF IsRunning, ServerTypeOK, TimedOut, Runners
<1>2. RunIsSound(r, acted)
  BY <1>1 DEF LogInv
<1>3. PICK acts \in (IF r.actions[r.next] \in ActingKinds THEN BOOLEAN ELSE {FALSE}) :
        effects' = IF acts THEN effects \cup {[by |-> c, of |-> r.of, at |-> r.next]} ELSE effects
  BY DEF TimedOut
<1>4. acts \in BOOLEAN /\ (acts => r.actions[r.next] \in EffectKinds)
  BY <1>3 DEF ActingKinds, EffectKinds
<1>5. TimeOut(r) \in Runs /\ TimeOut(r).of = r.of
  BY <1>1, TimedOutIsRun DEF TimeOut, Runs
<1>6. RunIsSound(TimeOut(r), IF acts THEN acted \cup {r.next} ELSE acted)
  BY <1>1, <1>2, <1>4, TimedOutIsSound
<1>. QED
  BY <1>1, <1>3, <1>4, <1>5, <1>6, RunGoesOn

\* The next hook of a list has not been run by this task.
LEMMA NextHookKeepsLog ==
  ASSUME ServerTypeOK, ChainInv, LogInv, [ServerNext]_serverVars, NEW w \in Writers, NextHook(w)
  PROVE  LogInv'
<1>1. PICK h \in tasks[w].todo :
        /\ tasks' = [tasks EXCEPT ![w].todo = @ \ {h}, ![w].due = IF Holds(h.row.cond) THEN @ ELSE @ \ {h.id}]
        /\ run' = IF Holds(h.row.cond) THEN [run EXCEPT ![w] = NewRun(h.id, h.row.actions)] ELSE run
        /\ tasks[w].phase = "running" /\ UNCHANGED <<effects, logs>>
  BY DEF NextHook
<1>2. tasks[w] \in Task /\ h.id \in Rows /\ h.row.actions \in Lists /\ w \in Runners
  BY <1>1 DEF ServerTypeOK, Task, Todo, HookRow, Runners
<1>3. CASE ~Holds(h.row.cond)
  BY <1>1, <1>3, RunsEnd
<1>4. CASE Holds(h.row.cond)
  <2>1. ~Past(w, h.id)
    BY DEF Past
  <2>2. tasks'[w].phase = "running" /\ tasks'[w].todo = tasks[w].todo \ {h}
    BY <1>1, <1>2 DEF ServerTypeOK, Task
  <2>3. \A g \in tasks[w].todo : g.id = h.id => g = h
    BY DEF LogInv, TodoOnce
  <2>4. Past(w, h.id)'
    BY <2>2, <2>3 DEF Past
  <2>. QED
    BY <1>1, <1>2, <1>4, <2>1, <2>4, RunStarts
<1>. QED
  BY <1>3, <1>4

\* A request that starts a run has run nothing before.
LEMMA RequestKeepsLog ==
  ASSUME ServerTypeOK, ChainInv, LogInv, [ServerNext]_serverVars,
         NEW x \in Managers \cup Callers, NEW of \in Rows \cup Ids, NEW list \in Lists,
         run[x] = NoRun, run' = [run EXCEPT ![x] = NewRun(of, list)], UNCHANGED <<effects, logs>>
  PROVE  LogInv'
<1>1. x \in Runners /\ x \notin Writers
  BY HooksAssumption DEF Runners
<1>2. run'[x] # NoRun
  BY <1>1, NewRunIsOf DEF ServerTypeOK
<1>3. ~Past(x, of) /\ Past(x, of)'
  BY <1>1, <1>2 DEF Past
<1>. QED
  BY <1>1, <1>3, RunStarts

\* All steps: runs start, go on and end.
LEMMA NextKeepsLog ==
  ASSUME ServerTypeOK, ChainInv, LogInv, [ServerNext]_serverVars PROVE LogInv'
<1>1. ASSUME run' = run, effects' = effects, logs' \subseteq logs PROVE LogInv'
  BY <1>1, RunsEnd
<1>2. ASSUME NEW m \in Managers, NEW r \in Rows, Trigger(m, r) PROVE LogInv'
  <2>1. rows[r].actions \in Lists
    BY <1>2 DEF Trigger, ServerTypeOK, HookRow
  <2>. QED
    BY <1>2, <2>1, RequestKeepsLog DEF Trigger, ByHand
<1>3. ASSUME NEW x \in Runners, LogRun(x) PROVE LogInv'
  <2>1. run' = [run EXCEPT ![x] = IF x \in Writers THEN NoRun ELSE Ended] /\ effects' = effects
        /\ IsRunning(x) /\ run[x].phase = "acted"
    BY <1>3 DEF LogRun, IsRunning
  <2>2. logs' = logs \/ logs' = logs \cup {LogOf(x)}
    BY <1>3 DEF LogRun
  <2>3. run'[x] \in {NoRun, Ended} /\ \A y \in Runners \ {x} : run'[y] = run[y]
    BY <2>1 DEF ServerTypeOK
  <2>. QED
    BY <2>1, <2>2, <2>3, RunsEnd
<1>4. ASSUME NEW c \in Callers, Respond(c) PROVE LogInv'
  <2>1. /\ run' = [run EXCEPT ![c] = Ended] /\ effects' = effects
        /\ IsRunning(c) /\ run[c].phase = "acted" /\ c \in Runners
    BY <1>4 DEF Respond, IsRunning, Runners
  <2>2. logs' = logs \/ logs' = logs \cup {LogOf(c)}
    BY <1>4 DEF Respond, LogsAfter
  <2>3. run'[c] \in {NoRun, Ended} /\ \A y \in Runners \ {c} : run'[y] = run[y]
    BY <2>1 DEF ServerTypeOK
  <2>. QED
    BY <2>1, <2>2, <2>3, RunsEnd
<1>5. CASE TaskNext
  <2>1. \A w \in Writers : ListHooks(w) \/ ListsNothing(w) \/ EndTask(w) => UNCHANGED <<run, effects, logs>>
    BY DEF ListHooks, ListsNothing, EndTask
  <2>2. \A r \in Rows : Toggle(r) \/ Delete(r) => run' = run /\ effects' = effects /\ logs' \subseteq logs
    BY DEF Toggle, Delete
  <2>. QED
    BY <1>1, <1>2, <1>3, <1>5, <2>1, <2>2, NextHookKeepsLog, ActKeepsLog DEF TaskNext
<1>6. CASE ChainNext
  <2>1. UNCHANGED <<run, effects, logs>>
    BY <1>6 DEF ChainNext, Register, Unregister, Clear, StartWrite, RunCallback, EndWrite
  <2>. QED
    BY <1>1, <2>1
<1>7. CASE EndpointNext
  <2>1. \A c \in Callers : ActFor(c) => LogInv'
    BY ActKeepsLog DEF ActFor, Runners
  <2>2. \A c \in Callers, i \in Ids, list \in Lists :
          /\ run[c] = NoRun /\ run' = [run EXCEPT ![c] = NewRun(i, list)] /\ UNCHANGED <<effects, logs>> => LogInv'
    BY RequestKeepsLog
  <2>. QED
    BY <1>1, <1>4, <1>7, <2>1, <2>2, EndpointSteps, TimeoutKeepsLog
<1>8. CASE StopServer
  <2>1. effects' = effects /\ logs' = logs /\ \A x \in Runners : run'[x] \in {NoRun, Ended}
    BY <1>8 DEF StopServer, Stop
  <2>. QED
    BY <2>1, RunsEnd
<1>9. CASE UNCHANGED serverVars
  BY <1>1, <1>9 DEF serverVars, hookVars
<1>. QED
  BY <1>5, <1>6, <1>7, <1>8, <1>9 DEF ServerNext, HookNext

-----------------------------------------------------------------------------
(* The theorems.                                                            *)

\* The invariant as a whole: types, chains, tasks, logs, the limit.
ServerInv == ServerTypeOK /\ ChainInv /\ TaskInv /\ LogInv /\ LimitInv

\* Types, over all steps.
LEMMA NextKeepsServerTypes == ServerTypeOK /\ [ServerNext]_serverVars => ServerTypeOK'
<1>1. UNCHANGED serverVars /\ ServerTypeOK => ServerTypeOK'
  BY DEF serverVars, hookVars, registryVars, endpointVars, ServerTypeOK
<1>. QED
  BY <1>1, ChainStepsKeepTypes, TaskStepsKeepTypes, EndpointStepsKeepTypes, StopKeepsTypes DEF ServerNext, HookNext

\* The invariant that all of these theorems rest on.
LEMMA SpecServerInv == ServerSpec => []ServerInv
<1>1. ServerInit => ServerInv
  BY TypesAtFirst, ChainAtFirst, TaskAtFirst, LogAtFirst, LimitAtFirst DEF ServerInv
<1>2. ServerInv /\ [ServerNext]_serverVars => ServerInv'
  BY NextKeepsServerTypes, NextKeepsChain, NextKeepsTasks, NextKeepsLog, NextKeepsLimit DEF ServerInv
<1>. QED
  BY <1>1, <1>2, PTL DEF ServerSpec

\* Every variable of hooks and endpoints keeps its type.
THEOREM ServerTypesHold == ServerSpec => []ServerTypeOK
BY SpecServerInv, PTL DEF ServerInv

\* A write that is committed without an audit entry was kept from it by a callback
\* that aborted, stopped the chain or replaced the data, or was anonymous, or met the
\* log switched off or a failing audit service.
THEOREM SpecAuditedUnlessStopped == ServerSpec => []AuditedUnlessStopped
<1>1. ServerInv => AuditedUnlessStopped
  BY DEF ServerInv, ChainInv, ChainIsSound, IsStopped, AuditedUnlessStopped
<1>. QED
  BY <1>1, SpecServerInv, PTL

\* A hook that matched when the event of an authenticated request fired and was left
\* alone has been run when the task, which has read its list, is over.
THEOREM SpecSteadyHookRuns == ServerSpec => []SteadyHookRuns
<1>1. ServerInv => SteadyHookRuns
  BY DEF ServerInv, TaskInv, TaskIsSound, SteadyHookRuns
<1>. QED
  BY <1>1, SpecServerInv, PTL

\* A row of executions tells what its run has done.
THEOREM SpecLogsAreTrue == ServerSpec => []LogsAreTrue
<1>1. ServerInv => LogsAreTrue
  <2>1. \A l : Effected(l) = Acted(l.by, l.of)
    BY DEF Effected, Acted, ActedIn
  <2>. QED
    BY <2>1 DEF ServerInv, LogInv, IsTold, LogsAreTrue
<1>. QED
  BY <1>1, SpecServerInv, PTL

\* Without the endpoints that overlapping creations have let in, an account is within its limit.
THEOREM SpecLimitIsKept == ServerSpec => []LimitIsKept
<1>1. ServerInv => LimitIsKept
  BY DEF ServerInv, LimitInv
<1>. QED
  BY <1>1, SpecServerInv, PTL

-----------------------------------------------------------------------------
(* What whoever builds on the lease of a job may rely on.                   *)

LeaseInv == LeaseTypeOK /\ OneJobEach /\ ExclusiveLease /\ RunnersHoldLease

\* The lease is exclusive because a job that waits, or has ended, has no runner.
LEMMA LeaseStepKeepsLeaseInv == LeaseInv /\ [LeaseNext]_leaseVars => LeaseInv'
<1>. SUFFICES ASSUME LeaseInv, [LeaseNext]_leaseVars PROVE LeaseInv'
  OBVIOUS
<1>. USE DEF LeaseInv, LeaseTypeOK, OneJobEach, ExclusiveLease, RunnersHoldLease, Phase
<1>1. ASSUME NEW j \in Jobs, Offer(j) \/ Revive(j) PROVE LeaseInv'
  BY <1>1 DEF Offer, Revive
<1>2. ASSUME NEW j \in Jobs, NEW w \in Workers, Lease(j, w) PROVE LeaseInv'
  <2>1. j \notin broken => runners[j] = {}
    BY <1>2 DEF Lease
  <2>2. /\ runners' \in [Jobs -> SUBSET Workers] /\ runners'[j] = runners[j] \cup {w}
        /\ \A k \in Jobs \ {j} : runners'[k] = runners[k]
        /\ phase' \in [Jobs -> Phase] /\ phase'[j] = "leased"
        /\ \A k \in Jobs \ {j} : phase'[k] = phase[k]
        /\ broken' = broken
    BY <1>2 DEF Lease
  <2>3. \A k \in Jobs : w \notin runners[k]
    BY <1>2 DEF Lease
  <2>4. OneJobEach'
    BY <2>2, <2>3
  <2>5. ExclusiveLease' /\ RunnersHoldLease'
    BY <2>1, <2>2
  <2>. QED
    BY <2>2, <2>4, <2>5
<1>3. ASSUME NEW j \in Jobs, NEW w \in Workers, NEW outcome \in {"queued", "done", "dead"}, Settle(j, w, outcome)
      PROVE  LeaseInv'
  <2>1. /\ runners' \in [Jobs -> SUBSET Workers] /\ runners'[j] = runners[j] \ {w} /\ w \in runners[j]
        /\ \A k \in Jobs \ {j} : runners'[k] = runners[k]
        /\ phase' \in [Jobs -> Phase]
        /\ \A k \in Jobs \ {j} : phase'[k] = phase[k]
        /\ broken' = broken
    BY <1>3 DEF Settle
  <2>2. j \notin broken => runners'[j] = {}
    BY <2>1
  <2>3. OneJobEach'
    BY <2>1
  <2>4. ExclusiveLease' /\ RunnersHoldLease'
    BY <2>1, <2>2
  <2>. QED
    BY <2>1, <2>3, <2>4
<1>4. ASSUME NEW j \in Jobs, NEW w \in Workers, Drop(j, w) PROVE LeaseInv'
  <2>1. /\ runners' \in [Jobs -> SUBSET Workers] /\ \A k \in Jobs : runners'[k] \subseteq runners[k]
        /\ UNCHANGED <<phase, broken>>
    BY <1>4 DEF Drop
  <2>2. OneJobEach'
    BY <2>1
  <2>3. ExclusiveLease' /\ RunnersHoldLease'
    BY <2>1
  <2>. QED
    BY <2>1, <2>2, <2>3
<1>5. ASSUME NEW S \in SUBSET Jobs, Expire(S) \/ Remove(S) PROVE LeaseInv'
  BY <1>5 DEF Expire, Remove
<1>6. CASE UNCHANGED leaseVars
  BY <1>6 DEF leaseVars
<1>. QED
  BY <1>1, <1>2, <1>3, <1>4, <1>5, <1>6 DEF LeaseNext

LEMMA LeaseInitHasLeaseInv == LeaseInit => LeaseInv
BY DEF LeaseInit, LeaseInv, LeaseTypeOK, OneJobEach, ExclusiveLease, RunnersHoldLease, Phase

\* Whatever is leased, settled, dropped, expired, revived and removed: a job whose lease was
\* not broken has one runner at most, and has one only while it is leased (or deleted).
THEOREM LeaseIsExclusive == LeaseSpec => [](ExclusiveLease /\ RunnersHoldLease)
<1>1. LeaseInv => ExclusiveLease /\ RunnersHoldLease
  BY DEF LeaseInv
<1>. QED
  BY <1>1, LeaseInitHasLeaseInv, LeaseStepKeepsLeaseInv, PTL DEF LeaseSpec

-----------------------------------------------------------------------------
(* Deliveries.                                                              *)

USE WebhookDeliveryAssumption

\* The handlers of deliveries treat their jobs as the lease protocol says.
LEMMA StepsAreLeaseSteps == [Next]_vars => [LeaseNext]_leaseVars
<1>. SUFFICES ASSUME [Next]_vars PROVE [LeaseNext]_leaseVars
  OBVIOUS
<1>1. ASSUME NEW j \in Jobs, TaskStep(j) \/ TaskFails(j) \/ StaleReset(j) \/ RetryJob(j) \/ DeleteJob(j)
      PROVE  [LeaseNext]_leaseVars
  <2>1. {j} \in SUBSET Jobs
    OBVIOUS
  <2>2. UNCHANGED leaseVars \/ Offer(j) \/ Expire({j}) \/ Revive(j) \/ Remove({j})
    BY <1>1 DEF TaskStep, CreateDelivery, Enqueue, TaskFails, StaleReset, RetryJob, DeleteJob
  <2>. QED
    BY <2>1, <2>2 DEF LeaseNext
<1>2. ASSUME NEW w \in Workers, NEW j \in Jobs,
             \/ Take(w, j) \/ RecordOutcome(w, j) \/ Report(w, j)
             \/ \E reaches, accepts, answered \in BOOLEAN : Post(w, j, reaches, accepts, answered)
             \/ HandlerFails(w, j) \/ WorkerDies(w, j)
      PROVE  [LeaseNext]_leaseVars
  <2>1. \/ UNCHANGED leaseVars \/ Lease(j, w) \/ Drop(j, w)
        \/ \E outcome \in {"queued", "done", "dead"} : Settle(j, w, outcome)
    BY <1>2 DEF Take, RecordOutcome, Report, Post, HandlerFails, WorkerDies, Fails
  <2>. QED
    BY <2>1 DEF LeaseNext
<1>3. CASE \/ \E o \in Ops : \/ Begin(o) \/ FireHook(o)
                            \/ \E outcome \in {"committed", "rolledback"} : EndTransaction(o, outcome)
           \/ ServerDies
           \/ \E h \in Webhooks : \/ \E value \in {"enabled", "disabled"} : SetEnabled(h, value)
                                  \/ DeleteWebhook(h)
           \/ UNCHANGED vars
  BY <1>3 DEF Begin, FireHook, EndTransaction, ServerDies, SetEnabled, DeleteWebhook, vars
<1>. QED
  BY <1>1, <1>2, <1>3 DEF Next, WorkerStep

\* The jobs of deliveries are leased as JobLease says: what it promises holds of them.
THEOREM DeliveriesAreLeased == Spec => LeaseSpec
<1>1. Init => LeaseInit
  BY DEF Init
<1>. QED
  BY <1>1, StepsAreLeaseSteps, PTL DEF Spec, LeaseSpec

-----------------------------------------------------------------------------
(* What a delivery's row says of the receiver, and of the job.              *)

\* A worker that has, or reports, an answer of 2xx has had it; one that reports has
\* recorded the outcome.
WorkersKnow ==
  \A j \in Jobs : \A w \in runners[j] :
    /\ at[w] \in {"success", "reportSuccess"} => j \in accepted
    /\ at[w] \in {"reportSuccess", "reportFailure"} => row[j] # "pending"

\* A task is spawned once, and its job has not started before the task ends.
TasksComeFirst ==
  \A j \in Jobs :
    /\ op[j[1]] \in {"none", "open"} => task[j] = "none"
    /\ task[j] # "ended" => phase[j] = "none" /\ runners[j] = {}

DeliveryInv ==
  /\ LeaseInv /\ TypeOK
  /\ WorkersKnow /\ TasksComeFirst
  /\ DeliveredWasAccepted /\ PendingIsUnderway

LEMMA InitHasDeliveryInv == Init => DeliveryInv
<1>. SUFFICES ASSUME Init PROVE DeliveryInv
  OBVIOUS
<1>1. LeaseInv
  BY LeaseInitHasLeaseInv DEF Init
<1>2. TypeOK
  BY <1>1 DEF Init, TypeOK, LeaseInv, At, LeaseInit
<1>3. WorkersKnow /\ TasksComeFirst /\ DeliveredWasAccepted /\ PendingIsUnderway
  BY DEF Init, LeaseInit, WorkersKnow, TasksComeFirst, DeliveredWasAccepted, PendingIsUnderway
<1>. QED
  BY <1>1, <1>2, <1>3 DEF DeliveryInv

\* The lease protocol is kept by every step; the rest is shown of each part of Next.
LEMMA ServerStepsKeepDeliveryInv ==
  ASSUME DeliveryInv, LeaseInv',
         \/ \E o \in Ops : \/ Begin(o) \/ FireHook(o)
                           \/ \E outcome \in {"committed", "rolledback"} : EndTransaction(o, outcome)
         \/ ServerDies
         \/ \E h \in Webhooks : \/ \E value \in {"enabled", "disabled"} : SetEnabled(h, value)
                                \/ DeleteWebhook(h)
  PROVE  DeliveryInv'
<1>. USE DEF DeliveryInv
<1>0. LeaseTypeOK'
  BY DEF LeaseInv
<1>j. \A j \in Jobs : j[1] \in Ops /\ j[2] \in Webhooks
  OBVIOUS
<1>1. ASSUME NEW o \in Ops, Begin(o) \/ \E outcome \in {"committed", "rolledback"} : EndTransaction(o, outcome)
      PROVE  DeliveryInv'
  <2>0. UNCHANGED <<leaseVars, webhook, task, row, failures, at, mishaps, admin, accepted>>
    BY <1>1 DEF Begin, EndTransaction
  <2>1. /\ op' \in [Ops -> {"none", "open", "fired", "committed", "rolledback"}]
        /\ \A p \in Ops : op'[p] \in {"none", "open"} => op[p] \in {"none", "open"}
    BY <1>1 DEF Begin, EndTransaction, TypeOK
  <2>2. TypeOK'
    BY <1>0, <2>0, <2>1 DEF TypeOK, leaseVars
  <2>3. TasksComeFirst'
    BY <1>j, <2>0, <2>1 DEF TasksComeFirst, leaseVars
  <2>4. WorkersKnow' /\ DeliveredWasAccepted' /\ PendingIsUnderway'
    BY <2>0 DEF WorkersKnow, DeliveredWasAccepted, PendingIsUnderway, leaseVars
  <2>. QED
    BY <2>2, <2>3, <2>4
<1>2. ASSUME NEW o \in Ops, FireHook(o) PROVE DeliveryInv'
  <2>0. UNCHANGED <<leaseVars, webhook, row, failures, at, mishaps, admin, accepted>>
    BY <1>2 DEF FireHook
  <2>1. /\ op' = [op EXCEPT ![o] = "fired"] /\ op[o] = "open"
        /\ task' = [j \in Jobs |-> IF j[1] = o /\ webhook[j[2]] = "enabled" THEN "create" ELSE task[j]]
    BY <1>2 DEF FireHook
  <2>2. TypeOK'
    BY <1>0, <2>0, <2>1 DEF TypeOK, leaseVars
  <2>3. TasksComeFirst'
    <3>1. ASSUME NEW j \in Jobs, task'[j] # "ended" PROVE phase'[j] = "none" /\ runners'[j] = {}
      BY <1>j, <2>0, <2>1, <3>1 DEF TasksComeFirst, leaseVars
    <3>2. ASSUME NEW j \in Jobs, op'[j[1]] \in {"none", "open"} PROVE task'[j] = "none"
      <4>1. j[1] # o /\ op[j[1]] \in {"none", "open"}
        BY <1>j, <2>1, <3>2 DEF TypeOK
      <4>. QED
        BY <2>1, <4>1 DEF TasksComeFirst
    <3>. QED
      BY <3>1, <3>2 DEF TasksComeFirst
  <2>4. WorkersKnow' /\ DeliveredWasAccepted'
    BY <2>0 DEF WorkersKnow, DeliveredWasAccepted, leaseVars
  <2>5. PendingIsUnderway'
    <3>1. \A j \in Jobs : task[j] = "enqueue" => task'[j] = "enqueue"
      BY <1>j, <2>1 DEF TasksComeFirst
    <3>. QED
      BY <2>0, <3>1 DEF PendingIsUnderway, leaseVars
  <2>. QED
    BY <2>2, <2>3, <2>4, <2>5
<1>3. CASE ServerDies
  <2>0. UNCHANGED <<leaseVars, webhook, row, failures, at, admin, accepted>>
    BY <1>3 DEF ServerDies
  <2>1. /\ op' = [o \in Ops |-> IF op[o] \in {"open", "fired"} THEN "rolledback" ELSE op[o]]
        /\ task' = [j \in Jobs |-> IF task[j] = "none" THEN "none" ELSE "ended"]
        /\ mishaps' \in 0..MaxMishaps /\ mishaps' # 0
    BY <1>3 DEF ServerDies, Mishap, TypeOK
  <2>2. TypeOK'
    BY <1>0, <2>0, <2>1 DEF TypeOK, leaseVars
  <2>3. TasksComeFirst'
    BY <1>j, <2>0, <2>1 DEF TasksComeFirst, leaseVars
  <2>4. WorkersKnow' /\ DeliveredWasAccepted' /\ PendingIsUnderway'
    BY <2>0, <2>1 DEF WorkersKnow, DeliveredWasAccepted, PendingIsUnderway, leaseVars
  <2>. QED
    BY <2>2, <2>3, <2>4
<1>4. ASSUME NEW h \in Webhooks, NEW value \in {"enabled", "disabled"}, SetEnabled(h, value) PROVE DeliveryInv'
  <2>0. UNCHANGED <<leaseVars, op, task, row, failures, at, mishaps, accepted>>
    BY <1>4 DEF SetEnabled
  <2>1. webhook' \in [Webhooks -> {"enabled", "disabled", "deleted"}] /\ admin' \in 0..MaxAdmin
    BY <1>4 DEF SetEnabled, Admin, TypeOK
  <2>2. TypeOK'
    BY <1>0, <2>0, <2>1 DEF TypeOK, leaseVars
  <2>3. TasksComeFirst' /\ WorkersKnow' /\ DeliveredWasAccepted' /\ PendingIsUnderway'
    BY <2>0 DEF TasksComeFirst, WorkersKnow, DeliveredWasAccepted, PendingIsUnderway, leaseVars
  <2>. QED
    BY <2>2, <2>3
<1>5. ASSUME NEW h \in Webhooks, DeleteWebhook(h) PROVE DeliveryInv'
  <2>0. UNCHANGED <<leaseVars, op, task, failures, at, mishaps, accepted>>
    BY <1>5 DEF DeleteWebhook
  <2>1. /\ webhook' \in [Webhooks -> {"enabled", "disabled", "deleted"}] /\ admin' \in 0..MaxAdmin
        /\ row' = [j \in Jobs |-> IF j[2] = h /\ row[j] # "none" THEN "gone" ELSE row[j]]
    BY <1>5 DEF DeleteWebhook, Admin, TypeOK
  <2>2. TypeOK'
    BY <1>0, <2>0, <2>1 DEF TypeOK, leaseVars
  <2>3. \A j \in Jobs : row'[j] \in {"pending", "delivered"} => row'[j] = row[j]
    BY <2>1
  <2>4. TasksComeFirst' /\ WorkersKnow' /\ DeliveredWasAccepted' /\ PendingIsUnderway'
    BY <2>0, <2>3 DEF TasksComeFirst, WorkersKnow, DeliveredWasAccepted, PendingIsUnderway, leaseVars
  <2>. QED
    BY <2>2, <2>4
<1>. QED
  BY <1>1, <1>2, <1>3, <1>4, <1>5

LEMMA TaskStepsKeepDeliveryInv ==
  ASSUME DeliveryInv, LeaseInv',
         NEW j \in Jobs, TaskStep(j) \/ TaskFails(j) \/ StaleReset(j) \/ RetryJob(j) \/ DeleteJob(j)
  PROVE  DeliveryInv'
<1>. USE DEF DeliveryInv
<1>0. LeaseTypeOK'
  BY DEF LeaseInv
<1>1. CASE CreateDelivery(j)
  <2>0. UNCHANGED <<leaseVars, op, webhook, failures, at, mishaps, admin, accepted>>
    BY <1>1 DEF CreateDelivery
  <2>1. /\ task[j] = "create"
        /\ \/ task' = [task EXCEPT ![j] = "ended"] /\ UNCHANGED row
           \/ task' = [task EXCEPT ![j] = "enqueue"] /\ row' = [row EXCEPT ![j] = "pending"]
    BY <1>1 DEF CreateDelivery
  <2>8. task' \in [Jobs -> {"none", "create", "enqueue", "ended"}]
    BY <2>1 DEF TypeOK
  <2>9. row' \in [Jobs -> {"none", "pending", "delivered", "failed", "gone"}]
    <3>1. row \in [Jobs -> {"none", "pending", "delivered", "failed", "gone"}]
      BY DEF TypeOK
    <3>2. row' = row \/ row' = [row EXCEPT ![j] = "pending"]
      BY <2>1
    <3>. QED
      BY <3>1, <3>2
  <2>2. TypeOK'
    BY <1>0, <2>0, <2>8, <2>9 DEF TypeOK, leaseVars
  <2>3. runners[j] = {} /\ phase[j] = "none" /\ op[j[1]] \notin {"none", "open"}
    BY <2>1 DEF TasksComeFirst
  <2>4. TasksComeFirst'
    BY <2>0, <2>1, <2>3 DEF TasksComeFirst, leaseVars, TypeOK
  <2>5. WorkersKnow'
    BY <2>0, <2>1, <2>3 DEF WorkersKnow, leaseVars, TypeOK
  <2>6. DeliveredWasAccepted'
    BY <2>0, <2>1 DEF DeliveredWasAccepted, leaseVars, TypeOK
  <2>7. PendingIsUnderway'
    <3>1. ASSUME NEW k \in Jobs, mishaps = 0, row'[k] = "pending"
          PROVE  task'[k] = "enqueue" \/ phase[k] \in {"queued", "leased", "gone"}
      BY <2>1, <2>3, <3>1 DEF PendingIsUnderway, TypeOK
    <3>. QED
      BY <2>0, <3>1 DEF PendingIsUnderway, leaseVars
  <2>. QED
    BY <2>2, <2>4, <2>5, <2>6, <2>7
<1>2. CASE Enqueue(j)
  <2>0. UNCHANGED <<op, webhook, row, failures, at, mishaps, admin, accepted, runners, broken>>
    BY <1>2 DEF Enqueue, Offer
  <2>1. /\ task[j] = "enqueue" /\ task' = [task EXCEPT ![j] = "ended"]
        /\ phase' = [phase EXCEPT ![j] = "queued"]
    BY <1>2 DEF Enqueue, Offer
  <2>2. TypeOK'
    BY <1>0, <2>0, <2>1 DEF TypeOK
  <2>3. TasksComeFirst'
    BY <2>0, <2>1 DEF TasksComeFirst, TypeOK, LeaseTypeOK
  <2>4. WorkersKnow'
    BY <2>0 DEF WorkersKnow
  <2>5. DeliveredWasAccepted' /\ PendingIsUnderway'
    BY <2>0, <2>1 DEF DeliveredWasAccepted, PendingIsUnderway, TypeOK, LeaseTypeOK
  <2>. QED
    BY <2>2, <2>3, <2>4, <2>5
<1>3. CASE TaskFails(j)
  <2>0. UNCHANGED <<leaseVars, op, webhook, row, failures, at, admin, accepted>>
    BY <1>3 DEF TaskFails
  <2>1. /\ task[j] \in {"create", "enqueue"} /\ task' = [task EXCEPT ![j] = "ended"]
        /\ mishaps' \in 0..MaxMishaps /\ mishaps' # 0
    BY <1>3 DEF TaskFails, Mishap, TypeOK
  <2>2. TypeOK'
    BY <1>0, <2>0, <2>1 DEF TypeOK, leaseVars
  <2>3. TasksComeFirst'
    BY <2>0, <2>1 DEF TasksComeFirst, TypeOK, leaseVars
  <2>4. WorkersKnow' /\ DeliveredWasAccepted' /\ PendingIsUnderway'
    BY <2>0, <2>1 DEF WorkersKnow, DeliveredWasAccepted, PendingIsUnderway, leaseVars
  <2>. QED
    BY <2>2, <2>3, <2>4
<1>4. CASE StaleReset(j)
  <2>0. UNCHANGED <<world, row, failures, at, admin, accepted, runners>>
    BY <1>4 DEF StaleReset, Expire
  <2>1. /\ phase[j] = "leased" /\ phase' = [phase EXCEPT ![j] = "queued"]
        /\ mishaps' \in 0..MaxMishaps /\ (mishaps' = 0 => mishaps = 0)
    <3>1. phase[j] = "leased" /\ \A k \in Jobs : phase'[k] = IF k = j THEN "queued" ELSE phase[k]
      BY <1>4 DEF StaleReset, Expire
    <3>2. phase' = [phase EXCEPT ![j] = "queued"]
      BY <1>4 DEF StaleReset, Expire, TypeOK, LeaseTypeOK
    <3>. QED
      BY <1>4, <3>1, <3>2 DEF StaleReset, Mishap, TypeOK
  <2>2. TypeOK'
    BY <1>0, <2>0, <2>1 DEF TypeOK, world
  <2>3. TasksComeFirst'
    BY <2>0, <2>1 DEF TasksComeFirst, TypeOK, LeaseTypeOK, world
  <2>4. WorkersKnow' /\ DeliveredWasAccepted' /\ PendingIsUnderway'
    BY <2>0, <2>1 DEF WorkersKnow, DeliveredWasAccepted, PendingIsUnderway, TypeOK, LeaseTypeOK, world
  <2>. QED
    BY <2>2, <2>3, <2>4
<1>5. CASE RetryJob(j)
  <2>0. UNCHANGED <<world, row, at, mishaps, accepted, runners, broken>>
    BY <1>5 DEF RetryJob, Revive
  <2>1. /\ phase[j] = "dead" /\ phase' = [phase EXCEPT ![j] = "queued"]
        /\ failures' = [failures EXCEPT ![j] = 0] /\ admin' \in 0..MaxAdmin
    BY <1>5 DEF RetryJob, Revive, Admin, TypeOK
  <2>2. TypeOK'
    BY <1>0, <2>0, <2>1 DEF TypeOK, world
  <2>3. TasksComeFirst'
    BY <2>0, <2>1 DEF TasksComeFirst, TypeOK, LeaseTypeOK, world
  <2>4. WorkersKnow' /\ DeliveredWasAccepted' /\ PendingIsUnderway'
    BY <2>0, <2>1 DEF WorkersKnow, DeliveredWasAccepted, PendingIsUnderway, TypeOK, LeaseTypeOK, world
  <2>. QED
    BY <2>2, <2>3, <2>4
<1>6. CASE DeleteJob(j)
  <2>0. UNCHANGED <<world, row, failures, at, mishaps, accepted, runners, broken>>
    BY <1>6 DEF DeleteJob, Remove
  <2>5. phase[j] # "none" /\ phase' = [k \in Jobs |-> IF k \in {j} THEN "gone" ELSE phase[k]]
    BY <1>6 DEF DeleteJob, Remove
  <2>6. phase \in [Jobs -> {"none", "queued", "leased", "done", "dead", "gone"}]
    BY DEF TypeOK, LeaseTypeOK, Phase
  <2>7. phase' = [phase EXCEPT ![j] = "gone"]
    BY <2>5, <2>6
  <2>8. admin' \in 0..MaxAdmin
    BY <1>6 DEF DeleteJob, Admin, TypeOK
  <2>1. phase[j] # "none" /\ phase' = [phase EXCEPT ![j] = "gone"] /\ admin' \in 0..MaxAdmin
    BY <2>5, <2>7, <2>8
  <2>2. TypeOK'
    BY <1>0, <2>0, <2>1 DEF TypeOK, world
  <2>3. TasksComeFirst'
    BY <2>0, <2>1 DEF TasksComeFirst, TypeOK, LeaseTypeOK, world
  <2>4. WorkersKnow' /\ DeliveredWasAccepted' /\ PendingIsUnderway'
    BY <2>0, <2>1 DEF WorkersKnow, DeliveredWasAccepted, PendingIsUnderway, TypeOK, LeaseTypeOK, world
  <2>. QED
    BY <2>2, <2>3, <2>4
<1>. QED
  BY <1>1, <1>2, <1>3, <1>4, <1>5, <1>6 DEF TaskStep

\* A worker has one job (LeaseInv): what it does concerns that job only.
LEMMA WorkerStepsKeepDeliveryInv ==
  ASSUME DeliveryInv, LeaseInv', NEW w \in Workers, NEW j \in Jobs,
         \/ Take(w, j) \/ RecordOutcome(w, j) \/ Report(w, j)
         \/ \E reaches, accepts, answered \in BOOLEAN : Post(w, j, reaches, accepts, answered)
         \/ HandlerFails(w, j) \/ WorkerDies(w, j)
  PROVE  DeliveryInv'
<1>. USE DEF DeliveryInv
<1>0. LeaseTypeOK'
  BY DEF LeaseInv
<1>e. /\ \A k \in Jobs : w \in runners[j] /\ w \in runners[k] => k = j
      /\ \A k \in Jobs : runners[k] \subseteq Workers
  BY DEF LeaseInv, OneJobEach, LeaseTypeOK
<1>1. CASE Take(w, j)
  <2>0. UNCHANGED <<world, row, failures, mishaps, admin, accepted, broken>>
    BY <1>1 DEF Take, Lease
  <2>1. /\ phase[j] = "queued" /\ phase' = [phase EXCEPT ![j] = "leased"]
        /\ runners' = [runners EXCEPT ![j] = @ \cup {w}] /\ at' = [at EXCEPT ![w] = "post"]
        /\ \A k \in Jobs : w \notin runners[k]
    BY <1>1 DEF Take, Lease
  <2>2. \A v \in Workers : at'[v] = "idle" <=> \A k \in Jobs : v \notin runners'[k]
    <3>1. at'[w] = "post" /\ w \in runners'[j]
      BY <2>1 DEF TypeOK, LeaseTypeOK
    <3>2. ASSUME NEW v \in Workers \ {w}
          PROVE  at'[v] = at[v] /\ \A k \in Jobs : v \in runners'[k] <=> v \in runners[k]
      BY <2>1 DEF TypeOK, LeaseTypeOK
    <3>3. \A v \in Workers : at[v] = "idle" <=> \A k \in Jobs : v \notin runners[k]
      BY DEF TypeOK
    <3>4. ASSUME NEW v \in Workers \ {w} PROVE at'[v] = "idle" <=> \A k \in Jobs : v \notin runners'[k]
      BY <3>2, <3>3
    <3>. QED
      BY <3>1, <3>4
  <2>3. TypeOK'
    BY <1>0, <2>0, <2>1, <2>2 DEF TypeOK, world, At
  <2>4. TasksComeFirst'
    <3>1. task[j] = "ended"
      BY <2>1 DEF TasksComeFirst
    <3>. QED
      BY <2>0, <2>1, <3>1 DEF TasksComeFirst, TypeOK, LeaseTypeOK, world
  <2>5. WorkersKnow'
    <3>1. ASSUME NEW k \in Jobs, NEW v \in runners'[k]
          PROVE  at'[v] = "post" \/ (v \in runners[k] /\ at'[v] = at[v])
      BY <2>1, <1>e DEF TypeOK, LeaseTypeOK
    <3>. QED
      BY <2>0, <3>1 DEF WorkersKnow
  <2>6. DeliveredWasAccepted' /\ PendingIsUnderway'
    BY <2>0, <2>1 DEF DeliveredWasAccepted, PendingIsUnderway, TypeOK, LeaseTypeOK, world
  <2>. QED
    BY <2>3, <2>4, <2>5, <2>6
<1>2. CASE RecordOutcome(w, j)
  <2>0. UNCHANGED <<leaseVars, world, failures, mishaps, admin, accepted>>
    BY <1>2 DEF RecordOutcome
  <2>1. /\ w \in runners[j] /\ at[w] \in {"success", "failure"}
        /\ row' = [row EXCEPT ![j] = IF @ = "gone" THEN "gone"
                                     ELSE IF at[w] = "success" THEN "delivered" ELSE "failed"]
        /\ at' = [at EXCEPT ![w] = IF @ = "success" THEN "reportSuccess" ELSE "reportFailure"]
    BY <1>2 DEF RecordOutcome
  <2>2. /\ row'[j] # "pending" /\ \A k \in Jobs \ {j} : row'[k] = row[k]
        /\ at'[w] \in {"reportSuccess", "reportFailure"} /\ \A v \in Workers \ {w} : at'[v] = at[v]
        /\ at'[w] = "reportSuccess" => at[w] = "success"
        /\ row'[j] = "delivered" => at[w] = "success"
    BY <2>1 DEF TypeOK
  <2>3. TypeOK'
    <3>1. row' \in [Jobs -> {"none", "pending", "delivered", "failed", "gone"}] /\ at' \in [Workers -> At]
      BY <2>1 DEF TypeOK, At
    <3>2. \A v \in Workers : at'[v] = "idle" <=> at[v] = "idle"
      BY <2>1, <2>2
    <3>. QED
      BY <1>0, <2>0, <3>1, <3>2 DEF TypeOK, leaseVars, world
  <2>4. TasksComeFirst'
    BY <2>0 DEF TasksComeFirst, leaseVars, world
  <2>5. WorkersKnow'
    <3>1. ASSUME NEW k \in Jobs, NEW v \in runners[k], at'[v] \in {"success", "reportSuccess"} PROVE k \in accepted
      BY <1>e, <2>1, <2>2, <3>1 DEF WorkersKnow
    <3>2. ASSUME NEW k \in Jobs, NEW v \in runners[k], at'[v] \in {"reportSuccess", "reportFailure"}
          PROVE  row'[k] # "pending"
      BY <1>e, <2>1, <2>2, <3>2 DEF WorkersKnow
    <3>. QED
      BY <2>0, <3>1, <3>2 DEF WorkersKnow, leaseVars
  <2>6. DeliveredWasAccepted'
    <3>1. at[w] = "success" => j \in accepted
      BY <2>1 DEF WorkersKnow
    <3>. QED
      BY <2>0, <2>2, <3>1 DEF DeliveredWasAccepted, leaseVars
  <2>7. PendingIsUnderway'
    BY <2>0, <2>2 DEF PendingIsUnderway, leaseVars, world
  <2>. QED
    BY <2>3, <2>4, <2>5, <2>6, <2>7
<1>3. ASSUME NEW reaches \in BOOLEAN, NEW accepts \in BOOLEAN, NEW answered \in BOOLEAN,
             Post(w, j, reaches, accepts, answered)
      PROVE  DeliveryInv'
  <2>0. UNCHANGED <<leaseVars, world, row, failures, mishaps, admin>>
    BY <1>3 DEF Post
  <2>1. w \in runners[j] /\ at[w] = "post"
    BY <1>3 DEF Post
  <2>2. /\ accepted \subseteq accepted' /\ accepted' \subseteq accepted \cup {j}
        /\ at'[w] \in {"success", "failure"} /\ (at'[w] = "success" => j \in accepted')
        /\ at' \in [Workers -> At] /\ \A v \in Workers \ {w} : at'[v] = at[v]
    BY <1>3 DEF Post, TypeOK, At
  <2>3. TypeOK'
    <3>1. \A v \in Workers : at'[v] = "idle" <=> at[v] = "idle"
      BY <2>1, <2>2
    <3>2. accepted' \subseteq Jobs
      BY <2>2 DEF TypeOK
    <3>. QED
      BY <1>0, <2>0, <2>2, <3>1, <3>2 DEF TypeOK, leaseVars, world
  <2>4. TasksComeFirst'
    BY <2>0 DEF TasksComeFirst, leaseVars, world
  <2>5. WorkersKnow'
    <3>1. ASSUME NEW k \in Jobs, NEW v \in runners[k], at'[v] \in {"success", "reportSuccess"} PROVE k \in accepted'
      BY <1>e, <2>1, <2>2, <3>1 DEF WorkersKnow
    <3>2. ASSUME NEW k \in Jobs, NEW v \in runners[k], at'[v] \in {"reportSuccess", "reportFailure"}
          PROVE  row[k] # "pending"
      BY <1>e, <2>1, <2>2, <3>2 DEF WorkersKnow
    <3>. QED
      BY <2>0, <3>1, <3>2 DEF WorkersKnow, leaseVars
  <2>6. DeliveredWasAccepted' /\ PendingIsUnderway'
    BY <2>0, <2>2 DEF DeliveredWasAccepted, PendingIsUnderway, leaseVars, world
  <2>. QED
    BY <2>3, <2>4, <2>5, <2>6
<1>4. CASE Report(w, j) \/ HandlerFails(w, j) \/ WorkerDies(w, j)
  <2>0. UNCHANGED <<world, row, admin, accepted, broken>>
    BY <1>4 DEF Report, HandlerFails, WorkerDies, Settle, Drop
  <2>1. /\ w \in runners[j] /\ runners' = [runners EXCEPT ![j] = @ \ {w}] /\ at' = [at EXCEPT ![w] = "idle"]
    BY <1>4 DEF Report, HandlerFails, WorkerDies, Settle, Drop
  <2>2. \A v \in Workers : at'[v] = "idle" <=> \A k \in Jobs : v \notin runners'[k]
    <3>1. at'[w] = "idle" /\ \A k \in Jobs : w \notin runners'[k]
      BY <1>e, <2>1 DEF TypeOK, LeaseTypeOK
    <3>2. ASSUME NEW v \in Workers \ {w}
          PROVE  at'[v] = at[v] /\ \A k \in Jobs : v \in runners'[k] <=> v \in runners[k]
      BY <2>1 DEF TypeOK, LeaseTypeOK
    <3>3. \A v \in Workers : at[v] = "idle" <=> \A k \in Jobs : v \notin runners[k]
      BY DEF TypeOK
    <3>4. ASSUME NEW v \in Workers \ {w} PROVE at'[v] = "idle" <=> \A k \in Jobs : v \notin runners'[k]
      BY <3>2, <3>3
    <3>. QED
      BY <3>1, <3>4
  <2>3. \/ UNCHANGED failures
        \/ failures' = [failures EXCEPT ![j] = IF @ < MaxAttempts THEN @ + 1 ELSE @]
    <3>1. CASE Report(w, j)
      <4>1. failures' = [failures EXCEPT ![j] = IF Raises(w) /\ @ < MaxAttempts THEN @ + 1 ELSE @]
        BY <3>1 DEF Report
      <4>2. CASE Raises(w)
        BY <4>1, <4>2
      <4>3. CASE ~ Raises(w)
        <5>1. failures' = [failures EXCEPT ![j] = failures[j]]
          BY <4>1, <4>3
        <5>. QED
          BY <5>1 DEF TypeOK
      <4>. QED
        BY <4>2, <4>3
    <3>2. CASE HandlerFails(w, j)
      BY <3>2 DEF HandlerFails
    <3>3. CASE WorkerDies(w, j)
      BY <3>3 DEF WorkerDies
    <3>. QED
      BY <1>4, <3>1, <3>2, <3>3
  <2>4. failures' \in [Jobs -> 0..MaxAttempts]
    BY <2>3 DEF TypeOK
  <2>5. mishaps' \in 0..MaxMishaps /\ (mishaps' = 0 => Report(w, j) /\ mishaps = 0)
    BY <1>4 DEF Report, HandlerFails, WorkerDies, Mishap, TypeOK
  <2>6. TypeOK'
    BY <1>0, <2>0, <2>1, <2>2, <2>4, <2>5 DEF TypeOK, world, At
  <2>7. /\ \A k \in Jobs \ {j} : phase'[k] = phase[k]
        /\ phase'[j] = "done" => phase[j] = "done" \/ at[w] = "reportSuccess"
    <3>1. CASE Report(w, j)
      <4>1. /\ at[w] \in {"reportSuccess", "reportFailure"}
            /\ phase' = [phase EXCEPT ![j] = IF @ = "gone" THEN "gone" ELSE IF Raises(w) THEN Fails(j) ELSE "done"]
        BY <3>1 DEF Report, Settle
      <4>. QED
        BY <4>1 DEF Raises, Fails, TypeOK, LeaseTypeOK
    <3>2. CASE HandlerFails(w, j)
      BY <3>2 DEF HandlerFails, Settle, Fails, TypeOK, LeaseTypeOK
    <3>3. CASE WorkerDies(w, j)
      BY <3>3 DEF WorkerDies, Drop
    <3>. QED
      BY <1>4, <3>1, <3>2, <3>3
  <2>8. TasksComeFirst'
    <3>1. task[j] = "ended"
      BY <2>1 DEF TasksComeFirst
    <3>. QED
      BY <2>0, <2>1, <2>7, <3>1 DEF TasksComeFirst, TypeOK, LeaseTypeOK, world
  <2>9. WorkersKnow'
    <3>1. ASSUME NEW k \in Jobs, NEW v \in runners'[k]
          PROVE  v \in runners[k] /\ (at'[v] = at[v] \/ at'[v] = "idle")
      BY <1>e, <2>1 DEF TypeOK, LeaseTypeOK
    <3>. QED
      BY <2>0, <3>1 DEF WorkersKnow
  <2>10. DeliveredWasAccepted'
    <3>1. at[w] = "reportSuccess" => j \in accepted
      BY <2>1 DEF WorkersKnow
    <3>. QED
      BY <2>0, <2>7, <3>1 DEF DeliveredWasAccepted
  <2>11. PendingIsUnderway'
    <3>1. ASSUME mishaps' = 0 PROVE row[j] # "pending"
      BY <2>5, <3>1 DEF Report, WorkersKnow
    <3>. QED
      BY <2>0, <2>5, <2>7, <3>1 DEF PendingIsUnderway, world
  <2>. QED
    BY <2>6, <2>8, <2>9, <2>10, <2>11
<1>. QED
  BY <1>1, <1>2, <1>3, <1>4

LEMMA NextKeepsDeliveryInv == DeliveryInv /\ [Next]_vars => DeliveryInv'
<1>. SUFFICES ASSUME DeliveryInv, [Next]_vars PROVE DeliveryInv'
  OBVIOUS
<1>1. LeaseInv'
  BY StepsAreLeaseSteps, LeaseStepKeepsLeaseInv DEF DeliveryInv
<1>2. ASSUME NEW j \in Jobs, TaskStep(j) \/ TaskFails(j) \/ StaleReset(j) \/ RetryJob(j) \/ DeleteJob(j) PROVE DeliveryInv'
  BY <1>1, <1>2, TaskStepsKeepDeliveryInv
<1>3. ASSUME NEW w \in Workers, NEW j \in Jobs,
             \/ Take(w, j) \/ RecordOutcome(w, j) \/ Report(w, j)
             \/ \E reaches, accepts, answered \in BOOLEAN : Post(w, j, reaches, accepts, answered)
             \/ HandlerFails(w, j) \/ WorkerDies(w, j)
      PROVE  DeliveryInv'
  BY <1>1, <1>3, WorkerStepsKeepDeliveryInv
<1>4. CASE UNCHANGED vars
  BY <1>1, <1>4 DEF DeliveryInv, TypeOK, WorkersKnow, TasksComeFirst, DeliveredWasAccepted,
                    PendingIsUnderway, LeaseInv, vars, world, leaseVars
<1>5. CASE \/ \E o \in Ops : \/ Begin(o) \/ FireHook(o)
                            \/ \E outcome \in {"committed", "rolledback"} : EndTransaction(o, outcome)
           \/ ServerDies
           \/ \E h \in Webhooks : \/ \E value \in {"enabled", "disabled"} : SetEnabled(h, value)
                                  \/ DeleteWebhook(h)
  BY <1>1, <1>5, ServerStepsKeepDeliveryInv
<1>. QED
  BY <1>2, <1>3, <1>4, <1>5 DEF Next, WorkerStep

\* Every variable keeps its type, and a worker is idle when it has no job.
THEOREM TypeCorrect == Spec => []TypeOK
<1>1. DeliveryInv => TypeOK
  BY DEF DeliveryInv
<1>. QED
  BY <1>1, InitHasDeliveryInv, NextKeepsDeliveryInv, PTL DEF Spec

\* Whatever dies, overruns or is lost, a delivery that is shown as delivered, or whose job is
\* completed, was accepted by the receiver.
THEOREM DeliveredWasAcceptedHolds == Spec => []DeliveredWasAccepted
<1>1. DeliveryInv => DeliveredWasAccepted
  BY DEF DeliveryInv
<1>. QED
  BY <1>1, InitHasDeliveryInv, NextKeepsDeliveryInv, PTL DEF Spec

\* As long as no task or worker has failed, a pending delivery has a task or a job that carries
\* it out, whoever toggles or deletes webhooks and retries jobs meanwhile; only an administrator
\* who deletes its job leaves it pending.
THEOREM PendingIsUnderwayHolds == Spec => []PendingIsUnderway
<1>1. DeliveryInv => PendingIsUnderway
  BY DEF DeliveryInv
<1>. QED
  BY <1>1, InitHasDeliveryInv, NextKeepsDeliveryInv, PTL DEF Spec
=============================================================================
