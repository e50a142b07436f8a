----------------------------- MODULE Scheduler -----------------------------
(***************************************************************************)
(* The cron scheduler and the hooks table it shares with the hooks API.    *)
(*                                                                         *)
(* Every process of the server runs one SchedulerWorker.  A tick reads the *)
(* due hooks, and then in the same transaction enqueues one job per hook   *)
(* and moves its next_run_at; rows can change between the two.  So can the *)
(* row a request has read before it saves it, and saving writes only the   *)
(* columns the request has changed (that is how the ORM updates a row).    *)
(* A cron expression is the set of minutes it matches; how get_next_run    *)
(* searches for the next of them is left out, but not how far it looks.    *)
(***************************************************************************)
EXTENDS Integers, FiniteSets, FiniteSetsExt

CONSTANTS
  Schedulers,    \* the scheduler of each server process
  Hooks,         \* hook ids of one account
  Requests,      \* API requests in progress at a time
  Crons,         \* cron expressions that validate_cron accepts
  Matches,       \* Matches[c]: the minutes c matches
  Horizon,       \* how far ahead get_next_run looks: 4 * 365 days
  Event,         \* any trigger that is not a schedule
  Keep,          \* a field that an update request leaves out
  Limit,         \* max_hooks_per_account
  Operations,    \* the endpoints that are called
  MaxTime,       \* bound: minutes
  MaxBreakdowns,    \* bound: crashes and failed transactions
  MaxRequests    \* bound: calls of the endpoints

NoRun == 0   \* next_run_at or last_run_at is null; minutes count from 1
Time  == 1..MaxTime
Runs  == UNION {Matches[c] : c \in Crons}

ASSUME SchedulerAssumption ==
  /\ Matches \in [Crons -> SUBSET (Nat \ {0})]
  /\ Horizon \in Nat \ {0}
  /\ Event \notin Crons /\ Keep \notin Crons \cup BOOLEAN \cup {Event}
  /\ Operations \subseteq {"create", "toggle", "update", "delete", "trigger"}
  /\ Limit \in Nat /\ MaxTime \in Nat \ {0} /\ MaxBreakdowns \in Nat /\ MaxRequests \in Nat

VARIABLES
  now,         \* the clock
  hook,        \* hook[h]: the row of h
  sched,       \* sched[s]: where scheduler s is and what it has read
  req,         \* req[r]: what request r has read and is about to save
  fires,       \* fires[h]: jobs the schedulers have enqueued for h
  triggered,   \* triggered[h]: jobs the trigger endpoint has enqueued for h
  overtaken,   \* history: a PATCH that read h before its last run was saved after that run
  breakdowns, requests

schedulerVars == <<now, hook, sched, req, fires, triggered, overtaken, breakdowns, requests>>

Row == [exists : BOOLEAN, enabled : BOOLEAN, trigger : Crons \cup {Event},
        next : Runs \cup {NoRun}, last : Time \cup {NoRun}]

Absent == [exists |-> FALSE, enabled |-> FALSE, trigger |-> Event, next |-> NoRun,
           last |-> NoRun]

Down == [at |-> "down", seen |-> [h \in {} |-> Absent], time |-> 1]
IdleRequest == [at |-> "idle", op |-> "none", hook |-> CHOOSE h \in Hooks : TRUE,
                old |-> Absent, new |-> Absent]

SchedulerTypeOK ==
  /\ now \in Time
  /\ hook \in [Hooks -> Row]
  /\ \A s \in Schedulers :
       /\ sched[s].at \in {"down", "recalc", "up", "tick"}
       /\ sched[s].time \in 1..now
       /\ DOMAIN sched[s].seen \subseteq Hooks
       /\ \A h \in DOMAIN sched[s].seen : sched[s].seen[h] \in Row
       /\ sched[s].at \in {"down", "up"} => sched[s].seen = Down.seen
  /\ req \in [Requests -> [at : {"idle", "save"}, op : {"none"} \cup Operations,
                           hook : Hooks, old : Row, new : Row]]
  /\ fires \in [Hooks -> Nat]
  /\ triggered \in [Hooks -> 0..MaxRequests]
  /\ overtaken \in [Hooks -> BOOLEAN]
  /\ breakdowns \in 0..MaxBreakdowns
  /\ requests \in 0..MaxRequests

-----------------------------------------------------------------------------
\* get_next_run raises ValueError for an expression that does not match soon enough: never,
\* or not for four years, as "29 February" on a 29 February.
HasNext(c, t) == \E m \in Matches[c] : t < m /\ m <= t + Horizon

NextRun(c, t) == Min({m \in Matches[c] : m > t})

IsSchedule(row) == row.trigger \in Crons

\* A hook that was created enabled, or that does not exist yet.
SchedulerInit ==
  /\ now = 1
  /\ hook \in [Hooks -> {Absent} \cup
                 {[exists |-> TRUE, enabled |-> TRUE, trigger |-> c, next |-> NextRun(c, 1),
                   last |-> NoRun] : c \in {d \in Crons : HasNext(d, 1)}}]
  /\ Cardinality({h \in Hooks : hook[h].exists}) <= Limit
  /\ sched = [s \in Schedulers |-> Down]
  /\ req = [r \in Requests |-> IdleRequest]
  /\ fires = [h \in Hooks |-> 0] /\ triggered = [h \in Hooks |-> 0]
  /\ overtaken = [h \in Hooks |-> FALSE]
  /\ breakdowns = 0 /\ requests = 0

Advance ==
  /\ now < MaxTime
  /\ now' = now + 1
  /\ UNCHANGED <<hook, sched, req, fires, triggered, overtaken, breakdowns, requests>>

-----------------------------------------------------------------------------
(* The scheduler.                                                          *)

Seen(S) == [h \in S |-> hook[h]]

\* _loop begins: _recalculate_all_next_runs reads the enabled schedule hooks.
Start(s) ==
  /\ sched[s].at = "down"
  /\ sched' = [sched EXCEPT ![s] =
       [at |-> "recalc", time |-> now,
        seen |-> Seen({h \in Hooks : hook[h].exists /\ hook[h].enabled /\ IsSchedule(hook[h])})]]
  /\ UNCHANGED <<now, hook, req, fires, triggered, overtaken, breakdowns, requests>>

\* Hooks of s's reading whose cron has a next run and whose row still exists: the UPDATE
\* names no other condition than the id.
Updatable(s) == {h \in DOMAIN sched[s].seen :
                   hook[h].exists /\ HasNext(sched[s].seen[h].trigger, sched[s].time)}

Moved(s, h) == [hook[h] EXCEPT !.next = NextRun(sched[s].seen[h].trigger, sched[s].time)]

\* Faulty variant: last_run_at and next_run_at are computed from the due time.
FiredFromDue(s, h) ==
  [hook[h] EXCEPT !.last = sched[s].time,
                  !.next = NextRun(sched[s].seen[h].trigger, sched[s].seen[h].next)]

\* update_schedule_timestamps of a hook that fires.
Fired(s, h) == [Moved(s, h) EXCEPT !.last = sched[s].time]

\* ... and sets their next_run_at.
Recalculate(s) ==
  /\ sched[s].at = "recalc"
  /\ hook' = [h \in Hooks |-> IF h \in Updatable(s) THEN Moved(s, h) ELSE hook[h]]
  /\ sched' = [sched EXCEPT ![s].at = "up", ![s].seen = Seen({})]
  /\ UNCHANGED <<now, req, fires, triggered, overtaken, breakdowns, requests>>

\* Faulty variant: a hook is due only after its minute.
DueLate(h) == hook[h].exists /\ hook[h].enabled /\ IsSchedule(hook[h])
              /\ hook[h].next # NoRun /\ hook[h].next < now

Due(h) == hook[h].exists /\ hook[h].enabled /\ IsSchedule(hook[h])
          /\ hook[h].next # NoRun /\ hook[h].next <= now

\* _tick reads the due hooks.
TickRead(s) ==
  /\ sched[s].at = "up"
  /\ \E h \in Hooks : Due(h)
  /\ sched' = [sched EXCEPT ![s] =
                 [at |-> "tick", time |-> now, seen |-> Seen({h \in Hooks : Due(h)})]]
  /\ UNCHANGED <<now, hook, req, fires, triggered, overtaken, breakdowns, requests>>

\* _tick enqueues their jobs and moves their timestamps, in one transaction.  A hook whose
\* cron has no next run is skipped with a warning, and stays due.
TickWrite(s) ==
  /\ sched[s].at = "tick"
  /\ hook' = [h \in Hooks |-> IF h \in Updatable(s) THEN Fired(s, h) ELSE hook[h]]
  /\ fires' = [h \in Hooks |-> IF h \in DOMAIN sched[s].seen
                                  /\ HasNext(sched[s].seen[h].trigger, sched[s].time)
                               THEN fires[h] + 1 ELSE fires[h]]
  /\ overtaken' = [h \in Hooks |-> overtaken[h] /\ fires'[h] = fires[h]]
  /\ sched' = [sched EXCEPT ![s].at = "up", ![s].seen = Seen({})]
  /\ UNCHANGED <<now, req, triggered, breakdowns, requests>>

\* The transaction fails; _loop logs the error and goes on.
Fail(s) ==
  /\ sched[s].at \in {"recalc", "tick"}
  /\ breakdowns < MaxBreakdowns
  /\ breakdowns' = breakdowns + 1
  /\ sched' = [sched EXCEPT ![s].at = "up", ![s].seen = Seen({})]
  /\ UNCHANGED <<now, hook, req, fires, triggered, overtaken, requests>>

\* The process dies or is stopped: a transaction in progress is rolled back.
Crash(s) ==
  /\ sched[s].at # "down"
  /\ breakdowns < MaxBreakdowns
  /\ breakdowns' = breakdowns + 1
  /\ sched' = [sched EXCEPT ![s] = Down]
  /\ UNCHANGED <<now, hook, req, fires, triggered, overtaken, requests>>

-----------------------------------------------------------------------------
(* The hooks API: a request reads the row, computes the new one, saves it. *)

\* What saving writes to row cur: the columns the request has changed.
Saved(old, new, cur) == [f \in DOMAIN cur |-> IF new[f] # old[f] THEN new[f] ELSE cur[f]]

Receive(r, op) ==
  /\ op \in Operations
  /\ req[r].at = "idle"
  /\ requests < MaxRequests
  /\ requests' = requests + 1

Remember(r, op, h, new) ==
  /\ req' = [req EXCEPT ![r] =
               [at |-> "save", op |-> op, hook |-> h, old |-> hook[h], new |-> new]]
  /\ UNCHANGED <<now, hook, sched, fires, triggered, overtaken, breakdowns>>

\* next_run_at of a hook that is enabled with trigger t now.
Planned(t) == IF t \in Crons THEN NextRun(t, now) ELSE NoRun

\* create_hook counts the hooks of the account ...  An expression without a next run is
\* accepted for a hook that is created disabled.
CreateRead(r, h, t, en) ==
  /\ Receive(r, "create")
  /\ ~hook[h].exists /\ hook[h] = Absent
  /\ \A q \in Requests : req[q].at = "save" => req[q].hook # h
  /\ Cardinality({g \in Hooks : hook[g].exists}) < Limit
  /\ en /\ t \in Crons => HasNext(t, now)
  /\ Remember(r, "create", h,
       [exists |-> TRUE, enabled |-> en, trigger |-> t,
        next |-> IF en THEN Planned(t) ELSE NoRun, last |-> NoRun])

\* The row as toggle_hook leaves it.
Toggled(row) ==
  [row EXCEPT !.enabled = ~@,
              !.next = IF row.enabled THEN NoRun
                       ELSE IF IsSchedule(row) THEN NextRun(row.trigger, now) ELSE @]

\* toggle_hook.  Enabling a hook whose cron has no next run is an error.
ToggleRead(r, h) ==
  /\ Receive(r, "toggle")
  /\ hook[h].exists
  /\ ~hook[h].enabled /\ IsSchedule(hook[h]) => HasNext(hook[h].trigger, now)
  /\ Remember(r, "toggle", h, Toggled(hook[h]))

\* Faulty variant: the plan is made again only if the trigger changes.
UpdatedKeepingPlan(row, t, en) ==
  LET trigger == IF t = Keep THEN row.trigger ELSE t
      enabled == IF en = Keep THEN row.enabled ELSE en
  IN  [row EXCEPT !.trigger = trigger, !.enabled = enabled,
         !.next = IF trigger \notin Crons \/ ~enabled THEN NoRun
                  ELSE IF t # Keep THEN NextRun(trigger, now) ELSE @]

\* The row as update_hook leaves it when the request names trigger t and enabled en.
Updated(row, t, en) ==
  LET trigger == IF t = Keep THEN row.trigger ELSE t
      enabled == IF en = Keep THEN row.enabled ELSE en
  IN  [row EXCEPT !.trigger = trigger, !.enabled = enabled,
         !.next = IF trigger \notin Crons \/ ~enabled THEN NoRun
                  ELSE IF t # Keep \/ en # Keep THEN NextRun(trigger, now) ELSE @]

\* update_hook, of the fields that matter here.
UpdateRead(r, h, t, en) ==
  /\ Receive(r, "update")
  /\ hook[h].exists
  /\ LET enabled == IF en = Keep THEN hook[h].enabled ELSE en
         trigger == IF t = Keep THEN hook[h].trigger ELSE t
     IN  trigger \in Crons /\ enabled /\ (t # Keep \/ en # Keep) => HasNext(trigger, now)
  /\ Remember(r, "update", h, Updated(hook[h], t, en))

\* The request flushes and commits.  Saving a row that is gone is an error.
Save(r) ==
  /\ req[r].at = "save"
  /\ LET h == req[r].hook IN
       hook' = IF req[r].op = "create" THEN [hook EXCEPT ![h] = req[r].new]
               ELSE IF ~hook[h].exists THEN hook
               ELSE [hook EXCEPT ![h] = Saved(req[r].old, req[r].new, @)]
  /\ overtaken' = [overtaken EXCEPT ![req[r].hook] =
                   @ \/ (req[r].op = "update" /\ req[r].old.last # hook[req[r].hook].last)]
  /\ req' = [req EXCEPT ![r] = IdleRequest]
  /\ UNCHANGED <<now, sched, fires, triggered, breakdowns, requests>>

\* delete_hook reads the row again before it deletes it.
Delete(r, h) ==
  /\ Receive(r, "delete")
  /\ hook[h].exists
  /\ hook' = [hook EXCEPT ![h].exists = FALSE]
  /\ UNCHANGED <<now, sched, req, fires, triggered, overtaken, breakdowns>>

\* trigger_hook of a schedule hook enqueues a job, enabled or not, and leaves the row alone.
TriggerHook(r, h) ==
  /\ Receive(r, "trigger")
  /\ hook[h].exists /\ IsSchedule(hook[h])
  /\ triggered' = [triggered EXCEPT ![h] = @ + 1]
  /\ UNCHANGED <<now, hook, sched, req, fires, overtaken, breakdowns>>

-----------------------------------------------------------------------------
Tick(s)    == Start(s) \/ Recalculate(s) \/ TickRead(s) \/ TickWrite(s)

Request(r) ==
  \/ Save(r)
  \/ \E h \in Hooks : \/ ToggleRead(r, h) \/ Delete(r, h) \/ TriggerHook(r, h)
                      \/ \E t \in Crons \cup {Event}, en \in BOOLEAN : CreateRead(r, h, t, en)
                      \/ \E t \in Crons \cup {Event, Keep}, en \in BOOLEAN \cup {Keep} :
                            UpdateRead(r, h, t, en)

SchedulerNext ==
  \/ Advance
  \/ \E s \in Schedulers : Tick(s) \/ Fail(s) \/ Crash(s)
  \/ \E r \in Requests : Request(r)

SchedulerSpec == SchedulerInit /\ [][SchedulerNext]_schedulerVars

\* A process that died is started again, and a scheduler that is up goes on polling.
SchedulerFairSpec ==
  SchedulerSpec /\ \A s \in Schedulers :
    /\ WF_schedulerVars(Start(s)) /\ WF_schedulerVars(Recalculate(s))
    /\ SF_schedulerVars(TickRead(s)) /\ WF_schedulerVars(TickWrite(s))

-----------------------------------------------------------------------------
\* A minute of the schedule lies between two runs of a hook, however late the ticks are and
\* whenever the process dies: a tick enqueues at most one job for the minutes that have
\* passed, and none that was enqueued before.  Only a PATCH that planned the hook before its
\* last run and was saved after it (overtaken) can make it run twice in a minute.
NoDoubleFire ==
  [][\A h \in Hooks : fires'[h] # fires[h] /\ hook[h].exists =>
        \/ overtaken[h]
        \/ \E m \in Runs : hook[h].last < m /\ m <= hook'[h].last]_schedulerVars

\* An enabled schedule hook has a next run, so the scheduler will find it: the due query
\* skips a hook without one for ever.
EnabledHasNextRun ==
  \A h \in Hooks : hook[h].exists /\ hook[h].enabled /\ IsSchedule(hook[h]) => hook[h].next # NoRun

\* A due hook does not stay due: it runs, or is disabled, deleted or planned anew, unless its
\* cron has no next run within the horizon.  One that has had none is served as soon as there
\* is one again.
DueIsServed ==
  \A h \in Hooks : LET Ripe == /\ hook[h].exists /\ hook[h].enabled
                              /\ hook[h].trigger \in Crons /\ hook[h].next \in 1..now
                   IN  Ripe ~> ~Ripe \/ ~HasNext(hook[h].trigger, now)

\* A tick enqueues a job for every due hook, as _tick's docstring says, or disables it, as its
\* warning says.
TickServesAllDue ==
  [][\A s \in Schedulers : sched[s].at = "tick" /\ sched'[s].at = "up" /\ breakdowns' = breakdowns =>
       \A h \in DOMAIN sched[s].seen :
          fires'[h] = fires[h] + 1 \/ ~hook'[h].enabled]_schedulerVars
=============================================================================
