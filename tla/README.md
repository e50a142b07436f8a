# A verification project for SnackBase

SnackBase is a multi-tenant backend in Python (FastAPI, SQLAlchemy async, SQLite or
PostgreSQL): accounts with users, collections whose tables are created at run time, a
records API with rules, an audit log, realtime events, outbound webhooks, scheduled
hooks, a background job queue and a workflow engine.  This directory holds TLA+ modules
that model its stateful core, the TLC configurations that check them, and theorems that
TLAPS proves.  Paths below are relative to `src/snackbase/` of the repository unless they
start with `docs/`, `tests/` or `alembic/`.

To check a run: `tlc -config JobQueue.cfg MCJobQueue.tla`; `PROJECT.json` lists every run with
its module and configuration.  To check proofs: `tlapm BackgroundProofs.tla`, and so on
for each module whose name ends in `Proofs`.

## 1. The system and its hard behaviours

One server process is one asyncio event loop: code between two awaits is atomic, every
`await` lets other requests, tasks and workers run.  A server may run several processes
(`serve --workers N`), each with its own worker, scheduler, cache, hook registry and
realtime manager; they share only the database and the migration directory.  Transactions
are READ COMMITTED with row locks on PostgreSQL.  On SQLite the driver opens a transaction
at the first changing statement, so a read before it sees whatever is committed, and there
is one writer at a time.

| Component | State it keeps | Operations | Talks to | What is hard |
|---|---|---|---|---|
| Job queue (`infrastructure/services/job_service.py`, `persistence/repositories/job_repository.py`) | `jobs` table; per worker the job in hand | enqueue, claim, complete/retry/dead, stale reset, retention, retry and cancel endpoints | handlers of webhooks, workflows, scheduled hooks | claim races, crash between claim and outcome, outcome after a timeout, retry counters |
| Workflow engine (`infrastructure/workflows/`) | workflow, instance row, step log | trigger, run, wait, resume, cancel, edit, toggle, delete | queue (resume jobs), background tasks | several executors of one row, pause/wake-up order, edits under a waiting instance |
| Scheduler (`infrastructure/services/scheduler_service.py`, `routes/hooks_router.py`) | `next_run_at`, `last_run_at` of hooks | tick, recalculation at start, create/toggle/update/delete/trigger | queue, cron parser | two ticks on one hook, plans computed from stale crons, crons that never match |
| Webhooks (`infrastructure/webhooks/`, `infrastructure/hooks/webhook_hook.py`) | webhook, delivery row | fire on record event, send, record outcome, retry, toggle, delete | records API, queue, receivers | delivery before commit, row and job in two transactions, lost answers |
| Collections (`domain/services/collection_service.py`, `persistence/migration_service.py`) | `collections` row, the physical table, migration files, `alembic_version` | create, update, delete, import, `migrate upgrade` | Alembic in a thread, records API | four pieces of state written by four means, failing migrations, crashes |
| Records API (`routes/records_router.py`, `persistence/repositories/record_repository.py`) | dynamic tables | create, update, patch, delete, batches, list, aggregate | rules, validators, hooks | old values read before the row lock, hooks inside the transaction |
| Audit log (`domain/services/audit_log_service.py`, `persistence/repositories/*audit_log_repository.py`) | `audit_log`, a chain of checksums | capture create/update/delete, verify, list | records API, ORM listeners | the latest checksum is read by several transactions |
| Realtime (`infrastructure/realtime/`) | connections, subscriptions, one task per broadcast | connect, subscribe, unsubscribe, disconnect, broadcast | records API, websocket and SSE clients | dictionaries that change during a loop with awaits |
| Configuration (`core/configuration/config_registry.py`, `routes/admin_router.py`) | `configurations` rows, per-process cache | create, status, values, default, delete, resolve | OAuth, SAML, email, storage | cache filled and cleared around commits |
| Sessions (`routes/auth_router.py`, `infrastructure/auth/`, `domain/services/password_reset_service.py`, `email_verification_service.py`) | refresh tokens, reset tokens, verification tokens | login, exchange of a refresh token, forgotten password, verification of an address, changes by an administrator | email, users | one token used by overlapping requests; sessions that end while others begin; mails that are refused |
| Sign-in providers (`routes/oauth_router.py`, `saml_router.py`) | OAuth state rows | authorize, callback, SSO, ACS | configuration, sessions, identity providers | a state row consumed around external calls |
| Tenancy (`routes/users_router.py`, `accounts_router.py`, `roles_router.py`, `groups_router.py`, `invitations_router.py`, `api_keys_router.py`) | accounts, users, roles, groups and their members, invitations, keys, blacklist | register, CRUD, invite, accept, revoke | sessions, email | uniqueness tests that race with constraints, double acceptance |
| Hooks (`core/hooks/`, `infrastructure/hooks/`) | registry of callbacks, API-defined hooks, their executions | register, unregister, trigger; actions of a hook | records API and everything it triggers | a chain of callbacks that fail, abort, replace data or come and go; tasks beside the request |
| Rules (`core/rules/`, `core/macros/`, `infrastructure/api/middleware/`) | macros | lex, parse, compile to SQL, expand macros, aggregate conditions | records API | three-valued logic, precedences of two languages, texts joined in one clause |
| Cron and cursors (`core/cron/`, `core/cursor.py`) | none | parse, next run; encode, decode | scheduler, lists | days that do not exist, limits of the search |
| Validation (`domain/services/*_validator.py`, `persistence/table_builder.py`) | none | check schemas and values, build tables | collections, records | what passes validation and fails in the table |
| Custom endpoints (`routes/endpoints_router.py`, `routes/custom_endpoint_dispatcher.py`, `infrastructure/endpoints/`) | endpoints, their executions | create, update, toggle, delete; dispatch, run actions with a timeout | queue, email, other systems | actions that fail half-way, timeouts, overlapping requests for one route |
| Files, email, dashboard, middleware, CLI, start-up, admin interface | files; email log; rate counters | - | - | little or no shared state |

What makes each component correct, in a sentence:

* queue: at most one worker has a right to a job, its outcome overwrites nothing newer, the
  retry budget is kept, and every job ends;
* workflows: a waiting instance will be woken, work repeats only for a reason, cancel means
  cancelled, and the instance comes to rest;
* scheduler: an enabled schedule has a next run, no minute fires twice, a due hook is served;
* webhooks: what is shown as delivered was accepted, what is shown as pending is under way,
  every delivery ends;
* collections: what is listed exists with its columns, what is not listed leaves nothing;
* records, audit and realtime: change, audit entries and event stand or fall together, and
  the chain of audit entries verifies;
* configuration: a cached answer is no older than its lifetime, and there is one default;
* sessions: a token or a link is good for one use, and for none after the sessions ended;
* tenancy: an account has its administrator, a person has one user, an accepted invitation
  has led to one, as long as no superadmin sets it otherwise;
* rules and lists: a caller sees the records the rule and the filter mean, and a walk over
  pages sees each of them once;
* hooks and endpoints: no callback costs the audit entry by accident, an enabled hook is run,
  its log tells what happened, and an account stays within its limit of endpoints.

## 2. The modules and the code

`JobLease` is the abstract protocol of a job queue: a job is offered, leased to a runner,
settled by it, dropped when the runner dies, or expires; a dead job may be offered again, and
any job deleted.  `JobQueue` implements it, and `Workflow` and `WebhookDelivery` use it in
place of the whole queue: each step of a job is one the queue is shown to take, a retry by hand
and a deletion by an administrator included.  `RecordWrites` composes `AuditChain` and
`Realtime`; `Listing` is built on the language of `Rules` and runs beside `Paging`; `Hooks` and `Endpoints` share
`Actions`, and `Endpoints` runs beside `Hooks`.

| Module | Models | Actions and the code |
|---|---|---|
| `JobLease` | the contract of the queue | Offer, Lease, Settle, Drop, Expire, Revive, Remove |
| `JobQueue` | jobs table and workers | `Enqueue` = `JobService.enqueue`; `PickLocked` = the claim with FOR UPDATE SKIP LOCKED; `Select`, `ClaimSelected`, `ClaimMissed` = SQLite's SELECT and conditional UPDATE; `HandlerEnds`, `HandlerTimesOut` = `wait_for(handler)`; the outcome writes = `_process_one_job`, `_fail_job`; stale reset and retention = `_loop`; retry and cancel = `jobs_router` |
| `Workflow` | one instance row, its executors and endpoints | `ResumeRead/ResumeWrite` = `resume_instance`; `LoadRead/LoadWrite` = the head of `run_instance`; `Execute*`, `Persist`, `Finish` = its loop; `Trigger`, `ManualResume`, `Cancel*`, `UpdateWorkflow`, `ToggleWorkflow`, `DeleteWorkflow` and, for the resume jobs, `DeleteJob`, `RetryJob` = endpoints |
| `Scheduler` | hooks and scheduler processes | start and recalculation, one tick = `_tick` with a step per await, and the five endpoints of `hooks_router` |
| `WebhookDelivery` | one operation and its deliveries | the transaction, the background task (`webhook_hook`, `_process_webhook`), `handle_webhook_delivery` split at the HTTP call, the endpoints |
| `Collections` | rows, tables, migration files, `alembic_version` | requests as program counters through `CollectionService` and `MigrationService`: validate, write file, upgrade, flush, commit; crash; `migrate upgrade` |
| `AuditChain` | committed and uncommitted audit entries and their checksums | compute and insert the entries of one write; used by `RecordWrites` |
| `Realtime` | connections, subscriptions, broadcast tasks | `connect`, `subscribe`, `disconnect`, one `broadcast_to_account` split at every send |
| `RecordWrites` | requests for one record or a batch | read; for one record after the other the locked change and the audit hook, which may pass it over; a deadlock of two batches; commit or rollback; publish |
| `ConfigRegistry` | `configurations` rows, cache, requests, resolutions | `Miss`, `ReadOwn`, `ReadSystem`, `Store` = `get_effective_config` split at its awaits; `Begin`, `ClearDefault`, `Write`, `Commit`, `Invalidate` = the admin endpoints |
| `Sessions` | users, refresh tokens, mailed links | one request = a step that reads and checks and a step that writes and commits, for login, exchange, reset, verification, and what an administrator changes (`auth_router`, `users_router`, `password_reset_service`, `email_verification_service`); a refused mail |
| `Membership` | accounts, users, invitations, OAuth states, groups, members, roles, keys, blacklist | the requests of `auth_router` (register), `users_router`, `accounts_router`, `invitations_router`, `oauth_router`, `saml_router`, `groups_router`, `roles_router`, `api_keys_router`; a superadmin chooses role and identity of a user he makes, and changes address, role or identity of any; unique constraints and foreign keys are conjuncts of the writing step |
| `Rules` | texts of rules and filters | lexer, parsers and compilers of `core/rules`, the precedences and the three-valued logic of the database |
| `Listing` | one collection read under rules | `List`, view, create and batch create, aggregate; macros |
| `Paging` | a client's walk over the pages of a list | `NextPage` = `find_all_cursor`, `NextOffset` = `find_all`, between them `Insert`, `Edit`, `RemoveRow`; account, rule and filter are one parameter, `Admits`, and null sorts where the parameter `NoValue` puts it |
| `Actions` | action lists | one action of `action_executor` or `endpoint_executor`, each with its own table of types, and its possible ends |
| `Hooks` | the registry, API-defined hooks and their tasks | register, unregister, trigger one callback after the other, for a user or an anonymous request, with the audit log on or off; `_dispatch_api_hooks` and its two ways of listing nothing, `_run_hook`; the trigger endpoint; a stop of the server |
| `Endpoints` | custom endpoints | create, update, toggle, delete, each split between checks and write; dispatch, execution with timeout, log |
| `BackgroundProofs` (queue and scheduler), `WorkflowProofs`, `AutomationProofs` (hooks, endpoints and webhooks), `CollectionsProofs`, `RecordsProofs` (writes and pages), `ConfigRegistryProofs`, `SessionsProofs`, `MembershipProofs` | theorems, see section 4 | - |
| `MC*` | small instances | - |

What is abstracted: identifiers, payloads, headers and rendered values are members of small
sets; times are the distinctions the code makes (due or not, timed out or not, ticks of the
cache); a checksum is a number; a text of the rule language is a sequence of tokens; logging
is left out.  A definition that serves only as the mutated form of another one is marked
"Faulty variant" and used by no specification.  Variables marked "history" are written and
never read by an action.

## 3. The runs

| Run | Question | Bounds | Result |
|---|---|---|---|
| `job_queue` | one job on PostgreSQL with crashes, shutdowns and failed writes; two jobs of different priority on SQLite, one worker serving one queue only: exclusiveness, budget, finality, refinement of `JobLease`, every job ends | 3 jobs in two scenes, 2 workers, up to 2 retries, 1 mishap, 1 manual retry | holds |
| `workflow_one` | action, delay, condition: wake-ups, repeats, cancel, coming to rest | 2 tasks, 1 worker, 3 resume jobs of 2 attempts, delays of any length, 2 mishaps, 1 manual resume, 1 edit, retry or deletion of a job, 3 of these together | holds |
| `scheduler_one` | one scheduler against the life cycle of a hook | 1 hook, crons that match each minute, some, never, or next time beyond the search (of 2 minutes), 4 minutes, 2 failures or deaths, 3 requests one at a time | holds |
| `scheduler_leap` | a tick enqueues all due hooks | 1 hook whose second run lies beyond the search, no failures | violated |
| `webhook_one` | one delivery from the operation to its end | 2 workers, 2 attempts, 3 mishaps, 2 administrative actions | holds |
| `collections_pair` | two overlapping requests: rows, tables and files agree, PostgreSQL | 2 requests; 2 collections, 3 files, failing migrations, 1 crash; 1 collection made and deleted over again, 4 files | holds |
| `record_writes` | two overlapping requests, audit and realtime, both databases | 2 records, batches of 2, 4 writes, 1 of them passed over by the audit hook, 2 clients, 4 moves of clients | holds |
| `config_registry` | two overlapping administrative requests and a resolution | 1 tenant, 2 providers, lifetime of 2 ticks, 2 requests | holds |
| `sessions` | overlapping requests of one user: chains of tokens, ends of sessions, links | 2 addresses, 2 requests at a time and 4 in all, 3 tokens, 2 links | holds |
| `membership` | overlapping requests about who belongs to what | 2 people, 2 names, 2 requests at a time and 4 in all, 5 rows made in a table, 1 key per user; a superadmin changes one column of a user at a time: the address beside invitations, the identity beside sign-ins, role or address beside registrations, the role beside roles; six scenes | holds |
| `listing` | what rules, filters, macros and aggregates compile to against what they mean; walks over pages | 4 records in two accounts, 4 kinds of callers, rules and filters of up to three conditions, walks over 3 records with 2 writes, pages of 1 and 2; four scenes | holds |
| `automation` | callbacks of the registry, API-defined hooks after an event and by hand, endpoints | 1 write, 1 manual trigger, 1 call, 2 hooks, 3 application callbacks, 2 endpoints of which the limit allows 1, 2 editing requests, 3 registrations, 1 stop of the server; four scenes | holds |

Why the bounds are enough.  The hazards are races of two actors and single failures at the
worst moment; each run has two of every kind of actor that can race, and enough failures to
exhaust a retry budget or to follow a failure by another during its recovery.  Bounds count
only what nothing in the code bounds (failures, requests, client moves); retries, attempts
and steps are bounded by the code itself.  Time never has a bound in `ConfigRegistry`: ages
are counted up to the lifetime of an entry.  `collections_pair` needs a fourth file for two
creations and two deletions of one name, the shortest history in which a deletion meets a
collection that is not the one it was asked for; only these histories get it
(`ThreeFilesOrOneName`), since four files of any kind are beyond TLC.  A run with scenes begins in one of them: the
scenes share tables and code but no hazard, and TLC explores each one wholly.

Properties that hold under a condition state the condition, and without it TLC shows a race
or a case that the code really has (section 6):

* `ChainVerifies`: on SQLite, or as long as no two requests have overlapped;
* `OldIsPrevious`, and `LastEntryIsCurrent` for the title: as long as no two requests for the
  record have overlapped (for `updated_at` the latter holds whatever overlaps), and neither
  past a write that the audit hook passed over; `HeardIsAudited` names those writes, too;
* `DefaultsAreSound`: one default at most on SQLite, or as long as no two requests on the scope
  have overlapped; an enabled one only under the latter, on both databases;
* `FinishedIsFinal`: a worker whose lease a stale reset has broken may still report; whatever
  else is retried, cancelled or cleaned up;
* `NoLostWakeup`: not for a resume job that was taken before the pause was saved, nor for one
  that an administrator has deleted; `PendingIsUnderway`: no task or worker has failed, and
  nobody has deleted the job;
* `EnabledHasNextRun`: requests do not overlap each other (they overlap the scheduler);
  `NoDoubleFire`: one scheduler, and no PATCH planned before the last run and saved after it;
  `DueIsServed`: the cron has a next run within the search;
* `ListedHasTable`: until a deletion of the collection's name is written into the chain after
  it, and as long as no upgrade has read a file before its body; `NothingLeftOver`: no request
  has failed;
* `SteadyHears`: the receiver did not change its subscriptions during the sending;
* `AuditedUnlessStopped` lists what costs a write its entry: a callback that aborts, stops the
  chain or replaces the data, an anonymous request, the log switched off, a failing service;
  `SteadyHookRuns`: the request had a user, the query of the hooks succeeded, and nobody has
  changed the hook; `LimitIsKept`: not counting endpoints that were saved after another one had
  come since their limit was checked;
* `TokensFormChains`, `LiveTokensAreRecent`, `LinksWorkOnce`, `OneUserPerPerson`: not for the
  tokens, links and users that overlapping requests made or used (the rest is checked beside
  them, whatever overlaps); a mail whose request stopped before its log was committed
  (`email_service.py:380-403`) counts as never sent, since nothing of it is in the database;
* `AcceptedHasUser`: not once a superadmin has changed the address of the user an invitation
  led to, which lets an overlapping second acceptance make a second one; `OneUserPerPerson`:
  also not for users whose identity a superadmin has set; `AccountHasAdmin`: not once a
  superadmin has given a user of the account another role, and in the scene of registrations
  nobody edits the groups of the account;
* `AnswersObeyRules`: texts in which no comparison is the operand of another one;
  `SteadyRowsOnce`: no page ends with a record without a sort value;
* `RepeatsArePaidFor`: definitions whose own flow leads to no step twice, as those of the run;
  its bound counts copies of the instance and versions of the workflow, because every copy may
  execute the steps of every version once.

Fairness.  Weak fairness is assumed of what the event loop and the polling loops keep doing
(`while self._running`, `asyncio.sleep`): workers poll, an executor or a handler continues
after an await, time passes.  The stale reset of a worker and the tick of a scheduler have
strong fairness, because a loop comes back to them whatever happens in between.  Nothing is
assumed of failures, endpoints, receivers or clients, and an actor that died takes no step.
`ComesToRest` leaves out an instance whose background task was lost with its process, whose
resume job has used up its attempts or was deleted, or whose wake-up came before it was saved
as waiting: nobody takes over from those until an operator does.
`CHECK_DEADLOCK FALSE` is set throughout because these systems come to rest when the bounded
requests are done.

Every property of a passing run has been seen to fail under a plausible bug in the code it
is about: the faulty variants dropped a guard, a reset or a condition of an UPDATE, swapped
an order, or used a stale value.

## 4. What is proved

TLC checks one small instance of each module; the theorems below hold for every value of
the constants, that is for any number of jobs, workers, requests, tokens and so on.  Each
rests only on the named assumption of its module, which gives the kinds of the constants;
further conditions are part of the theorem.

**`BackgroundProofs`**, part one: the job queue, for either database and any priorities, queues served and retries.

| Theorem | States |
|---|---|
| `TypeCorrect` | types; a worker holds a job exactly while it is busy |
| `ExclusiveClaimHolds` | at most one worker executes a job whose lease no stale reset has broken |
| `HolderOwnsRowHolds` | the outcome writes, which test only the id, find the row running or gone |
| `FinishedIsFinalHolds` | completed and dead jobs stay so, but for retention, cancellation, manual retry, and the late report of a worker whose lease a stale reset has broken |
| `RunBudgetHolds`, `DeadOnlyWhenExhaustedHolds` | on PostgreSQL, `max_retries` and the mishaps bound the executions, and a job is dead only when its attempts are used up |
| `QueueImplementsLease` | every behaviour of the queue is one of `JobLease` |

`TypeOK` is inductive.  `ExclusiveClaim` and `HolderOwnsRow` are not, and need each other: a
claim is safe because the row says that nobody holds the job, and the row says so because
its holder is the only one that writes it.  `ClaimInv` is their conjunction with what a
SQLite worker remembers between its SELECT and its UPDATE.  `RunBudget` counts executions
over a whole life of a job; `BudgetInv` says, for each phase of the job, how many of them
the attempt counter and the mishaps have already paid for.  The refinement maps a status to
a phase and the holders to runners; each action maps to a step of `JobLease` or a stutter,
by `ClaimInv`.

**`WorkflowProofs`**, for any definitions, executors, jobs and numbers of failures.

| Theorem | States | Condition |
|---|---|---|
| `ResumeJobsAreLeased` | executors treat their resume jobs as `JobLease` allows | - |
| `QuietCancelIsFinalHolds` | an instance cancelled at rest stays cancelled or is deleted | - |
| `NoLostWakeupHolds` | an instance that waits has a resume job that will wake it, unless the job was deleted, or taken before the pause was saved | - |
| `RepeatsArePaidForHolds` | `version * (1 + mishaps + manual resumes)` bounds the executions of a step | `FlowsAreStraight` |

`WInv` says that after a quiet cancellation nobody is past reading the row.  `WakeInv` follows
a resume job from its own transaction to the status that relies on it: who is about to save
"waiting" has a job that nobody has taken, or one that the history variable `early` names, and
whoever takes the former later has yet to write "running".

`RepeatsArePaidFor` needs names for what is counted.  A copy of the instance is an executor
that may still execute a step, or a resume job that nobody handles, dead ones included; `CopyInv` says that the
copies can be numbered from 1 to `1 + mishaps + manualResumes` so that no two have the same
number, and that a copy has executed, by the version it reads, no step that lies ahead of it.
A pause hands the number from the executor to its job, a wake-up hands it back, and a copy that
is lost to a crash, an error or an overrun starts anew under a new number.  `FlowInv` says that
what an executor has at hand is a point of its version's flow.  `FlowsAreStraight` is the
condition that a definition by itself leads to no step twice and that a delay it reaches names
what comes next; both definitions of the run satisfy it.  The code demands neither: a
definition that jumps back repeats steps because its author says so, and section 6 has the
delay without `next`, which repeats by itself.

**`BackgroundProofs`**, part two: the scheduler, for any crons and hooks.  `EnabledHasNextRunHolds` has the condition
`OneAtATime` (requests do not overlap each other) and any number of schedulers;
`NoDoubleFireHolds` has it and `OneScheduler`.  `PInv` says of a request that waits to save
that meanwhile only a scheduler touches the row it has read, and only makes a plan.
`RunsAreApart` relates plans to runs: a planned run is later than the last one unless a PATCH
has overtaken it, what a tick has read is due and later than the last run, and the plan an
enabling request makes is later than any tick under way.  Both conditions are needed: section
6 has the race of two schedulers and the one of two requests.

**`AutomationProofs`**, part one: hooks and endpoints, for any callbacks of the application, hooks,
action lists, endpoints and requests, and any number of stops of the server.

| Theorem | States |
|---|---|
| `ServerTypesHold` | types |
| `SpecAuditedUnlessStopped` | a committed write has its audit entry, unless a callback aborted, replaced the data or stopped the chain, the request was anonymous, the log was switched off or the audit service failed |
| `SpecSteadyHookRuns` | a hook that matched when the event of an authenticated request fired and was left alone has been run when the task, which has read its list, is over |
| `SpecLogsAreTrue` | an execution row is true of the effects of its run, also after a timeout or a stop |
| `SpecLimitIsKept` | an account has more endpoints than it may only by those saved after another one had come since their check |

`ServerInv` is their conjunction with three parts.  `ChainInv`: the registry always has the audit
hook, which cannot be unregistered; and of a write whose chain is under way, either the entry
is written, or what prevents it has happened, or the audit hook is still in the chain and the
data still has the record.  `TaskInv`: a hook that was due when its event fired is listed, waits
in the list of the task, or is at work, unless somebody has changed it since; there is no task before the
dispatcher was called.  `LogInv`: an execution row speaks of effects that later steps must
not add to, so `Past` says which runs are behind each actor and that nobody begins one of them
anew; `RunIsSound` says of a run in the middle of its list which of its actions may have acted,
by the result it has noted for each, and by the table of types of its own executor.
`LimitInv` says of every creation under way that it has found room beside the endpoints it
remembers; an insert is within the limit when no others have come since.  That no two
endpoints have one route rests on the constraint of the table alone, which the insert and the
save meet; there is nothing to prove about it.

Part two begins with the abstract queue, whose jobs deliveries use:
`LeaseIsExclusive` (a job whose lease was not broken by an expiry has one runner at most, and
only while it is leased or deleted) by `LeaseInv`, which adds that a worker runs one job at a
time.  Then `DeliveriesAreLeased` (a delivery treats its job as `JobLease` allows),
`TypeCorrect`, `DeliveredWasAcceptedHolds`, and `PendingIsUnderwayHolds`.  `DeliveryInv` adds what a worker at each point of its handler
knows, and that the task of a delivery has ended before its job begins.

**`CollectionsProofs`**, for either database, any schemas, imports and numbers of requests,
files and crashes:

| Theorem | States |
|---|---|
| `SpecTypeOK` | types |
| `SpecRevisionIsApplied` | the `migration_revision` of a row is an applied file that made or extended this collection |
| `SpecListedHasTable` | a listed collection has its table and a column for every field that is stored |
| `SpecNothingLeftOver` | when nothing has failed and everybody is done, no file is pending and tables and rows agree |

No transaction spans file, table and row, so the invariants follow each request from one to
the other.  `RInv` says what a request has in hand at each point: its file is at its place in
the chain, what it is about to insert stands for a file that is applied, and its plan was a
prefix of the chain when it was read.  `CInv` describes tables by the chain alone, as long as
no file was applied torn: a table has the columns that the applied files since the last drop
have added, and what a row lists, or will list, was added since that collection's creation.
A failed upgrade keeps it because it stops before a file or is taken back; a step of a plan
somebody else was faster with is refused.  `ListedHasTable` follows, since a row without a
later drop still has everything its files have added.

`NothingLeftOver` needs counting, because what made a row and what removes it may be two
requests.  `HInv`: a file belongs to at most one request, and each request has it once.
`GInv`, as long as nothing has failed: in the applied files of one name creations and
deletions alternate; and of the files that no request has any more, there are as many
creations as deletions when the name has no row, and one more when it has one.  At rest no
request has a file, so a row is missing exactly when the last file of its name is a drop.

**`RecordsProofs`**, part one: `LinksAreKeptHolds` (every committed audit entry is linked to a
committed entry with a lower id, however requests overlap, fail or are taken back) and
`ChainVerifiesHolds` (the committed chain verifies on SQLite, and on PostgreSQL while no two
requests have overlapped).  `RInv` needs the entries that are not committed yet: each
session's own entries, and those computed and not inserted, already continue what the session
sees (`LinksAreSound`, `ChainIsSound`); this stays true because at most one session writes
whenever a chain is promised (`SessionsAreApart`).

Four more theorems of it, with `RInv` as their base:

* `LastEntryIsCurrentHolds`: the last entry about the `updated_at` of a record is of its last
  write, whatever overlaps, and the last one about its title shows the present title while no
  two requests for the record have overlapped.  `OldIsPreviousHolds`: under that condition the
  old values of an entry are those the entry before it has left.  Both speak of a record unless
  the audit hook has passed over a later write, or one in between: the history `unaudited` has
  the committed writes without entries, and a write is in it exactly when the hook returned
  early or failed.  `EntryInv` adds that what a session has read, changed and not yet audited
  agrees with the last entry it sees, that the writes passed over before are older than those
  of a transaction under way (`PassedAreOlder`), and that they have no entry (`PassedHaveNone`).
* `HeardIsAuditedHolds`: what a client hears of is committed, and in the audit log with all
  the columns the write was taken to change, or one of the writes that have no entry at all.
  `HeardInv` adds that every broadcast under way, and what a committed request has still to
  publish, has its entry or is one of those.
* `SteadyHearsHolds`: a client subscribed from the publication of an event to the end of its
  broadcast has heard it exactly once.  `SendInv` says of a broadcast under way that every
  steady client is on the list of those it has still to reach, or has heard once and is not on
  it; that there is one broadcast of an event; and that nobody has heard what nobody published.

Part two: `PagesTypesHold` and `SteadyRowsOnceHolds`, for any records, rule, filter, page size,
direction and number of writes, and wherever the database sorts nulls (first on SQLite, last on
PostgreSQL).  A walk with cursors that is over has shown every record that nobody has touched,
and that has a value, exactly once and in order.  `WalkInv` says of a walk under way that of
these records it has shown exactly those which the cursor's condition excludes
(`CursorIsRight`): the condition must be the complement of what was shown, ties included.  Its
hypothesis `~nullCut` says that no page but the last ended with a null; section 6 says what
happens then.  In the run `listing`, which checks both modules, the table and the walk change
only by steps of `PagesNext`.

**`ConfigRegistryProofs`**, for any lifetime of an entry and any number of concurrent
requests and resolutions: `TypeCorrect`; `AnswersAreRecentHolds` (a live entry answers what
was put together from rows held within the last `CACHE_TTL`); `OwnChangeIsSeenHolds` (after
its invalidation, with no resolution of the key under way, a change is seen);
`DefaultsAreSoundHolds` (one default of a scope at most on SQLite, and on PostgreSQL unless two
requests on the scope have overlapped; an enabled one unless they have), from the
condition that the rows the server starts with are sound (`InitialRowsAreSound`).
`AnswersAreRecent` speaks of the cache alone; `AnswerInv` adds what a resolution between two
awaits has already established: after the first read, that the tenant's row was off no
longer ago than the resolution is old, and before it stores, that the value it carries was
held that recently.  The lifetime counts from the beginning of the resolution
(`config_registry.py:161`), which is why the sum of both never exceeds it.  `SettledInv` says
the same of a key's last change, and rests on `AnswerInv` for the system's row.

**`SessionsProofs`**: `TypeCorrect`; `TokensFormChainsHolds` (a refresh token is exchanged
once and revoked by it, unless by requests that overlap); `LiveTokensAreRecentHolds` (a token
that still works was issued after the sessions of its user were last ended, or by a request
that overlapped that); `LinksWorkOnceHolds` (a mailed link works until it is followed,
unless a later one replaced it or an administrator has set the password since, and is followed
twice only by requests that overlap).  `LinkInv` adds that the rows are links which were made,
that whoever is about to use a link that was used knows of the overlap, and that setting a
user's password drops reset links of that user only.  `ChainInv` adds that whoever is about to
exchange a token that has been exchanged knows of the overlap; `RecentInv` adds what a request
will issue, and that
a request that is about to end the sessions will revoke every token that is recent now.

**`MembershipProofs`**: `AcceptedHasUserHolds`, `OneUserPerPersonHolds`,
`AccountHasAdminHolds`.  An accepted invitation has led to exactly one user with its address,
a person has one user, and an account that was registered has a user with the administrators'
role, each unless a superadmin has set it otherwise: the address changed, the identity given by
hand, the role taken away.  `MInv` adds that ids are given once and users belong to accounts
that were made before them, that a request which has found a person to be new still finds them
new or knows of the other sign-in, that an invitation being accepted is still for the same
person, whom an invitation that was accepted has led to, that no two users of an account share
an address, and that only the built-in role is called admin.

Only model-checked: all liveness (`EveryJobEnds`, `ComesToRest`, `DueIsServed`,
`EveryDeliveryEnds`), which is out of the prover's reach, and of `Listing`, `AnswersObeyRules`
and `GroupsAreRight`: the language of `Rules` is defined by recursion over texts and trees, and
what a recursive definition computes for every input would need induction over data.

## 5. What is not modelled

* Whole components: the provider catalogue and encryption of configured secrets; files and
  storage; the admin interface; examples and scripts.  They keep no state that is shared
  between requests, or are input and output only.
* Parts of which only the tests that change the course of a modelled request appear: token
  codec, password rules and generators of codes and slugs; the cron parser (a cron is the set
  of minutes it matches) and the encoding of cursors; validators of schemas and records;
  sending of mail (accepted or refused); the middleware (who asks, for which account); the
  dashboard and the other listings; PII masking; start-up, CLI and logging; models and core
  schema migrations (their constraints, where a request may meet them).
* Within the modelled components: handlers of jobs other than webhooks and workflows; the
  inner steps of loop and parallel, the context and the step log of a workflow; filters and
  signing of webhooks; `migrate` commands other than upgrade; which columns are audited and
  how they are masked; heartbeats and filters of realtime; expiry of tokens and links beyond
  turning a request away; the exchange of messages with an identity provider; expansion of
  relations and searching in lists; templates of actions; and a second server process for
  `Collections`, `RecordWrites`, `ConfigRegistry`, `Hooks` and `Endpoints`.
* Failures of the database itself other than a refused or taken back transaction, and clocks
  that run backwards.

## 6. What the checks found

`scheduler_leap` shows that a tick does not "enqueue jobs for all due hooks", as its docstring
says.  It computes the next run first (`scheduler_service.py:144`), and `get_next_run` looks
4 * 365 days ahead (`parser.py:231`).  On 29 February the next run of `0 0 29 2 *` is 1461 days
away: the hook is skipped as an "invalid cron expression", is not disabled, though the warning
says so, and runs on 1 March.

The models also contain the following.  The properties are stated around these cases.

Queue, workflows, scheduler, webhooks:

* The conditional UPDATE of the SQLite claim (`job_repository.py:169`) tests the status only;
  a job that was retried between the SELECT and the UPDATE is claimed before its `run_at`.
* `cancel_job` checks the status and then deletes by id (`jobs_router.py:168`, `:190`): a
  job claimed in between is deleted under its worker.  A deleted job takes its work with it: a
  workflow instance waits for good, and a delivery stays pending or failed.
* A worker that outlives a stale reset reports by id (`job_repository.py:196`, `:203`): it can
  complete a job that another worker executes, and set a completed job to be retried or dead.
* An executor in flight overwrites the status of a workflow instance that was cancelled
  meanwhile (`workflow_executor.py:560`, `:597`).
* A wait step without `next` is executed again after its wake-up (`workflow_executor.py:366`,
  `:579`), and one whose `next` names no step of the edited definition starts from the
  beginning, for ever.
* A condition queues the step it selects and then also falls through to the following one
  (`:407`, against `:9`); an action without `next` does not end the instance (`:551`).
* A delay of zero seconds can be due before the instance is written as waiting (`:539`); its
  wake-up is then lost.
* The trigger endpoint starts disabled workflows (`workflows_router.py:282`).
* An instance run by a background task stays running for ever when its process dies (`:304`).
* The schedulers of two server processes read the same hook as due and both enqueue a job for
  the minute: the UPDATE (`hook_repository.py:150`) tests only the id.
* Recalculation at start moves a due `next_run_at` into the future (`scheduler_service.py:106`):
  a rolling restart loses the run; and it may write a plan of a cron edited meanwhile (`:104`),
  or let a hook run twice in one minute when a PATCH planned before the run is saved after it.
* A fired hook gets a `next_run_at` even when it was disabled meanwhile
  (`hook_repository.py:150`); two overlapping PATCH requests, each saving only the columns it
  changed, can leave an enabled hook without one (`hooks_router.py:414`, `:430`).
* The number of hooks of an account is tested before the insert (`hooks_router.py:127`): two
  requests exceed the limit.
* `_handle_scheduled_hook` only logs (`job_service.py:184`).
* A webhook is sent for a write that is not committed yet, or is rolled back afterwards: the
  hook fires inside the transaction and its task does not wait (`webhook_hook.py:158-177`).
* A delivery row without a job remains after a crash between its two transactions
  (`webhook_service.py:461`); a delivery is shown as failed while it is being retried; a
  delivered one can be overwritten by a later failed attempt; disabling a webhook does not
  stop queued retries (`webhooks_router.py:190`).

Collections, records, audit, realtime:

* A migration that fails stays in the directory and blocks every later change of any
  collection until its file is removed.
* On SQLite an import of several new collections creates the first one only: the upgrade of
  the second waits for the lock that the request itself holds (`collection_service.py:472`).
* An update that only changes computed fields writes a migration with an empty `with`
  block; importing it fails, and with it every later Alembic call.
* Two overlapping PUTs lose a field of the schema, though
  `docs/concepts/collections.md` says that fields are not deleted.
* Two overlapping deletions of one collection both find its row.  When the first is done and the
  name is given anew before the second's migration runs, that one drops the table of the new
  collection; its row stays listed, and the second request answers that the collection was
  not found (`collections_router.py:591`, `:615`).
* A crash between the drop of the table and the deletion of the row leaves a row that
  cannot be deleted; an upgrade may read a migration file before its body has been written.
* On PostgreSQL overlapping transactions fork the audit chain, and
  `verify_integrity_chain` (`audit_log_repository.py:271`) fails from then on; the old
  values of an entry are read before the row lock (`records_router.py:1593`).
* The audit hook returns without an entry when the request has no user, so every anonymous
  write that a public rule allows is unaudited (`builtin_hooks.py:184`), and when the log is
  switched off (`:155`); a failure inside it is logged and swallowed (`:272`).  The change is
  committed and its event published all the same, the last entry of the record is then out of
  date, and the next entry's old values are not those of the entry before it.
* Two batches that name the same records in another order block each other on PostgreSQL,
  and one of them is taken back (`record_repository.py:1089`).
* A subscription that changes during a send raises "dictionary changed size" and ends the
  broadcast for the remaining clients (`realtime_manager.py:78`); events may arrive out of
  commit order; a crash between commit and publication loses the event.

Configuration:

* Overlapping set-default requests on PostgreSQL leave two defaults
  (`configuration_repository.py:180`, against the docstring at `:168`), and one that
  overlaps a disabling leaves a disabled default.
* A system-level change reaches a tenant that cached the fallback only when the entry
  expires; a second server process never hears of any change.
* A resolution can answer "none" though at every moment one of both rows was enabled.
* Two overlapping PATCHes of the values lose one of them where the mask is sent back.

Sessions and tenancy:

* Two overlapping exchanges of a refresh token both succeed (`auth_router.py:706`): the
  token has two live successors.  A sign-in or an exchange that overlaps a change of the
  password is not among the sessions it ends (`password_reset_service.py:138`).
* When a mail is refused, the roll-back (`password_reset_service.py:105`) comes after the log of
  mails has committed the new row: the earlier link is gone and the new one was never sent.
* A verification link verifies the user, whatever address it was sent to
  (`email_verification_service.py:126`), and a change of the address leaves the user verified.
* Two overlapping first sign-ins of one person through a provider make two users
  (`oauth_router.py:385`); from then on the lookup finds two rows and every sign-in of that
  person fails.
* A superadmin may change any user's address, role and identity (`users_router.py:328-361`),
  and nothing else is asked: the user of an accepted invitation then bears another address,
  and an acceptance that overlapped the first makes a second user; the last administrator of
  an account can be given another role; and since no constraint covers provider and identity
  (`user.py:197-204`), two users can be given the same person, after which every sign-in of
  that person fails, as above.
* A mail goes out before its log, and the row of its link, are committed
  (`email_service.py:380-403`): if the server stops in between, a link that never works has
  been sent.
* Account codes of overlapping registrations collide, and one of them is answered with 500.
* The default roles are protected from deletion and not from renaming (`roles_router.py:230`).
* The limit of API keys is tested before the insert (`api_keys_router.py:63`): two requests
  exceed it.  In demo mode the reset of the superadmin's password is refused only after it
  has been committed (`auth_router.py:1052`).

Rules and lists:

* A comparison that is an operand of another comparison loses its parentheses in the SQL, and
  the database reads it another way.
* A null sort value in a cursor is no cursor: an ascending walk starts again, and a descending
  walk ends without the rows that have no value (`record_repository.py:762`).
* `cursor_before` keeps the order of the page and so returns the first rows of the list, not
  those just before the cursor (`:765`); the cursors are never null once there are rows
  (`:839`), though `record_schemas.py:69` says "null if no more records".
* A filter that passes the validator and cannot be compiled (arithmetic, a function, a field in
  a list of `IN`) answers 500: only syntax errors are caught (`records_router.py:665`).
* A filter on `id`, `name`, `created_at` or `updated_at` is ambiguous in the join with the
  accounts and answers 500.
* The rule of a creation is evaluated on the payload as sent, though the comment at
  `records_router.py:370` says processed; a batch asks the rule of no payload at all.
* A macro call with `@has_group` expands to a text the parser rejects, and the endpoint that
  saves rules rejects macros.

Hooks and endpoints:

* The actions that create, update, delete or query records import a module that does not
  exist (`action_executor.py:159`, `:184`, `:209`; `endpoint_executor.py:234`) and always fail;
  so does the one that sends a mail, which imports a function from where it is not
  (`action_executor.py:125`).  A hook passes over `query_records`, `aggregate_records` and
  `transform`, which only the executor of endpoints knows, without counting them.
* A write without a user has no account in its hook context
  (`middleware/context_middleware.py`), so it sets off no API-defined hook
  (`api_defined_hook.py:120`), no webhook (`webhook_hook.py:115`) and no workflow
  (`workflow_trigger.py:111`).  A failing query of the hooks of an event is logged, and none of
  them runs (`api_defined_hook.py:161`).
* The `before` events of records and those of auth, collections, requests, realtime and the
  mailer are declared and never triggered; nobody reads the `HookResult`, so an abort only
  ends the chain.
* Priorities run from high to low (`hook_registry.py:249`), while the comments
  (`api_defined_hook.py:95`, `webhook_hook.py:78`) say "after audit (100)" of 300 and 200: the
  dispatchers run before the audit hook.  A callback that replaces the data or aborts costs
  the audit entry.
* A callback registered for one collection runs for every one (`record_repository.py:229`
  passes no filter, against `hook_decorator.py:169`).
* `clear()` removes the dispatchers too (`hook_registry.py:415`); API-defined hooks run for
  writes that are rolled back; the depth guard never counts beyond zero (`api_defined_hook.py:206`).
* Which of two matching endpoints serves a path is left to the database: the query has no
  order (`endpoint_repository.py:62`).  The answer is 200 although actions failed; after a
  timeout the number of results, not of effects, decides the status
  (`endpoint_executor.py:457`); the execution row is lost when its endpoint or hook was
  deleted meanwhile.  The limit of endpoints is exceeded by two overlapping creations
  (`endpoints_router.py:107`).

## 7. What is left

1. Larger compositions: API-defined hooks beside `RecordWrites` rather than an abstract
   write; a second server process for configuration, hooks and realtime.
2. The cron search as an algorithm, and what the validators accept against what the table
   accepts.
3. Expansion of relations, searching, and the rules of updates and deletions in one clause.
