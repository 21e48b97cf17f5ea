# Support endpoint: a verification development

TLA+ modules, TLC runs and TLAPS proofs about the support platform in `src/`: a
FastAPI service (`src/apps/api`) over PostgreSQL and Redis, a scheduler process,
a React front end and deployment scripts. Paths below are under
`src/apps/api/app/` unless they start with `src/`.

## 1. The system

The program itself is sequential almost everywhere. What makes it hard is where
its copies meet:

- **Requests.** A `def` handler runs in one of the API's worker threads, an
  `async def` handler on its event loop. Each request has a SQLAlchemy session of
  its own (`db/session.py:20-28`: no autoflush, nothing expires at a commit) and
  with it one READ COMMITTED transaction. A service method reads, checks, writes
  and commits once, at its end. Between the read and the commit others commit.
- **Writes.** SQLAlchemy's unit of work updates only the columns whose value
  differs from the one loaded. The UPDATE waits for the row's lock and then
  applies to the row as it is by then. An unchanged row is not touched at all.
- **Times.** `created_at` is the process's clock when the INSERT is built
  (`db/base.py:16-26`), not the time of the commit.
- **Browsers.** The tabs of a browser share one refresh cookie and keep an access
  token each; a tab sends calls without waiting for those before and applies each
  answer when it comes.
- **Processes.** One uvicorn process serves the API (`src/apps/api/Dockerfile:19`);
  `workers/sla_scheduler.py` is a process of its own, kept single by a PostgreSQL
  advisory lock. There is no lock or statement timeout.

### Inventory

| Component | State | Operations | What is hard | What makes it correct |
|---|---|---|---|---|
| Tickets (`services/ticket_service.py`, `models/ticket.py`, `models/ticket_enums.py`) | ticket row, assignment history, audit events | create, update, transition, assign, tags | check-then-write on a loaded copy; row locks; stamps taken before the lock | each operation one step of the lifecycle; pointer agrees with the writes; every change audited |
| SLA clocks (`services/operations_service.py`, `workers/sla_scheduler.py`) | policies, one `ticket_slas` row per ticket, notifications, advisory lock | materialise, refresh, evaluate, set policy | lazily created rows; three kinds of session on one row; late commits; restarts | deadlines fixed; each notification once for each evaluator that can run; stop times and verdicts follow the history; nothing forgotten |
| Attachments (`services/communication_service.py:176-280`, `api/v1/communications.py`) | attachment bytes, row locks, event loop | upload to a message or a note, download | the quota is a sum; lock waits on the event loop; sessions closed late | quota holds; every upload answered; the process stays alive |
| Conversations (`services/communication_service.py`) | conversations, messages, notes | create, send, record, note | the first outbound message stops an SLA clock | as above, through the SLA clock |
| Tasks, notifications (`services/operations_service.py:118-193,302-317`) | task row with status and `completed_at`, notification with `read_at` | create, set status, mark read | decided on a loaded copy, written by column | no update that was answered is lost |
| Tags, queues, categories (`services/ticket_lookup_service.py`, `services/ticket_service.py:237-269`) | named rows, pairs of a ticket and a tag | create, update, tag, untag | names left to the constraint; pairs looked for and then inserted or deleted | names unique; only overlap or a used name fails a request |
| Onboarding (`services/auth_service.py:24-111`, `services/workspace_service.py`, `repositories/workspace_repo.py`) | accounts, workspaces and their slugs, system roles and grants | register, bootstrap, create workspace | look, then insert under unique constraints; rows created in different orders | roles complete when a workspace is there; slugs numbered; every request answered |
| Sessions (`services/auth_service.py:113-`, `models/session.py`, `src/apps/web/src/api.ts`) | refresh sessions, the browser's cookie, an access token per tab, calls under way | login, refresh, logout, the retry of a refused call, expiry | a session is checked and then rotated; tabs share the cookie; answers are lost or late | no refreshable session left behind; no tab signed out without a cause |
| Rate limiter (`services/rate_limit_service.py`) | Redis counter and its expiry | hit | two commands | a window ends |
| AI assistance (`ai/gateway.py`, `services/knowledge_service.py`) | circuit breaker in Redis and in each process, recorded suggestions, database connections | suggest, publish article | calls that outlast lifetimes and hold connections; count, then record; Redis going between two commands | breaker opens and closes again; suggestions and failures bounded; the core is served |
| Portal (`services/portal_service.py`, `models/portal.py`) | links of users to clients, tickets, conversations, messages | link, open a ticket, reply | looked for and then inserted; conversations chosen by `created_at` | one link per user and per client; customers keep one conversation; no message lost |
| Clients (`services/client_service.py`) | organizations, clients, contacts | create, update, deactivate, delete a contact | written by column from a copy | no update that was answered is lost |
| Workspaces, roles (`services/workspace_service.py`, `authz/`) | workspaces, static permissions | create (see Onboarding) | as onboarding | as onboarding |
| Operator console (`src/apps/web/src/App.tsx`) | selected workspace, its permissions and lists | sign in, choose, mark as read, sign out | an effect and a loader apply their answers in any order | one workspace on the screen; the screen comes to rest |
| Metrics, logging, health | counters of a process | observe | a lock around a dict | counts add up |
| Forms, migrations, scripts (`src/apps/web`, `src/apps/api/alembic`, `src/tools`) | - | - | crash points of deploy and backup | a failed step leaves the old release running |

Suggestions and all other requests share threads and connections. Tickets, SLA
clocks, attachments and messages interact through shared rows: a
transition writes the audit event that the SLA refresh reads; an outbound message
is the event of the first response; every insert that refers to the workspace
takes a lock on the row that an upload locks. Portal messages and operators'
messages go to the same conversations; a task creates the notification of its
assignee. The console and the portal page of one browser meet in the cookie.

`PROJECT.json` lists the hazards of this code line by line, with the properties
that would notice.

## 2. Modules

| Module | Models | Kind |
|---|---|---|
| `TicketEnums` | statuses and `ALLOWED_TRANSITIONS` | definitions |
| `TicketWorkflow` | one ticket row and overlapping requests | component |
| `TicketLifecycle` | what the service promises: each operation one step | abstract |
| `SlaClock` | one ticket's SLA row and the sessions that evaluate it | component |
| `AttachmentQuota` | uploads, row locks, event loops, session closes | component |
| `QuotaLedger` | what the quota promises: bytes charged one file at a time | abstract |
| `CircuitBreaker` | the breaker's keys in Redis, the local breakers, one operation per command | component |
| `AiAssist` | requests for suggestions and core requests; composes `CircuitBreaker` with threads, pool and time | composition |
| `Onboarding` | registrations, bootstraps and new workspaces as transactions under unique indexes | component |
| `Directory` | what they promise: accounts and numbered workspaces, added one at a time | abstract |
| `BrowserSessions` | the tabs of a browser, the cookie they share and the refresh sessions behind it | component |
| `ConsoleView` | what one tab of the operator console shows while answers come | component |
| `ServiceDesk` | tasks, notifications, queues, categories, tags, organizations, clients, contacts: one look and one commit per request | component |
| `Portal` | `ServiceDesk` with links, tickets, conversations and messages, and the properties of both | composition |
| `MCTicketWorkflow`, `MCSlaClock`, `MCAttachmentQuota`, `MCAiAssist`, `MCOnboarding`, `MCBrowserSessions`, `MCConsoleView`, `MCPortal` | small instances for TLC | instances |
| `TicketWorkflow_proofs`, `SlaClock_proofs`, `AttachmentQuota_proofs`, `AiAssist_proofs`, `Onboarding_proofs`, `Portal_proofs`, `BrowserSessions_proofs`, `ConsoleView_proofs` | theorems | proofs |

Definitions named `X_Something`, under a comment that starts with "Mutant", are
plausible bugs of the definition `X`; nothing uses them. `PROJECT.json` lists
which property notices which of them.

### TicketWorkflow

`row`, `history` and `audit` are what is committed of a ticket; `pc`, `job`,
`seen` and `stamp` are the progress of each request, what it was asked, the row it
loaded and the times it has stamped; `lock` is the ticket's row lock.

| Action | Code |
|---|---|
| `Create` | `TicketService.create`; one step, as nobody can see the ticket before its commit |
| `LoadTransition`, `LoadAssign`, `LoadUpdate` | the handler up to its last check. A request that fails a check leaves nothing behind and is not a step |
| `InsertAudit`, `InsertAssignment` | the INSERTs, where `created_at` is taken |
| `UpdateRow` | the UPDATE, if the unit of work emits one: it waits for the row lock |
| `Commit` | the commit: the changed columns, the audit event and the history row appear together, the lock goes |
| `Abort` | an error, a lost connection, a restart: the rollback |

The order of statements is the flush order: `assign` flushes the pointer, then its
history row, then the audit event; the others stamp the audit event first. Details
(subject, description, priority, queue, category) are abstracted to a function of
columns, with `Keep` for a field left out. Requests arrive once each.
Trails of overlapping requests are not written in the order of their commits, so
`TicketLifecycle` keeps no sequence of them: it counts the status changes from each
status to each (`moves`) and the assignments to each user, and `ImplementsLifecycle`
maps the audit events and history rows to these counts. Its `transition_status` starts
from any status the ticket has had, which is what a check on a loaded copy can promise.

### SlaClock

`policy`, `sla`, `events`, `notified` are committed; `sending` holds events that
are stamped and not committed yet; `firsts` is a history: what the earliest committed
event of each objective has ever been; `holder` is the advisory lock; the rest is the
state of each session. Schedulers take the lock, callers of `POST /sla/evaluate`
do not, readers of `GET /tickets/{id}/sla` only refresh.

| Action | Code |
|---|---|
| `Start` | the lock, materialisation of a missing row and policy, then `now` (`operations_service.py:248-250`) |
| `Load` | `list_active_slas`, or `get_ticket_sla` |
| `Decide` | `_refresh_sla_from_history` and the decisions of `evaluate_sla` on the loaded copy |
| `Commit` | changed columns, new rows, notifications; the session ends |
| `Reject`, `Fail` | a unique constraint; any other failure. `evaluate_all_workspaces` rolls back, and the next cycle tries again |
| `Stamp`, `Publish`, `Drop` | an outbound message, or a transition to resolved or closed, and its commit or rollback |
| `UpsertPolicy`, `Tick` | a supervisor's policy; a minute passes |

Simplifications: one ticket of one workspace; the histories of both objectives are
read in one step; an insert that would wait for a competing insert of the same
key is a rejection when it commits second; an evaluator loads a row even when both
its stop times are set (the loop would skip it, and here it changes nothing);
`GET /sla/policies`, which commits nothing, is no action here. The SQLite
variants of the code are left out.

### AttachmentQuota

`stored` is the sum of the committed bytes; `forUpdate` and `keyShare` are the
locks on the workspace row; `loop` says which coroutine an event loop is inside of.
`Writers` stand for any handler that inserts a row of the workspace and commits,
`Listings` for `GET /sla/policies`, which inserts, flushes and never commits
(`operations_service.py:225-228`). How PostgreSQL, the thread pool and FastAPI
behave is modelled from how this code uses them and is marked external in the map:
a foreign key takes FOR KEY SHARE on the row it refers to, which excludes FOR
UPDATE and not itself; locks go with the transaction; the exit of a `yield`
dependency that is a plain function runs in a worker thread and the event loop
has to send it there. `QuotaConstants` has the bound that the settings check in production
(`core/config.py:83-86`): a quota holds at least one file of the largest size. Earlier
uploads may have filled it to any degree at first.

### CircuitBreaker and AiAssist

`openTtl`, `failures` and `failuresTtl` are the two Redis keys with what they have
left to live, `local` the breaker of each process. `pc` and `elapsed` are the step
of each worker thread and the time it has waited for a connection, `rows` the ages of the
suggestions that the limit counts. `failed` and `streak` are histories.

| Action | Code |
|---|---|
| `Connect`, `Refuse` | the request's first query takes a connection of the pool, or fails after the pool's timeout |
| `Limited`, `Count` | `count_recent_for_workspace` against the limit |
| `Reject`, `Call` | `_assert_circuit_closed`, in Redis or, without it, in the process |
| `Fail`, `CountFailure`, `ExpireFailures`, `OpenCircuit`, `ClearFailures` | the call raises; INCR, EXPIRE, SET EX, DEL of `_record_failure`, one step each |
| `FallBack`, `CountLocally` | a command fails: the rest is counted in the process |
| `Answer`, `Reset`, `Forget`, `Record` | `_record_success`, then the suggestion and its commit |
| `Tick` | time: a step of 30 seconds in the instances. Keys and rows age |
| `RedisTurns`, `Restart` | an outage of Redis begins or ends; a process starts again |

Commands and queries take no time, calls and waits for a connection do: a tick
passes when no thread has anything else to do. Counts stop at the threshold, the
only number they are compared with. A call has no end of its own: `httpx.Client(timeout=90)`
(`ai/gateway.py:120`) bounds each read of the answer, and an endpoint that sends a little
at a time holds the call, its thread and its connection for as long as it likes. `elapsed`
counts only the wait for a connection. Redis keeps its keys during an outage. One
workspace; the prompt and its redaction are left out. A thread serves requests
of one kind (`Assistants` or `Others`); a real one that serves both is two here.

### Onboarding

A row is its key. `holder` says of each key whether it has no row, a committed
one, or one of a transaction that has not ended. A request looks for a key
(`Find...`), and inserts it when it does not see it (`Insert...`), which waits as
long as another transaction holds the key. `Fail` is the unique constraint, or the
deadlock detector when requests wait in a circle: the permissions are created in
the order of a Python set of strings (`auth_service.py:32-37`), which differs from
process to process. `CreateOrder` gives each process its order; in the instance,
grants, which follow in a fixed order, are one row, "admin". The token pair issued
after the commit is a transaction of its own: `Issue` of `BrowserSessions`.

### BrowserSessions

`live` is the set of sessions that can still be refreshed, `cookie` the one in the
browser, `access` and `signedIn` what a tab keeps; `phase`, `bearer` and `carried`
follow each call of `api()` from its first sending to its end. A row that nothing
refers to any more is used again for a new session, which keeps the instance
finite; `CanIssue` makes a tab start only what rows are left for.

| Action | Code |
|---|---|
| `Load`, `Fetch`, `Reopen` | `useEffect` of the page, any other call, the page opened again with what `sessionStorage` holds |
| `Served`, `Follow` | the call is answered; `PortalApp` asks for the next thing of its effect |
| `Refuse` | 401: `refreshTokens`, with the cookie of that moment |
| `Check`, `Rotate`, `Refreshed` | `AuthService.refresh` finds the session active; revokes it, issues another and commits; the browser stores cookie and token and sends the call once more |
| `Deny`, `Refused`, `Lose`, `Abort` | the refresh is refused; the repeated call is; a request or an answer is lost; the transaction fails. The call throws, and an effect that waits for it signs the tab out |
| `Login`, `Issue`, `Enter`, `LoginFails` | the request, `issue_token_pair`, its answer, or none |
| `Logout`, `Revoke`, `Leave` | the request, `AuthService.logout`, its answer, which deletes the cookie |
| `LoseLogout`, `LoseWelcome` | the answers lost; a tab signs out alone |
| `ExpireAccess`, `ExpireSession` | minutes and days pass |

The same service methods serve the token endpoints that do not use the cookie.
Two users who sign in from one browser share its cookie here as there. The rate
limiter is the outcome `LoginFails`.

### ConsoleView

`workspace`, `permissions` and `shown` are the React state of `App.tsx` that a
workspace determines; `asked`, `loads`, `lists`, `marks` count the calls under way,
by the workspace they were made for. `Choose`, `Login`, `Logout`, `MarkRead` are the
user; `Settle` is the `then` of `useEffect`, which stores the selection it settled on
and loads it; `Permissions` and `Answer` are `loadWorkspace`, in two stages; each has
a failing variant. Answers of one kind come in any order. A tab starts with what
`sessionStorage` gives it: signed out, or signed in with any selection and the calls of
`useEffect` under way. Two histories record what the properties except: `strayed`, that
the user acted while an answer of another workspace was awaited, and `erred`, that a
call of `useEffect` or `loadWorkspace` failed. `OneWorkspaceShown` excepts both, as a
failed call leaves the old permissions or list where it was; `ScreenComesToRest` excepts
the first only.

### ServiceDesk and Portal

`row` is the committed value of each identifier, `req` the state of each request,
`granted` what the requests that were answered asked each row to be, in the order of
their commits, and `unwritten` the columns which a request asked for and did not write,
as its copy had the value already and the row no longer. Answers themselves are not
modelled. A handler answers with its whole copy, unexpired, and the columns it set
(`schemas/operations.py:20-33`, `api/v1/clients.py:99`): when it was overtaken, the other
columns of the answer are as they were at its look.

Every handler here has one shape and two steps: `AskX` (the parameters and the
first read, which takes the copy `saw`) and `X` (the checks on the copy, the flush,
the constraints, the commit on the row as it is by then). `Refuse` is a 404 or 422,
`Fail` the 500 of a constraint; both leave nothing behind.

| Action | Code |
|---|---|
| `CreateTask`, `SetTaskStatus`, `MarkNotificationRead` | `operations_service.py:118-193,305-317`; a task with an assignee comes with its notification |
| `CreateQueue`, `UpdateQueue`, `CreateCategory`, `UpdateCategory`, `CreateTag` | `ticket_lookup_service.py`; no name is looked for, the constraint refuses |
| `AddTag`, `RemoveTag` | `ticket_service.py:237-269`; a pair's row is known by who inserted it, so that a DELETE of the row that was read can miss |
| `CreateOrganization`, `UpdateOrganization`, `CreateClient`, `UpdateClient`, `AddContact`, `DeleteContact` | `client_service.py`; deactivation is the update of `is_active` |
| `LinkClientUser` | `portal_service.py:20-63`, the look for links and the two constraints |
| `CreateTicket`, `AddMessage` | `portal_service.py:120-149,170-213`; the oldest WEB conversation of the copy, or a new one |
| `OpenConversation`, `Post` | `communication_service.py:46-141`, operators on any channel |

Columns that a handler treats alike are stood for by one of them. A conversation is
inserted where its `created_at` falls: after all those its request saw, before or
after those that were committed since. A request that does not find the row it is
about is a 404 at once and makes no step; so is one whose caller lacks the
permission. A request that dies before its commit is one that never came. PATCH
cannot set a column to NULL: the services take None for a field left out. `_link` does not ask for
`Client.is_active`: an inactive client's link still opens tickets, and only
`accounts` hides it; the model does as the code does. `updated_at`, internal notes
and audit events of these rows are left out.

## 3. Runs

Every component keeps two or three small requests or sessions: each hazard above
needs two actors, or three where one overlaps two others in turn. TLC's constants
are in the `.cfg` files.

| Run | Instance | States | Shows |
|---|---|---|---|
| `TicketWorkflow_overlapping` | 3 requests, 2 at a time, 1 user and nobody, 1 column of 2 values | 240 k | types; each request is one step of `TicketLifecycle`; every change is audited; the trail never starts from nowhere; the pointer follows the writes; no endless wait |
| `SlaClock_scheduler` | 2 schedulers, both objectives, 4 minutes, 1 event each | 49 k | each notification once; verdicts agree; every objective settles; every event is recorded |
| `SlaClock_sessions` | 2 callers and a reader, a policy change, 2 minutes, 2 events of 2 senders; 3 transactions at a time | 1.5 M | each notification once for each caller; flags agree with notifications; deadlines stay; a stop time was the earliest event |
| `AttachmentQuota_uploads` | 2 processes, 2 uploads, a writer, files up to 2 and a quota of 3 | 12 k | quota, refinement of `QuotaLedger`, the loop comes back, every upload answered |
| `AiAssist_breaker` | 2 threads for suggestions, 1 for the core, 2 connections, threshold 2, cooldown 2, limit 2; calls of any length, outages and restarts | 1.5 M | suggestions and failures bounded; the breaker lets calls through again |
| `Onboarding_races` | a registration, 2 bootstraps, 2 new workspaces of one name, 2 accounts, 2 processes with opposite orders; empty or partly filled at first | 72 k | refinement of `Directory`; failures only among overlapping requests; every request answered |
| `BrowserSessions_tabs` | a console tab with 2 calls under way and a portal tab with 1; 3 sessions | 437 k | no refreshable session left behind; no tab signed out, unless an answer was lost, something expired or requests raced for the cookie |
| `ConsoleView_switching` | 2 workspaces, in one of which a list may not be read; 2 lists; any tab at first; 2 actions of the user, 2 calls of a kind; failures | 490 k | the selection, the permissions and the lists are of one workspace when all answers have come; the screen comes to rest |
| `Portal_overlapping` | 3 requests of any kind, in every overlap, on 3 workspaces: a bare one, one with a tag and a link, one with a conversation too | 277 k | no update is lost; one conversation; only clashes fail |
| `TicketWorkflow_transitions`, `AttachmentQuota_refused`, `AiAssist_CoreIsServed` | below | - | the three disagreements |

Bounds. `MaxTime` passes every deadline and warning of the instance's policies (2 and 3
minutes, or 1 and 2). `MaxEvents` = 2 lets an event come before and after another, and
`MaxSenders` = 2 lets the later stamp commit first. `ThreeOverlap` of `MCSlaClock` keeps
three transactions under way at one time, of the five that there may be; they follow
each other in every combination. `NotificationsBounded` is exact: in
`SlaClock_scheduler` the bound is one, in `SlaClock_sessions` two, and both are reached.
`Quota` is smaller than two full files, so uploads are refused and uploads fit.
`MaxInFlight` is the number of worker threads. Deadlock is checked wherever the instance
cannot run out of requests; `AllAnswered` in `MCTicketWorkflow` stands for "all requests
were made". `AttachmentQuota_uploads` ends when its uploads are answered, and
`Onboarding_races` when its requests are. In `AiAssist` the bounds are exact: with
`Assistants` threads the run reaches the last value each bound allows. Nothing there is
counted without end: ages stop at `Window` and `Cooldown`. `Limit` = 2 is what it takes
for a success to come between two failures of one cooldown, and with it a late DEL (see
below); with 1 the failures seem bounded by threshold and threads. The run about the
default settings, `AiAssist_CoreIsServed`, keeps their proportions (cooldown 30 s, pool
timeout 30 s, threshold 3) with a pool of 2 for 15 and 3 threads for 40. In
`Portal_overlapping` each request is made once and may be any of the 21; three are what
it takes for one to be overtaken twice (a tag removed and added again under a request
that looked before). Two names, clients and customers are what a clash needs.
`BrowserSessions_tabs` has no bound on its length: rows are used again, and `incidents`
keeps of the past what the properties ask. Its three sessions are the cookie's, a call's
and a login's at once; a tab that finds no row free waits. `MaxActs` = 2 lets the user
of a restored tab leave its workspace and return, or sign out and in again. Requests and
sessions that only their names tell apart are symmetric; where liveness is checked no
symmetry is used.

Fairness. A thread that has a request keeps executing it (`Advance`, weak: once the row
lock is free nobody takes it away for ever, as each request runs once). The scheduler's
`main` starts cycle after cycle and catches every error; its failures are taken to be
transient, hence strong fairness on its later steps and none on `Fail`. Nothing is
assumed of callers, readers and senders. A free event loop serves each request that
stays ready, and requests take turns on it: strong fairness of `Proceed`. `Abort`,
`Fail`, `Lose`, `Read` and `Accept` have none: no property needs a request to arrive or
a failure to happen. `AiAssist` assumes only that time goes on, which no request that
can run lets it do before it has run, and nothing of how long a call lasts; `Onboarding`
that a begun request goes on and that PostgreSQL breaks a circle of waits. `ConsoleView`
assumes that each call is answered, with a result or an error, as `fetch` is; nothing of
the user. `BrowserSessions` and `Portal` state no fairness: their properties are about
what may be stored or shown, not about what must come.

### Disagreements found

Each is a run that expects a violation.

1. **The state machine can be passed by** (`TicketWorkflow_transitions`).
   `transition_status` (`ticket_service.py:185`) checks the status it loaded; of two
   overlapping transitions the second moves the status on from one it never saw, from
   closed to in_progress when both had seen new. `ticket_enums.py:26-30` and ADR-005
   say that no caller can skip it. What remains true is in `ImplementsLifecycle` and
   `EventsFollowEarlierOnes`: each transition is allowed from a status the ticket has had.
2. **An event loop that stops** (`AttachmentQuota_refused`). A refused upload keeps
   the workspace row locked until its session is closed, which the event loop has to
   send to a thread; the next upload waits for that lock on the event loop. On one
   process, as deployed, nothing is answered any more, `GET /health` included, which
   `api/v1/health.py:14` describes as touching no dependency.
3. **Calls that hang starve the core** (`AiAssist_CoreIsServed`). `suggest` calls the
   gateway with its database session open (`knowledge_service.py:104`). As many
   calls as the pool has connections make other requests fail with a pool timeout;
   ADR-007, decision 1: "AI failure or disablement never blocks CRM, ...".

The same modules show more, for which no run is kept; each is seen with the
property and the change of the instance named here.

- **A notification twice**: `NotificationsBounded` of `SlaClock_scheduler` with a caller
  beside the schedulers and 1 for `Announcers`. `POST /sla/evaluate`
  (`api/v1/operations.py:116`) takes no advisory lock, and two evaluations that load the
  row together notify twice. ADR-008, decision 7, says once.
- **Failures that do not open the breaker**: `BreakerOpens` with the constants of
  `AiAssist_CoreIsServed`. Each failure gives the counter a cooldown to live
  (`ai/gateway.py:83`); calls that time out last longer (90 s at least, against 30 s), so
  the counter is gone before the next failure is counted. ADR-007, decision 8,
  promises the breaker "after a configurable number of consecutive gateway failures".
- **A selection that does not settle**: `SelectionSettles` of `ConsoleView_switching`.
  `useEffect` (`src/apps/web/src/App.tsx:69`) stores the selection it was started
  with when its answer comes. When the user has chosen another workspace meanwhile,
  that changes `workspaceId` and starts the effect again, and the two effects can
  set each other's selection without end. `ScreenComesToRest` says that this takes
  an action that met an answer still awaited.
- a verdict against its history, `VerdictMatchesHistory` with a reader beside the
  schedulers: a page view stores a timely stop time and does not write the breach
  flag, which is False in its copy and so unchanged; an evaluation on an older copy
  sets it, and no later one looks again (ADR-008, decision 6);
- a warning after the breach, `NoWarningAfterBreach`: the warning is the `elif` of
  an unflagged breach (`operations_service.py:273`), so one cycle after the breach
  the owner is told that the deadline approaches;
- `PointerIsLatestAssignment` and `AuditTrailReplays` of `TicketWorkflow`, with two
  requests in flight: an assign to the loaded assignee emits no UPDATE and takes no lock,
  so that its history row can be the last one beside another's pointer
  (`ticket_service.py:214`); audit events are stamped before the row lock is waited for,
  so that `created_at` order is not the order of the changes (ADR-005);
- `StopsAtEarliestEvent` in `SlaClock_sessions`: the row took a later event because the
  earlier one committed after it (ADR-008, decision 5);
- with `FailuresBounded` as `Len(failed) < Threshold + Cardinality(Assistants)`, the
  threshold and the calls under way, which is what ADR-007 lets one expect: a thread
  that has opened the breaker sends its DEL after another's success has closed it,
  and takes the failures counted in between (`ai/gateway.py:86`). The bound that
  holds is the threshold times the threads;
- two overlapping bootstraps that both succeed, with different accounts
  (`auth_service.py:89-92`), where ADR-002 has a one-time operation: in `Onboarding_races`
  both bootstraps can end "done" when the second had looked for users before the first
  committed;
- two first requests of two processes that fail each other by a deadlock in
  `ensure_system_roles`, whose comment calls it safe at every startup
  (`auth_service.py:25-28`);
- `ChangesHold` with `unwritten` left out: a PATCH whose value equals the copy's
  writes nothing, so an answer that says "active" can stand beside a row that
  another request has made inactive meanwhile; the same for `add_tag` and `remove_tag`;
- two `set_task_status` that overlap both close a task (`operations_service.py:176`, "Only
  open tasks can change status"): "cancelled" can stand beside a `completed_at`, and the
  one that was overtaken answers with the `completed_at` of its copy, null;
- `ThreadStays` without `CommitsLate`: two first messages that overlap each open a
  WEB conversation, and later ones go to the older;
- `NothingIsLeftBehind` without `incidents`: a login leaves the session of the cookie
  it replaces active until it expires, and so do two refreshes with one token;
- a call that outlives the sign-out of its tab stores its refreshed access token in
  the `sessionStorage` that the sign-out has cleared, so that `Reopen` is possible.

## 4. Proofs

Checked by TLAPS for all values of the constants, from the assumptions named in
the modules (`TicketConstants`, `SlaConstants`, `QuotaConstants`,
`BreakerConstants`, `AssistConstants`, `OnboardingConstants`, `DeskConstants`,
`PortalConstants`, `StartsAreRows`, `SessionConstants`, `ViewConstants`): these say
only that special values (`NoUser`, `Nobody`, `NoRow`, ...) are none of the ordinary
ones, that kinds of requests and of keys are disjoint, that sets which are counted
are finite, that bounds are numbers, that each process goes through all system rows,
that identifiers of different tables differ, that rows stored before fit their
tables, that a quota holds at least one file of the largest size, and that each tab can
make a call. No theorem assumes more than these.

Every safety property of the passing runs, invariant, action property and
refinement, is stated by a theorem, but for `VerdictMatchesHistory`; the runs show each
on an instance first.

**TicketWorkflow** (`TicketWorkflow_proofs`)

- `TypeCorrect`, `PointerFollows`, `ChangesAudited`: any number of overlapping
  requests. The pointer claim is not inductive by itself: an assign that has locked
  the row must already be known to stamp its history row after every effective one,
  which is `StampsFollowLocks`; that stamps are below the clock, distinct, and taken
  by the step that needs them is `StampsAreFresh`.
- `TrailsFollow`, `RequestsImplementLifecycle`: any number of overlapping requests too.
  What is inductive (`TrailInv`) is that the copy of each request was the row once
  (`CopyWasRow`): an event stamped earlier led to its status, its assignee has a history
  row, and an assign that went past its UPDATE without the lock asks for the assignee
  that its copy has. A commit then adds one event and one history row at most, so that
  the counts of the lifecycle grow by one in one place (`MovesGrow`, `AssignmentsGrow`),
  which is a matter of cardinalities and of no induction.

**SlaClock** (`SlaClock_proofs`)

- `SlaTypeCorrect`, `DeadlinesStay`, `FlagsFollowNotifications`: any sessions, with or
  without the lock. The flags' claim needs to know what a session's copy says about
  the row now (`RowInv`): a stop time the copy has is still there, a decision only
  adds to what was loaded, a row the session made is empty, a reader flags nothing
  that is open.
- `NotificationsStayBounded`: any sessions. An evaluator is ready to announce
  (`ReadyToWarn`, `ReadyToBreach`) as long as its copy of the row is without the flag. A
  commit that announces takes its own evaluator out of those that are ready
  (`CommitSpends`), and after the first notification the row has the flag, so that
  nobody who loads it becomes ready (`JoinsUnannounced`). From then on the notifications
  made and the evaluators that are ready are together no more (`Within`, `BoundInv`) than
  the callers and the one scheduler that `LockInv` lets past its start.
- `StopsWereFirst`: any sessions and senders, in every order of commits. A stop time, of
  the row, of a copy or decided on, is one that was the earliest committed event at some
  moment (`StopsInv`), which `firsts` remembers.

**AttachmentQuota** (`AttachmentQuota_proofs`): `QuotaHolds`, `ChecksStayCurrent`,
`UploadsImplementLedger`. `ChecksAreCurrent` with `TypeOK` is inductive: an upload
past its check holds FOR UPDATE, so nobody else's bytes came in since.

**AiAssist** (`AiAssist_proofs`)

- `AssistTypeCorrect`, `RequestsAreCharged`, `SuggestionsStayBounded`. The bound on
  rows is not inductive: a request that has passed the count is going to add one.
  `PassedAreCharged` charges it at once; the limit check then leaves room for every
  other thread. Ageing only shortens sequences (`AgedShrinks`), and a restart takes
  requests back.
- `FailuresStayBounded`. The invariant `BoundInv` counts threads at the commands of
  `_record_failure`. While calls are let through, each thread whose DEL is still to
  come has used up the `Threshold - 1` failures that its DEL may take
  (`ClosedBound`); while none is, only the calls under way can fail (`OpenBound`).
  Between the two stands time: what the key "failures" does not count is older than
  what is left of the key "open" (`OldGoFirst`), and the key "failures" outlives what
  it counts (`KeyOutlives`), so that the breaker closes after those have gone. No
  time passes between SET and DEL (`JustOpened`).

**Onboarding** (`Onboarding_proofs`)

- `OnboardingTypeCorrect`, `RolesComplete`, `SlugsStayDense`. What others do changes
  nothing a request sees or holds (`StepKeeps`, `OthersKeep`). The invariant says how
  far each founder has come: the rows before its position are committed or its own
  (`RowsBehind`), the slugs below the one it looks at are committed, and it holds a
  slug only to commit it (`SlugsBehind`).
- `OnboardingImplementsDirectory` adds what a request holds at each step and that it
  holds no more (`Holds`, `HoldsNoMore`), so that a commit adds an account, a slug and
  the rest of the roles at once. The abstract count has no limit and the slugs of
  the model do: `Counted` (each committed slug has a founder that is done) leaves a
  number for everyone who still asks. It needs accounts and system rows to be
  different keys, which `OnboardingConstants` says.
- `FailuresAreRaces`: as long as a request has met no other, nothing
  comes between its look and its insert (`Alone`); requests under way together know
  of each other (`Overlap`).

**Portal** (`Portal_proofs`, with `ServiceDesk`)

- `OnlyClashesFail`, from an invariant that says what a request's
  copy is worth: if nobody wrote the row since, it is the row (`Copies`); a request
  that creates a task or a ticket is alone with its identifier (`Reserved`).
- `RowsKeepTheirShape`, `ChangesAreKept`. `ChangesHold` says nothing of the requests
  under way, so the invariant `Granted` adds that a copy is an earlier state of its
  row (`CopyHolds`): the row has not gone, a read notification stays read, and a
  ticket keeps every conversation the copy shows (`Follows`), so that a message finds
  the conversation it was decided for. Most operations change one row and what was
  granted of it; `Untouched` covers the others.
- `CustomersThreadStays`: a commit that nobody has overtaken inserts at the end of the
  conversations or adds to one of them, and either leaves the first over the web
  where it is (`AddedAtTheEnd`, `FirstPosition`).

**BrowserSessions** (`BrowserSessions_proofs`): `SessionsTypeCorrect`, `NoSessionIsLeft`,
`TabsStaySignedIn`. As long as nothing was stranded, at most one request that can
change the cookie is under way, and what is live is the cookie's or an answer's
(`Kept`); as long as nothing was ended, a tab that is signed in has a cookie that can
be refreshed or an answer on its way with one (`Calm`). `Waits` and `Own` carry the
two through: an effect waits for calls under way, and answers carry sessions of
their own.

**ConsoleView** (`ConsoleView_proofs`): `ViewTypeCorrect`, `ShowsOneWorkspace`. The
property is about states in which nothing is awaited; what is inductive (`Steady`, as
long as nothing was `strayed` or `erred`)
says of every other state that answers are awaited for the selected workspace only,
and that each of its lists is there or awaited (`Filled`, `Loaded`).

Proved and not run: `PassedAreCharged`, `ChecksAreCurrent`, `RolesAreComplete`,
`SlugsHaveNoGaps`, the strengthenings `StampsFollowLocks` and `StampsAreFresh`.

Only model-checked: `VerdictMatchesHistory`, which asks for instances without callers
and readers (section 3); and the liveness properties (`RequestsFinish`,
`EveryObjectiveSettles`, `EventsAreRecorded`, `LoopComesBack`, `BreakerCloses`,
`RequestsAreAnswered`, `ScreenComesToRest`), as fairness and ENABLED are out of the
prover's reach.

## 5. What is left

The modules above cover the parts of the service that change state, but for those
listed here. Worth doing next, in this order:

1. A scheduler over several workspaces that composes `SlaClock`'s sessions with
   the advisory lock of a connection (`workers/sla_scheduler.py:17-37`): one failure
   among many workspaces, a connection lost with its lock.
2. Knowledge articles and their versions beside `AiAssist`.
3. The details pane and the forms of the console, and the lists of `PortalApp`.

Proofs to come: the safety half of the liveness properties, that is, that a state in
which everybody waits is not reached (the mutual exclusion behind the loops of
`AttachmentQuota`, the circles of waits of `Onboarding`, the breaker whose keys all
have a lifetime or a thread that will give them one).

### Not modelled

- The rate limiter: INCR and EXPIRE are two commands, both fail open, and the
  counter decides nothing but whether a login is refused.
- Read endpoints, listings, searches and permission checks: they read committed
  rows under READ COMMITTED and change nothing.
- `notify_ticket_assignment` (`operations_service.py`) has no caller.
- Metrics, logging, correlation identifiers, health: counters of one process under
  a lock, and formatting.
- Deployment, backup and restore scripts: linear shell scripts which stop at their
  first failure; what a step leaves behind is decided by docker compose, `pg_dump`
  and PostgreSQL, of which the repository has nothing to translate.
- Migrations: DDL without state that interleaves; the constraints they create are
  used where a module depends on them.
- The forms of the web client and rendering; the SQLite variants (tests only).
