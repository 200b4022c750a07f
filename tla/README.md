# DBFlux: specifications, model checks and proofs

DBFlux is a desktop database client written in Rust (about fifty crates under
`src/crates/`) with an MCP server through which AI agents call its tools. This
directory holds TLA+ models of the parts of DBFlux whose correctness depends on
order and failure: processes that share a table, threads that share a channel,
asynchronous tasks that share the application state.

## 1. Inventory

| Part | State | Operations | Meets others through |
|---|---|---|---|
| **Approval queue** (`dbflux_approval`, `dbflux_storage/pending_executions.rs`) | table `app_pending_executions`: status, plan, `expires_at` | insert, look up, approve, reject, consume, purge | one SQLite file shared by all processes |
| **MCP runtime and authorization** (`dbflux_mcp`) | policies, roles, clients, audit service | authorize a call, gate, decide | in memory in each process; the queue |
| **MCP server** (`dbflux_mcp_server`) | the runtime behind a tokio `RwLock` | a tool call: authorize, run, audit | concurrent calls, restarts |
| **Connections of the MCP server** (`server.rs`, `connect_deadline`, `connection_cache.rs`) | cache, per-profile setup lock, pending session shutdowns, detached hook processes | connect with a deadline, disconnect, end of the server | concurrent calls, late drivers, dropped futures |
| **Policy engine** (`dbflux_policy`) | none (pure) | `evaluate` | called by authorization |
| **Tracing bridge** (`dbflux_core/observability/tracing_bridge`) | bounded channel, four atomics, sink slot, drain thread | `on_event`, `install_sink`, `set_min_level`, `shutdown` | every thread that logs; audit service |
| **Connect and disconnect of a profile** (`dbflux_ui_sidebar/operations`) | pending marker, live session, last failure, tasks | connect (direct or pipeline), cancel, retry, refresh, disconnect | application state between awaits; teardown threads |
| **Connection manager** (`dbflux_core/connection/manager.rs`) | sessions, generations, revisions, caches | install, remove, fenced fetches | all UI tasks that await a driver |
| **Task manager, hook phase runner** | task rows and tokens; hook processes | start, complete, fail, cancel; run a phase | connect, disconnect, queries |
| **Object tree coordinator** (`dbflux_ui_base/object_tree`) | requests and installs under way, waiters | request, retry, cancel, settle | connection manager; events to every consumer |
| **Sidebar table details** (`dbflux_ui_sidebar/table_loading.rs`) | items loading, refresh tasks, failures to retry | expand, refresh, retry, recover | coordinator |
| **Shutdown coordinator** (`dbflux_core/core/shutdown.rs`) | phase, timeouts | request, advance, force | task manager, bridge |
| **Execution session** (`dbflux_ui_document/code`) | transaction, running statement | execute, cancel, close | connections |
| **Tunnel core** | a forwarder thread | connect, close | sockets |
| Drivers, IPC host, transfer and export, UI, scripts, cloud credentials | vendor handles, buffers, widgets | conversion and I/O | called by the parts above |

What is hard here: two processes between a `SELECT` and an `UPDATE` (queue); a
step that succeeds before the one that should record it (audit); counters and
flags that are separate atomics (bridge); state read before an `await` and used
after it (connect, sessions, trees); a cancelled task that is still running; a
wait on a thread that may hang. `PROJECT.json` lists each at its line.

What makes the parts correct: an approval runs one call and a rejection none;
nothing runs or is decided without its audit event; no event disappears without
being counted; shutdown and disconnect come back whatever hangs; no marker or
task is left behind; a fenced result reaches a newer session or an obsolete target
never, and is not thrown away otherwise; no waiter of a shared request is forgotten; a
connection that was opened is shut down or closed, also at the end of the server.

## 2. Modules

| Module | Content |
|---|---|
| `ApprovalSpec` | what the queue promises: ask, decide once, claim once, run once, or lose |
| `ApprovalQueue` | the queue as servers and apps execute it, statement by statement |
| `MCApproval` | its instances for TLC |
| `ApprovalQueueProofs`, `ApprovalRefinementProofs` | proofs about it |
| `TracingBridge`, `MCTracingBridge`, `TracingBridgeProofs` | the bridge, instances, proofs |
| `ConnectAttempts`, `MCConnectAttempts`, `ConnectAttemptsProofs` | connecting one profile, instances, proofs |
| `SessionFencing`, `MCSessionFencing`, `SessionFencingProofs` | session state of one profile and the jobs that write it, instances, proofs |
| `McpConnections`, `MCMcpConnections`, `McpConnectionsProofs` | connections of the MCP server, instances, proofs |
| `ObjectTree`, `MCObjectTree`, `ObjectTreeProofs` | shared requests of the object tree and the sidebar on top, instances, proofs |

Definitions called `X_Something` beside `X` and commented "Mutated form" are
plausible bugs; `PROJECT.json` says which property each one breaks. They are not
used by any specification.

### ApprovalQueue

Servers and apps are processes; the unit of atomicity is one SQL statement or
one audit record. `status`, `planOf` and `expires` are the columns of the table,
`now` the wall clock. A tool call (`pc`) takes the runtime guard (`lock`), is
judged (`AuthorizeCheck`; the verdict of the policy engine, with the connection
flags, is the constant `Governances`), and if it needs approval goes through
`RuntimeApprovalGate::resolve`: `ConsumeSelect` reads the approved rows,
`ConsumeUpdate`/`ConsumeMiss` try them oldest first under the status guard,
`QueueCall` inserts a request. `AuditAuthorize` writes the event and drops the
guard, `RunHandler` or `RunRequest` runs the tool, `AuditExecution` ends the call.
A person decides in an app (`gpc`): look up, `ApproveGet`/`ApproveUpdate`/
`ApproveAudit`, or `RejectAudit`/`RejectGet`/`RejectUpdate`, in the order of the
code, which differs. `GateError`, `AuditAuthorizeError`, `DecisionError` and
`RunRequestError` are the error returns; `ServerRestart` and `GuiRestart` are
crashes at any point and include the purge of `McpRuntime::new`. The tools
`approve_execution` and `reject_execution` of the server always refuse
(`HUMAN_ONLY_APPROVAL_TOOLS`), so agents have no action that decides. A plan
stands for actor, connection, tool and payload, which is what
`approval_matches_plan` and the `SELECT` compare. Auditing is taken to be
enabled; when it is switched off nothing is recorded and the audit properties
say nothing.

### TracingBridge

One step per channel operation and per atomic access. An emitter (`epc`) passes
the gates, calls `try_send`, then adds to `in_flight` or `drop_counter`; the drain
thread (`drain`) receives, subtracts, looks at the sink slot, records, counts a
failure, or times out and reads `stop`. `recv_timeout` times out only on an empty
channel. `fate`, `unseen` and `before` are history. The sink may succeed, fail,
panic or hang (no fairness on `SinkStep`). Counters are taken modulo
`2 ^ Width`. The audit layer is taken to be enabled, as in the app and in the MCP
server; the driver host runs without it and has no bridge to model.

### ConnectAttempts

GPUI runs a task undisturbed between two awaits on the UI thread, so each such
stretch is one action. `pending`, `failure` and `session` are the entries of one
profile in `ConnectionManager`; `task` and `dtask` are rows of `TaskManager`, whose
cancellation also cancels the token. `astep` is the await an attempt is at: pre
hooks, resolution (pipeline path only), driver, post hooks. The two paths share
their actions and differ in `MayPrepare` (only the direct one refuses a connected
profile) and `Discarded` (only the direct one looks at its token when the driver
returns). `closing` holds the teardown threads that run. A hook phase is one step
with three results; a phase with no hooks continues even when cancelled. The
stage rows of the pipeline, which are tasks of the same kind marked
uncancellable, and the schema capture after a pipeline connect are left out.
Cancelling a running hook needs no action: a hook phase may fail or be aborted
at any time anyway.

### SessionFencing

What `ConnectionManager` keeps for one profile, and the jobs of the UI that read a
driver and write back. A job is two steps: it captures (`Prepare...`, `StartRefresh`,
`ConnectToDatabase`, ...) and later applies (`Apply...`, `...Arrives`); `job` holds
what it captured and what it took out of the session to put back. Fetches of the
list, of a schema, of table details and of views, guarded installs, clicks and
refreshes compare what they captured with the ledgers, each by the comparison of
its own function (`ListCurrent`, `SchemaCurrent`, ..., `RefreshCurrent`). The others look
at no generation: the context bar, completion, the drift preflight of a query, the
rollback of a drop, `Workspace::refresh_schema` and the capture of tables after a
pipeline connect, which knows its session by the connection object. The ledgers
restart at zero with a session and connection objects (`Handles`) may come back, so
equal values need not mean the same session. Content is abstracted to the generation
it was read in, or `Raw` if its writer looked at none. `current` says that the snapshot
names its current database: without it `resolve_connection_for_execution` sends requests
for the primary database through a slot, and a snapshot that arrives makes them
resolve to the primary connection again (`Shadowed`). `job[j].stale` is history: an
event that makes the job obsolete happened. The properties compare it with the
code's verdict.

### McpConnections

The server runs on a tokio runtime with several threads, so a step is one visit to one
piece of shared state: the cache, a setup lock, the registry of pending session
shutdowns (`registry`) or that of detached hook processes (`procs`). A tool call goes
through `get_or_connect_cached` (`LookUp`, `LockSetup`, `LookUpAgain`, hooks, dial, hooks,
`Insert`), a disconnect through `disconnect_impl` (`LockTeardown`, `Drain`, `Register`,
`ClearProcesses`, a PreDisconnect phase for each key, `TakeKeys`, `DispatchShutdown`,
`SessionsShut`, a PostDisconnect phase for each key, `FinishDisconnect`). Between `Drain`
and `Register`, and between `TakeKeys` and `DispatchShutdown`, only its local variables
hold a connection (`InHand`). `disconnect_all` runs the disconnect of each profile as
part of its own future; past the deadline `TimeOut` drops that future, at an await and
only there (`Awaiting`), and the profile is cleaned up without hooks and without the
lock. What is left in the registry is swept at the end.

A hook phase runs on a blocking thread: `HookStartsProcess` spawns a detached process
and sends its handle, which is read when the phase returns (`HooksReturn` supervises
and registers it). A phase fails before it returns (`FailsEarly`: hooks that are not
valid, a panic, supervision that cannot be started) or after (`FailsLate`: a hook
aborted, a process that does not become ready). When the deadline drops a phase its
processes are `"adrift"`; when the supervision of one cannot be started, the handles
after it are dropped and their processes are `"unsupervised"`. Nobody can reach either.
Taking processes out of the registry, terminating them and putting back those that
resist is one step (`Terminate`), as no property speaks of processes known to resist.

A dial past its deadline goes on in its thread (`late`) and is closed when it answers.
A call opens at most one connection and names it.

### ObjectTree

The coordinator is the record `tree`, and its operations (`Ask`, `AskAgain`, `Cancel`,
`DeferBehindInstall`, `Settle`, ...) are operators from one value of it to the next, as
they call each other in one handler. The events they emit queue in `tree.events` and the
sidebar handles them before the UI thread does anything else (`Quiet`), which is GPUI's
order; the events of one loop over waiters are one entry of the queue and are handled
in any order, which covers the one order of the code. `add_waiter` lists a request
once, so `waiters` is a set, and `deferred` is the database of `deferred_install`. Task and entry go together, so dropping an entry cancels its task. Whether the manager
accepts a result is not modelled a second time: `FenceIsExact` of `SessionFencing`
says that it does unless the request became obsolete, and `stale`, `invalid` and
`replaced` record that it did. A rejection because
a snapshot of the workspace shadows a slot is left out: it ends an attempt as a failed
driver call does. Above the coordinator are the migration wizard (`ConsumerRequest`, `ConsumerRetry`)
and the sidebar's table details: expanding (`EnsureTableDetails`), refreshing with a task
(`RefreshTableDetails`), cancelling the task, the Retry row, which reloads the schema
first, and the handlers of events. A failure leaves a Retry row unless the pending
action of the item was replaced meanwhile, which is a choice (`SettleTableDetails`).
`ConsumerRetry` may retry any request, table details included, which is wider than the
code: the wizard asks for lists and schemas, and what else retries details is the
sidebar's own recovery (`table_loading.rs:637`).

## 3. Runs

| Run | Instance | Shows |
|---|---|---|
| `safety` | 2 servers with one call each, 1 app, 2 requests, expiry | `OneRunPerApproval`, `GrantExclusive`, `RejectedNeverRuns`, `RejectionIsAudited`, `DecisionIsFinal` under every failure and crash; the queue implements `ApprovalSpec` |
| `governed` | 2 calls in one server with 2 payloads, settings change at restart, expiry | `RunIsAudited`; `GrantMatchesApproval`; `CallReturns`: the guard is never lost |
| `two_apps` | 2 apps | **violated** `RejectedNeverRuns` |
| `unaudited` | 1 app, failing audit | **violated** `ApprovedRunIsAudited` |
| `bridge` | 2 emitters, 3 events of 3 levels, capacity 1, 2-bit counters | `DropsAccounted`, `InFlightAgrees`, `LossIsLast`, `ShutdownReturns`, `DrainEnds` |
| `bridge_flush` | 2 events | **violated** `ShutdownFlushes` |
| `connect` | 3 attempts on both paths, 1 disconnect | `PendingHasOwner`, `TasksSettle`, `OneAttempt`, `PostHooksSeeClosed`, `DisconnectProceeds` |
| `connect_retry` | 2 direct attempts | **violated** `CancelledFinishIsNoOp` |
| `connect_pipeline` | 1 pipeline attempt | **violated** `CancelledResolutionDropped` |
| `fencing` | 2 databases, 2 jobs, 2 connection objects, 5 requests, both loading strategies with more than one database | `FenceIsExact`, `SessionOwned`, `MarkerHasOneOwner` |
| `mcp_connect` | 2 calls, 1 disconnect, the end of the server, a profile and one of its databases | `ConnectionAccounted`, `ShutdownHasClaimant`, `DispatchedOnce`, `NoneLeftBehind`, `SetupExclusive`, `ProcessesOwned`, `ShutdownReturns` |
| `object_tree` | the list, the schema of a database and the details of its table, 8 requests | `WaitersAgree`, `SpinnerHasAttempt`, `NoStrayMark`, `RefreshOutlivesAttempt`, `NeverSticks` |

Run one with `tlc -workers 2 -config MCApproval_safety.cfg MCApproval`.

Bounds. Two racing calls are the least that can share an approval, and a lost
race always involves two; two requests let one process finish a request while
another is decided; one tick is enough to expire a request at any step (a
request made after the tick never expires, one made before it does). One place in
the channel makes "full" and "empty" one event apart; three events let one be in
hand, one in the channel and one rejected; two bits hold capacity plus two, so
that a wrap is seen. Three attempts are a cancelled one, its retry and the
intruder; one disconnect can overlap each of them. A fence is about one job and
what happens between its two steps; the second job is what makes something happen
there, and five requests are two sessions, two jobs and a change, enough for a
ledger to restart and climb back to a captured value. Two calls and a disconnect
are the three parties of the setup lock; the keys are a profile and one of its
databases, so that a disconnect runs its hooks for two keys. Profiles meet only in the
sweep and in the deadline: with one profile the deadline passes at any step of the
disconnect inside `disconnect_all`, or before it; more profiles are left to the proofs. Eight requests of the object tree are two sessions, a request with
its waiters, a cancellation and a retry over a slot that comes and goes; a schema
request and a details request are two waiters of one install. Requests for
different databases do not meet, so one database is enough there. The request ids
of `safety` and the jobs and connection objects of `fencing` are symmetric; the liveness runs use no
symmetry.

Deadlock is checked for the queue, where something can always happen. The others
stop when their bounded events, attempts or requests are used up, or the server
has ended.

Fairness. Queue: tokio polls every ready future (weak fairness of a call's own
steps) and its `RwLock` is a FIFO queue (strong fairness of the steps that wait
for the guard); a handler is assumed to return; agents, people, crashes and the clock
may do anything. Bridge: the drain thread and the thread in `shutdown()` run, and
the clock reaches the deadline; nothing is assumed of the sink or of the emitters.
Connect: only the 50 ms timer loop of `wait_for_connection_teardown` is fair;
hooks, drivers and teardown threads may hang. MCP connections: the deadline's
timer and the steps of `disconnect_all` that wait for nobody; hooks, dials and session
shutdowns may hang, and other calls may stop at any point, as their tasks go with the
runtime. For the same reason nothing says that a late connection gets closed. Object tree: every driver
call returns and the UI thread handles the events it queued; users and consumers
may stop. `SessionFencing` has no liveness.

### What the violated runs say

* `two_apps`: the decision updates have no status guard (`WHERE id = ?`), so of two
  apps that looked at the same pending row the later one wins, and an approval can
  overwrite a rejection. The consumption has the guard and is safe. Two apps on
  one database are a debug and a release build side by side.
* `unaudited`: approving stores before it records, rejecting records before it
  stores. A failing record leaves an approval in force that the log does not have.
* `bridge_flush`: an event sent between the drain thread's last timeout and its
  reading of `stop` is left in the channel, uncounted, while `shutdown()` says Ok.
* `connect_retry`: markers carry no owner, so the unwinding of a cancelled attempt
  frees the marker of the retry.
* `connect_pipeline`: the token given to `run_pipeline` is not the task's, so
  cancelling drops nothing, and the attempt goes on to the driver.

Observed while modelling, without a run of its own:

* events before the sink is installed are dropped and counted, not held;
* `in_flight` may be read as the largest `usize`, also in `DrainTimeout`, while a sender
  has sent and not yet added (`InFlightAgrees` is modulo the width for this reason);
* while a refresh of the current database holds the primary snapshot,
  `prepare_database_connection` does not see that the database is the current one
  (`manager.rs:1630`): the context bar may install a slot for it, the refresh then
  finds its guard stale and drops the snapshot it holds;
* `object_tree_cancel_profile` says "call when the profile disconnects" and nothing but
  tests calls it; attempts of an ended session stay pending until their driver call returns;
* a second connect on the pipeline path replaces a live session without a teardown
  (`pipeline.rs:220` refuses only pending profiles);
* `Workspace::refresh_schema` stores what it read into whatever session is live, with no
  revision: the snapshot may be of an earlier session, and when the profile had none, a
  fetch that went through the slot of the primary database is rejected although
  its result is good (`connections.rs:384`);
* `invalidate_object_cache` (a dropped table) moves no revision, so a details fetch in
  flight is still stored for a table that is gone;
* a connect that is in flight when `disconnect_all` begins may cache its connection
  after the sweep; the process exits right after;
* a disconnect on another thread between draining and registering
  (`server.rs:1970-1976`), or between taking and dispatching (2020-2021), holds connections
  that the sweep of `disconnect_all` cannot see; `NoneLeftBehind` says these are the only
  ones. A claimed shutdown whose coordinator thread cannot be started (465-470) is lost;
* when the deadline drops a hook phase, its detached processes run on without an
  owner (`server.rs:852-866`); when the supervisor of a process cannot be started that
  process is terminated (245-246), but the handles after it are dropped (902-922).

## 4. Proofs

All theorems hold for every value of the constants that the `ASSUME`s allow.

**Approval queue** (`ApprovalAssumption`). Five theorems and the refinement assume
`SingleApp`, that at most one app decides, which `two_apps` shows to be necessary;
`TypeCorrect`, `GrantMatchesApproval`, `RunIsAudited` and `RejectionIsAudited` do not.
`OneRunPerApproval` is not inductive: it does not say that an
approved row has not run, nor that a call about to run is the only holder.
`QueueInv` adds this: `RowHistory` ties a row's status to the decisions that
reached it and to its runs, `GrantHistory` says a held approval is consumed (or
purged) and unused until its run, `GrantExclusive` that it has one holder, and
`DecidingHistory` that a row being decided is still pending or gone, which is
where two apps would break it. `DecisionIsFinal` and the refinement follow from
`QueueInv` step by step: purges and crashes map to `Lose`, the guarded update to
`Claim`, most other steps to stuttering. `GrantMatchesApproval` needs `GateInv`: a row
in status approved was approved by a person; the rows a call read as candidates
are of its plan and had not expired when it read them, whatever other calls, apps
and purges did to them since; and only a call past the gate holds one. The two
audit theorems need `AuditInv`, which adds that an app past the first step of a
rejection has its event in the log already.

**Bridge** (`BridgeAssumption`). `TypeCorrect` includes that the channel is never
over capacity. `LossIsLast` needs `BridgeInv`: events being sent are distinct
(`Sending`), what is queued or held has been sent (`Sent`) and is where its fate
says (`InBridge`), and after a timeout everything still queued is newer than it
(`SinceTimeout`). `DropsAccounted` and `InFlightAgrees` count threads and events: a
step moves one thread and one event from a set to another, and the lemmas
`ThreadCounts` and `EventCounts` say by how much each cardinality changes
(`StepMove`, `FateMove`, from the library's theorems on finite sets; an event that
is queued or held has no other fate, `Sent`). That the word keeps agreeing while it
wraps is `ModStep`, which rests on the division theorem for naturals, proved here
because the provers do not know that remainders may be taken before or after an
addition.

**Connect** (`ConnectAssumption`). `ConnectInv` is the conjunction of the four
properties with `UnusedUntouched` (an attempt not begun has no task) and
`SessionsEnd` (a session taken by a disconnect is never live again, so its
teardown cannot begin a second time while its hooks run).

**Session fencing** (`FencingAssumption`). `FencingInv` joins the properties with two
facts. `Fences`: a job that is not stale captured exactly the current generation,
connection and revisions; a job of the current session never captured a revision
ahead of its ledger, and a stale one is behind in a ledger it is compared with or was
sent through a slot that a snapshot of the workspace now hides;
generations never come back, so a job of an older session differs in its
generation whatever the restarted ledgers say. `Holdings`: what a refresh took out
of a session was read in that session or is `Raw`. `FenceIsExact` follows from `Fences` by the
comparisons of each kind of job (`FenceIsExactFollows`).

**MCP connections** (`McpAssumption`). `McpInv` conjoins the invariants of the run with what
they rest on. `LockHeld`: who is past its lock step holds the lock of its profile, which
gives `SetupExclusive`. `Placed` and `Apart`: a connection that left its call is in one
place at a time; `StepKinds` sorts the steps by how they move connections (cache to
hand, hand to registry, registry to hand, hand to claimed), and a connection only
moves on in this order, which gives `ConnectionAccounted` and `DispatchedOnce`.
`EndInv` says where the connections of `atEnd` are until the sweep: claimed, registered,
in hand, or cached under a profile that `disconnect_all` has still to empty; at the
sweep no profile is left, and `NoneLeftBehind`, an action property, follows. `HookKeys` ties
the keys whose hooks are to run to what was drained, and `ProcessesOwned` then needs
only what each step does to the processes of one key or profile (`ProcessEffects`).
`MainPhase` says where `disconnect_all` is in each phase.

**Object tree** (`TreeAssumption`). The properties hold between handlers, and events
are handled one at a time with the tree already changed, so none is inductive.
`TreeInv` says what holds while events wait: `WaitersAgree`; `AttemptsHaveSessions`
(an entry without a session is no entry); `MarkHasEvent` (a mark is for the very
next event, a cancellation of one request); `AskedHasAttempt` (a table asked for
has an attempt, or an event waits for it that the sidebar will not ignore);
`RowsAgree`. The proof has two parts. The first takes the operations of the
coordinator one by one, on any sound state: `Advances` says that the result is
sound, events are only added, and every attempt goes on, is begun in this session
or is told to have ended, and it composes (`AdvancesTrans`), so that `AskAgain`
follows from `Cancel` and `Ask`, and `InstallArrives` from `Release` and `Resume`.
The second part is a lemma for each kind of step. The delicate case is a refresh whose new
attempt ends at once: the event for it comes after the cancellation that the
sidebar ignores, never instead of it (`Replaces`). `RefreshOutlivesAttempt` is an
action property and needs only the type invariant and a case for every action
(`RowEnds`). TLC agreed on `TreeInv`, `GateInv` and `AuditInv` on the instances of
the runs, and on `TreeInv` also with two databases, before they were proved.

Every invariant and action property that a passing run checks is a theorem. Only
model-checked are the liveness properties (`CallReturns`, both `ShutdownReturns`,
`DrainEnds`, `DisconnectProceeds`, `NeverSticks`): fairness is stated
with `ENABLED`, which is out of the prover's reach.

## 5. Plan

1. Done: approval queue with its abstract specification; tracing bridge; connect
   attempts; session fencing; connections of the MCP server with the connect
   deadline; object tree with the sidebar's table details.
2. Proofs: done for every safety property of the runs. Left: what two apps still
   guarantee (the runs of an approval without `SingleApp`), and the refinement of an
   abstract specification of the object tree.
3. `PolicyEngine`: `evaluate` as an operator, against a reference definition over
   small sets of roles, policies and assignments; it then gives `ApprovalQueue`
   its verdicts.
4. `ShutdownCoordinator`: phases and timeouts of the app's end.
5. The execution session of a document: transaction, cancellation, close.

Not modelled, and why: drivers, transfer and export, the IPC encoding, the script
runtimes and the user interface are conversions, vendor calls and rendering, with
no protocol of their own that a small model would explore; see `components` in
`PROJECT.json` for each. They are most of the repository's lines, which is why the
modelled part is a small share of it.
