# AgentGraph OS: a TLA+ development

AgentGraph OS is a local modular monolith: one Core process (FastAPI on one asyncio
event loop) with its state in SQLite. Almost everything that can go wrong in it goes wrong
between two awaits: a stop meets a start, a timeout meets an answer, the process dies
between two commits, a row read by one request is changed by another. These modules model the parts of `backend/agentgraph` in which that
matters, check them with TLC on small instances and prove the main results with TLAPS.

Paths below are relative to `src/backend/agentgraph`.

## 1. The system

| Component | State | Operations | What is hard |
|---|---|---|---|
| AgentManager, RunRegistry (`services/manager.py`, `runtime/registry.py`) | agent and run rows; in memory the registered tasks, one lock per agent, one terminal lock per run | create, update and delete an agent; start, execute, finish and stop a run; shutdown; recovery at startup | a run is ended by its own task, by any number of stops, by shutdown or by a restart; reads and writes are separate steps |
| Recovery (`services/recovery.py`) | checkpoints, action ledger, recovery decisions | written in the manager's and the tool service's transactions; assessed at startup | evidence must match what happened, whatever the point of the crash |
| Team runtime (`runtime/team.py`, `run_child`) | the waves of a DAG, a semaphore, one task per worker, one child run per worker | schedule a wave, start and await a child, drain after a failure, recursive stop | cancellation travels down (parent, worker, child) and up (child, worker, parent) |
| Team graph (`domain/orchestration.py`) | none | parse and validate | the cycle search |
| Lexi and tools (`runtime/lexi.py`, `services/tools.py`) | invocation rows, ledger entries, launched applications | decide, request, wait for approval, execute, complete | the effect is outside every transaction |
| Approvals (`services/remote.py`) | requests and futures, in memory | create, decide, wait, expire, cancel | a timer races a decision and a stop |
| Worker nodes (`services/nodes.py`, `api/workers.py`, `worker.py`) | node rows; in memory sessions, queues, pending probes, recent task ids | enroll, connect, disconnect, heartbeat, probe, enable and disable | two sockets of one node; late results; stale liveness |
| Vision (`services/vision.py`) | asset files and rows, analysis rows, the queue's tasks | upload, delete, submit, execute, shutdown, recover | files and rows have no common transaction |
| Event bus (`runtime/events.py`) | bounded history, bounded subscriber queues | publish, subscribe | a full queue drops events |
| Agent catalogue and memory (`services/manager.py`, `services/memory.py`) | agents whose graphs name each other, memory records, the memories each run used | create, update and delete agents; create, search, delete memories; record usage | every agent has its own lock, and a graph is about several |
| Authentication (`services/auth.py`) | the bootstrap secret's file; users, challenges, devices, sessions, second factors | bootstrap, register and sign in with a passkey, enrol and verify a second factor, log out; trust and revoke devices | a challenge is good once; a revocation meets a sign-in |
| Security administration and vault (`services/security.py`, `services/vault.py`) | the lockdown state, approvals, grants, credentials | create and decide approvals, revoke grants, activate and lift lockdown, create, replace and revoke credentials | the check of the lockdown and the change it admits are two transactions |
| Model router and providers, HTTP routes, schemas, frontend | none of their own | translation and I/O | |

The manager calls the runtimes from the run's task (`_invoke_runtime`); the team runtime
calls back into the manager through `run_child` and `stop_run`; Lexi calls the tool
service, which calls approvals and recovery. Everything publishes to the event bus, whose
`publish` never suspends and so adds no interleaving. `create_app` (`app.py`) runs recovery
before the first request and shuts the services down after the last one. The middleware of `app.py`
authenticates a request (AuthSessions) before its route runs.

`PROJECT.json` lists the components with their status and, under `hazards`, the places
where this code is hard to test, each with the properties that watch it.

## 2. Modules

    RunContract          what AgentManager promises about run rows (abstract)
      ^ refined by
    RunLifecycle         manager, registry, checkpoints, shutdown, crash, restart
      RunLifecycleInv    its inductive invariant
        MCRunLifecycle       for TLC
        RunLifecycleProofs   theorems
    TeamContract         what a team run promises about rows (abstract)
      ^ refined by
    TeamRun              one team run with its workers and child runs
      MCTeamRun              for TLC
    TeamGraph            parse_team_graph and its cycle search
    TeamPipeline         TeamGraph and TeamRun composed: definition, parser, run
      MCTeamPipeline         for TLC
      TeamProofs             theorems about TeamRun, TeamGraph and TeamPipeline
    ToolApproval         one Lexi run with its tool calls (checked as it is)
      ToolApprovalProofs     theorems
    SessionContract      what a session of a worker node promises its probes
      ^ refined by
    WorkerSessions       worker nodes: rows, sockets, sessions, probes (checked as it is)
      WorkerSessionsProofs   theorems
    VisionContract       what VisionService promises about its tables (abstract)
      ^ refined by
    VisionQueue          image files, rows, analyses and their tasks (checked as it is)
      VisionQueueProofs      theorems
    AuthSessions         users, challenges, devices, sessions, second factors
      MCAuthSessions         for TLC
      AuthSessionsProofs     theorems
    SecurityAdmin        lockdown, approvals, grants, vault
      MCSecurityAdmin        for TLC
      SecurityAdminProofs    theorems
    AgentCatalog         agents that name each other, memories, usage
      MCAgentCatalog         for TLC
      AgentCatalogProofs     theorems

**Granularity.** One action is what the event loop runs between two awaits that can let
somebody else in, or one database transaction. `aiosqlite` opens a transaction at the first
write, so a `SELECT` and the `UPDATE` that depends on it are two steps, and everything from the first
write to the commit is one. The ORM writes back the columns that were assigned and no others, so a stale
row overwrites only those. An exception is
`_start_run`, whose `BEGIN IMMEDIATE` makes check and insert one step. A commit that is with
the database thread when its task is cancelled may or may not happen; both are modelled.

### RunLifecycle

Rows are the functions `agentStatus`, `agentGraph`, `runStatus`, `owner`, `spec`, `trail`
(the reasons of a run's checkpoints, in order) and `decisions`; `Die` keeps them and clears the
rest. `starting` holds the runs that `_start_run` has committed and not yet registered;
`task` is the control point of `_execute_run`; `cancelled` says that a `CancelledError` will
be thrown at the task's next step. The three `_finish_*` methods have one model
(`CallFinish`, `FinishRead`, `FinishWrite`, `EndFinish`) with the caller as a parameter: the run's own task, a
caller of `stop_run`, or shutdown.

- `TaskMarkRunning` updates the row by primary key whatever its status is by then, as
  `_mark_running` does; `CanMark` is the partial unique index `uq_agent_runs_active_agent`.
- A coroutine that is cancelled before its first step never enters its `try` block
  (`TaskCancelledUnstarted`): nothing is finished and the handle stays in the registry.
- The event loop delivers a cancellation before it can fire a timer that was set after it, so
  `StopTimesOut` and `ShutdownCollect` need the run outside `cancelled`.
- `Resistant` lets a runtime swallow a cancellation, `StopTimeout` lets a cancellation outlast
  its timeout, `EarlyStop` lets clients stop a run whose `start_run` has not returned (they
  can learn its id from the list of runs).
- Shutdown begins when the server has drained its requests.
- `DeleteAgent` is one step, check and `DELETE`; AgentCatalog takes them apart.

### RunContract

Run rows only: queued, running, ended; the outcome is written once (which takes `~EarlyStop`, see section 4); one active run per
agent; a restart fails all active runs at once. `ImplementsContract` is the refinement; the
mapping is the identity on `runStatus` and `owner`.

### TeamRun

The parent's task (`pc`), one `_run_node` task per worker (`node`, with `clean` for its
`stop_run` call), one child run per worker (`child`, `ctask`) and clients that stop the parent or a
child (`spc`). `asyncio.wait(FIRST_EXCEPTION)` returns early for an exception but not for a
cancelled worker; cancelling a `gather` cancels its workers once more and still waits for
them; `shield` keeps a child alive when its worker's wait times out. Child runs are leaves: no nested teams.

Between a child and its stops nothing is taken from RunLifecycle's theorems, since a team reaches the start window without any early client: a
stop of the parent finds a child that is committed and not yet registered. So the finer steps of the manager are here as well. A stop that finds no task
(`FindsNoHandle`) fails the row in a step of its own (`blind`, `FailsRow`); `_mark_running` reads (`ChildReads`, which enters the child into `due`) and
writes (`ChildRuns`) in two steps, and the write does not look at the status again. `late` is a history variable: the children whose task
runs although their row had been failed.

### TeamGraph

`Read` is the checks on the two lists (those on single fields, types and lengths, are abstracted into
`WellFormed`), and the rest is the depth-first search of `_ensure_dag`, one call of `visit` at a time: `path` is the
stack of the calls under way, `at` how far each of them, and `_ensure_dag` itself, is in its loop, `visiting` and `visited` are the code's sets.
`Visit` calls `visit` for the next id of the innermost loop (a node in `visiting` is a cycle, one in `visited` returns at once),
`Return` ends the innermost call, `Accept` the outermost loop. The reference definition, `Schedulable`, is what the waves of `_run_graph` need.
The search has no await; it is cut into steps because its recursion is what the proof is about.

### TeamPipeline

The composition: `ParseDefinition` takes TeamGraph's parser through any definition, `Invoke` runs an accepted one as
`runtime/team.py` does, and `RunTeam` is TeamRun's `Next`. What TeamRun assumes of its
edges is thereby what the parser lets through. `PipelineInv` joins the two invariants.

### TeamContract

The parent's status, its children's, and `due`, the children whose start is under way. A child run is born while the parent runs and after its
predecessors have succeeded; it runs at most once (`Begin`, `Run`) and its outcome stands, except that one that was failed while its start was under way may run
after all; and the parent ends once, as succeeded only when every worker has. `ImplementsTeamContract` is the
refinement, with the identity as mapping; TeamRun's `Children` maps each child to a run of RunContract, whose promise then
holds of the children too, but for that one step (`RunsLate`).

### ToolApproval

One Lexi run and its calls: decision, invocation row, approval, ledger intent, ledger start,
launch, completion of the row and then of the ledger, with a stop or a crash possible at every
await. `approval` and `pc` die with the process; `inv`, `ledger`, `effects` and `run` stay.
The timer of `wait_for` may beat a decision the task has not seen yet: the call is then expired
although the request reads approved. Telling the time has no await, so it is done when the ledger says
started. Requests with `expires_at` (remote API only) are not modelled.

### WorkerSessions

The Core's side of the worker protocol. `status`, `enabled` and `fresh` are the node rows and survive
`RestartCore`; `conn`, `queue` and `pending` are `NodeService`'s sessions, each named by the
socket that opened it; `spc` is the handler of a socket, which goes on reading and writing after its session
was replaced or dropped, because only its own node id ties it to one. `disconnect` is two steps: `PopSession`
under `_lock`, `TakeOffline` under `_database_lock`. `mark_stale_offline` is three and takes no lock for
its rows. A worker may be lost at any time and may open its next socket before the Core has noticed.
Locals of a handler or a call that has returned are reset.

### SessionContract

A node has at most one session, begun by a connection and gone when that connection's handler returns at the latest; a probe is entered into the
session its node has, is told in the same step when that session goes, and ends once. Rows, queues, messages and the worker itself do not show. The mapping of
`ImplementsSessionContract` reduces the control points of handlers and calls to what their callers see: `Handlers` is new, serving or returned, `Answers` a probe's future until the
call is over.

### VisionQueue

`files`, `assets`, `content`, `row` and `subject` are disk and database; `upc`, `dpc` and `spc` are the requests, `tpc` and
`line` the tasks of `_execute_analysis` and the semaphore's queue, `phase` the lifespan. A file is named by the digest
of its content, so two uploads of one image want the same file: the exclusive creation decides, and the loser
fails. `create_asset` writes the file before the row, `delete_asset` removes it after the row. Each of their steps may fail: the write before the file is created
or after (`WriteFails`; a file that was written in part is a file without a row), the `INSERT` or its commit (`InsertFails`), the `DELETE` (`DeleteFails`), the unlink (`UnlinkFails`). None of these
is cleaned up by the code. Only here does the database fail; elsewhere a transaction that fails changes nothing. Two history variables: `robbed`, the images whose file was removed by a deletion
that had found its row already deleted (`"late"`), the one way a row loses its file; and `spoiled`, those whose file such a failure or a crash has left without a row. `Cancelled` and the shutdown steps
give a cancelled task every point at which `CancelledError` can reach it, the commit in flight included.

### VisionContract

The two tables: contents of assets are distinct, an analysis is queued on an asset that is there, one runs at a time, each has
one outcome and goes with its asset. The mapping of `ImplementsVisionContract` hides the contents of assets without a row and the asset of an analysis
without one.

### AuthSessions

One row of each table is one member of a sequence or set; `req[r]` is a request with what it has read so far. Bootstrap,
registration, sign-in, step-up, enrolment, trust, revocation and logout are each cut at the `SELECT`s whose answer they use
later. `secretFile` is the file of the bootstrap secret, which is deleted after the commit: a crash in between
leaves the file, which no bootstrap can use as long as a user exists. Verification by the WebAuthn library is a choice
of outcome, and so is every comparison with an expiry time. In the code these comparisons may also fail: SQLite's `DateTime` drops the offset, so that a row read back has a
naive `expires_at`, and `services/auth.py:219`, `:342` and `:353` compare it with an aware time, which raises a `TypeError`. (`services/nodes.py:333` puts the
offset back, these places do not.) Such a request ends without having written anything, so the model, in which the comparison always has an answer, has every behaviour of the code that
changes state: its safety results stand, and it says nothing of requests that should get through.

### SecurityAdmin

`require` and the change it admits are two transactions, as in the code; `CreateState` is the lazily inserted
row of the lockdown state, whose primary key refuses the second of two inserts. A decision
and its grant are one transaction, which a missing task rolls back. Grants carry two history fields: `old`, that a lockdown was
activated since they were inserted, and `locked`, that their request was admitted during one. The comparison of `services/security.py:165` is taken as in AuthSessions: it has an outcome, where the
code may raise a `TypeError` before it has changed anything.

### AgentCatalog

`graph[a]` is the set of agents that a's team graph names, `lock[a]` the asyncio lock of a; `run[a]`, `shown[a]` and `links[a]` follow Lexi's memory
step. Validation and commit of a graph are two steps, and so are the scan and the `DELETE` of `delete_agent`. `raced` is a history variable: the
agents whose deletion overlapped the commit of a graph that names them. `Cascade` is what the foreign keys do.

A run may be stopped in its start window here too: `Overtake` fails the queued row of a task that has read it as active, and counts it in `overtaken`; `Revive` is that task's
unconditional `UPDATE`, which turns the failed row back, is refused by the unique index, or finds the row deleted. `revived` is a history variable: the agents whose run
came back while a deletion was past its check for active runs. A task that goes on behind a failed row without reviving it is not followed.

## 3. Runs

| Run | Module | Bounds | Shows |
|---|---|---|---|
| lifecycle | MCRunLifecycle | 2 agents, 2 runs, 2 stoppers, 1 graph, 2 restarts; resistant runtimes and stop timeouts; symmetric ids | the inductive invariant (with the types and the match of checkpoints and rows), agreement of agent and run rows, quietness of ended runs, refinement of RunContract (finality of outcomes, one active run) |
| runs_end | MCRunLifecycle | 1 agent, 2 runs, 1 stopper, 1 restart; early stops, resistant runtimes, no stop timeout | at most one active run per agent although `_mark_running` is unconditional; success and cancellation stand for good, and only a pending `_mark_running` takes a failure back; every run ends |
| terminal_race | MCRunLifecycle | 1 run, 1 stopper, early stops | **violated**: an ended run becomes running again |
| team | MCTeamPipeline | every definition of up to 4 nodes and 4 edges (the limits are 3), every accepted team of 3 workers run, 2 in parallel, 1 stopper; 2.2 million states | the parser accepts exactly the schedulable graphs; refinement of TeamContract (completeness of success; one outcome each, unless failed in the start window), no deadlock, parallelism, workers settle before the parent |
| team_ends | MCTeamRun | smaller instance of the run alone | the parent ends although no child answers |
| tools | ToolApproval | 3 tool calls | the inductive invariant (with the types), approval, evidence, conservative recovery, finality of decisions, the run ends |
| workers | WorkerSessions | 1 node, 2 sockets, 1 call, 1 administrator, 1 restart, 1 session, 1 task, 1 message | pending probes are exactly the waiting ones; refinement of SessionContract (no session outlives its handler, no probe is left in a session that is gone); disabled nodes lose their session; silent nodes go offline |
| vision | VisionQueue | 1 image, 2 uploads or scans of 2 files, 2 deletions, 2 submissions at once, 3 analyses, queue of 1, 1 shutdown, 1 crash; 1.4 million states; any write, `INSERT`, `DELETE` or unlink may fail | files and rows agree, an orphan is the work of a failure or a crash, every active analysis has somebody to end it, the queue's overshoot, nothing active after shutdown, refinement of VisionContract (outcomes are written once, no analysis without its asset) |
| vision_ends | VisionQueue | 1 upload, 1 deletion, 2 submissions, queue of 2, 1 shutdown, 1 crash | every analysis ends |
| auth | MCAuthSessions | 2 requests at once, 2 users, 2 challenges, 2 enrolments; 0.6 million states | a challenge makes one session, a revoked device is signed out, overlapping bootstraps are bounded, revocation is final |
| security | MCSecurityAdmin | 2 requests at once, 2 approvals, 1 credential name; 1.2 million states | an approval has exactly the grant its decision calls for, lockdown revokes and refuses grants, what is revoked stays so |
| catalog | MCAgentCatalog | 2 agents, 2 requests at once, 2 memories, 1 task per agent about to revive a failed run; 1.8 million states | only an overlap leaves a dangling graph, a deletion takes an active run with it only if that run was revived past its check, the usage record is complete |

**Why the bounds are enough.** Two runs of one agent compete for its active slot; two
agents separate what belongs to an agent from what belongs to a run; two stoppers race each other as well as the
task; two restarts let a recovered run meet a second crash. Three workers with two
permits make a worker wait for a permit while another fails, and give every shape of DAG with
a join, a fork and a chain; four edges exceed the limit and repeat an edge. Three tool calls put a finished call before, and a blank one
after, the call that is cut off. Two sockets of one node are what replacement and late cleanup
need; other nodes matter to it only through the number of sessions they hold. One image is enough for files and rows, since different images meet nowhere;
two requests of each kind make every pair of them overlap, and with a queue of one the third analysis finds it full after an overshoot. In `auth`,
`security` and `catalog` every hazard is a stale read, which takes two requests: one reads, the other changes, the first writes. A second challenge gives a
user a second device or a device a second session, two approvals keep their grants apart, two agents may each be
a team of the other. Every safety property of the passing runs
is also proved for all values of the constants, so there TLC's bounds serve to find errors early
and to show that the interesting states are reached.

`TypeOK` of every module documents its state and is the first part of its inductive invariant. `lifecycle` and `tools` check that
invariant itself (`IInv`, `TInv`). The `IInv` of the other modules was checked with TLC on the instances of their runs (TeamRun with three workers, with and without stop timeouts, `WaitsInv` and `PipelineInv` on the instance of `team`, `AnswersInv` on that of `workers`, `RewriteInv` on that of `runs_end`) before it was proved; there the runs check the properties that follow from it.

Deadlock is checked in `auth`, `security` and `catalog`, where some request can always arrive. In the other runs the system may stop: the number
of runs, calls, files or restarts is bounded, or a team has one life.

**Fairness.** Weak fairness of every task step, `_finish_*` step and stop step: the event loop runs
what is ready and fires its timers. `RunLifecycle!FairSpec` also assumes that a runtime call ends (provider calls
have timeouts) and that the process is started again after a crash. `TeamRun!FairSpec` assumes only that a
*cancelled* child lets go; a live one may be silent forever. `ToolApproval!FairSpec` assumes nothing of the user.
`WorkerSessions!FairSpec` assumes that a connected worker sends heartbeats (`worker.py:118`), that the Core notices a lost
connection (websocket keepalive) and that the liveness loop runs; no worker need answer or reconnect. Restarts are bounded, because
a Core that restarts forever before its first sweep never sweeps. `VisionQueue!FairSpec` assumes that submissions, tasks and shutdown go on, that the provider answers or times out, and that
a stopped process is started again; it asks nothing of uploads and deletions. AuthSessions, SecurityAdmin and AgentCatalog have no liveness: a request may always be the last.

The `team` runs have no stop timeouts: after one a worker gives up its permit while its shielded child still lives,
and `BoundedParallelism` does not hold. Even so it leaves out the `late` children: the stop that failed the row let the worker go with its permit, and the task then runs beside those the
limit counts.
With stop timeouts `EveryRunEnds` fails: a task can be cut off inside its own `_finish_*` call
by a stop that then times out, and the run stays active until a restart. This is the case that
`docs/phases/PHASE_02_BACKEND_CORE.md:171` announces, so the run excludes it.

## 4. Findings

**terminal_race.** `stop_run` between the commit of `_start_run` and the registration of the
task finds no handle and writes `failed`. The task, registered meanwhile, has read the row as
queued and marks it running by primary key (`services/manager.py:396`), against its own guard two lines above.
Stopping a team parent can hit a child in this window without any client being early. `OnlyFailedRunsRevive` says how far this goes, early stops included: nothing else is ever taken back. The
consequences are followed where they fall: for a team in TeamRun (`due`, `late`), for the deletion of agents in AgentCatalog (`revived`).

**What the models show not to hold.** These are definitions of their modules, or weaker than what one would like to say, and
no run of the project checks the stronger form:

- `ExecutesRecordedSpec` (RunLifecycle). `_execute_run` reads the agent again (`services/manager.py:361`); the recorded, "immutable" specification
  (`docs/architecture/RESILIENCE_AND_RECOVERY.md:9`) is never read back.
- `StoppedChildFailsParent` (TeamRun). A stopped child cancels its parent; `docs/architecture/MULTI_AGENT_ORCHESTRATION.md:19`
  says that it fails the parent.
- `NoOrphans` (TeamRun). A worker cancelled between the child's commit and `run_child`'s `try` block leaves
  the child queued after the parent has ended, against line 20 of the same document.
- `OnlineIsConnected` (WorkerSessions). Disabling drops a node's session (`services/nodes.py:168`) but not its socket. Enabled again before the
  next heartbeat, the node reads online while nothing makes the worker reconnect, and probes fail until the socket
  breaks; `docs/PHASE_09_MANUAL_ACCEPTANCE.md:27` says re-enabled workers reconnect. The same state is reached when
  a worker reconnects before the Core has noticed the loss of its old socket: the old handler's cleanup
  (`api/workers.py:73`) disconnects by node id and drops the new session.
- `RowHasFile` has an exception, and so has `OrphansComeFromFailures`, and `OvershootIsBounded` has an allowance (VisionQueue): a second
  deletion may remove the file of a new upload; a failing write (`services/vision.py:324`), `INSERT`, commit or unlink, or a crash between file and row, leaves a file that blocks every later upload of
  the image; and the limit of the queue is checked before the task exists.
- `RunningAgentsExist` (AgentCatalog). "An active run prevents deleting this agent" (`services/manager.py:125`), but a failed run may come back between
  that check and the `DELETE`, whose cascade then takes it; `OnlyRevivedRunsLoseAgents` says that no other is taken.
- `BootstrapsAreBounded` (AuthSessions) is not "one owner": overlapping bootstraps each insert one.
- `LockdownRevokesGrants` (SecurityAdmin) is not "no active grant during a lockdown": a decision admitted just before the activation
  still inserts its grant.
- `DanglingNeedsARace` (AgentCatalog) is not "no dangling graph", for the reason its name gives.

**Lesser hazards without a property**, which the models contain where they contain the code: a task cancelled before its first step keeps its
handle (`runtime/registry.py:14`; harmless, a stop of that run finds the task done); the invocation row of a read-only tool says succeeded before the tool
has run (`services/tools.py:98`); a stop between the creation of an approval request and the wait for it leaves the request pending (`services/tools.py:118`;
deciding it has no effect); a busy worker sends no heartbeat (`worker.py:122`; `Age` covers the consequence); the registration challenge of the bootstrap may expire after the
secret is gone (`services/auth.py:84`); two sign-ins write their sign counts in the order of their commits (`services/auth.py:197`); a crash between creation and write leaves an empty secret or key
file (`services/auth.py:408`, `services/vault.py:40`); a full subscriber queue loses events (`runtime/events.py:34`).

## 5. Proofs

Every safety property a passing run checks is a theorem, the action properties and the refinements included; liveness is not. Each module has an inductive
invariant, defined in its last section (RunLifecycle's in RunLifecycleInv) and proved with one lemma per action or per group of
actions that disturb the same part of it. None of the properties is inductive by itself; what follows says what had to be added. The only assumptions are
those of the modules (`ConstantsAssumption`, `TeamAssumption`, ...): sets of actors are finite where they are counted, bounds are
numbers, ids of different kinds differ.

**RunLifecycle** (`RunLifecycleProofs`). Except for `OneActiveRun` and `OutcomesStand` the theorems assume `~EarlyStop`, an assumption the
code does not enforce: with early stops outcomes are not final (section 4), and the invariant, which says they are, is false.

- `Invariance`: `Spec => []IInv`. The core is `TasksAhead`:
  whoever may end a run while its task lives has first put a `CancelledError` in front of every step
  the task could still take towards `_mark_running`'s unconditional write. `WritersExclusive` is the terminal lock: one
  writer per run, and what it read is still true. `StartersAlone` says nobody
  touches a run in its start window, `TasksMatchRows` ties control points to rows, `OwnersExist` ties
  run rows to agent rows, `EndsStay` makes what a returned call has seen stable.
- `TypeCorrect`, `AgentStatusCorrect`, `EvidenceCorrect`, `CancelledQuiet`, `EndedQuiet`,
  `FinishEnds` follow from it.
- `Refinement`: every step of `Next` maps to a step of `RunContract` or leaves the run rows alone.
- `OneActiveRun` holds without `~EarlyStop`, from the smaller invariant `SlotInv`: the check of `_start_run` and the unique index need nothing of the
  tasks, only that a `_finish_*` call under way writes an ended status.
- `OutcomesStand` holds without it too: whatever is stopped and when, success and cancellation are never rewritten, and a failure only by the
  task that was about to mark the run. `RewriteInv` is the invariant: a caller about to write is alone with what it read, by the terminal lock; a task at its `UPDATE` finds
  a row that is active or failed (`MarkersFindFailures`), because success and cancellation are written only for a run whose task is past its `UPDATE`, and a stop that
  finds no handle writes "failed"; and nothing of the process outlives it (`DownIsEmpty`).

**ToolApproval** (`ToolApprovalProofs`).

- `ToolInvariance`: `Spec => []TInv`. `CallAt` says what has been written for the current call at each control point of
  `ToolService.execute`: the evidence is ahead of the effect wherever the task can be cut off.
- `ApprovalRequired`, `EvidenceComplete`, `RecoverySound` follow; `DecisionsStand` is the action property
  on decisions.

**Teams** (`TeamProofs`). In TeamRun `WavesInv` says that a worker outside the wave is collected or has not begun, and that one that has begun found its predecessors
collected; `WorkerInv` ties a worker's control point to its child; `OutcomeInv` ties the parent's outcome to both. `SuccessTakesAll`, `DependenciesComeFirst` and `WorkersSettle`
follow. `MarkInv`: a child about to be marked running has a task, and its row is queued or failed. Hence `ChildOutcomesStand`, an action property: a child that has succeeded or was
cancelled stays so, and a failed one changes only by the pending write of its own task.

- `SemaphoreHolds`: no more workers than permits hold one. That does not bound the children: a second `CancelledError` drives a worker off its cleanup and
  leaves a child with its task behind. `ParallelismIsBounded` holds all the same, because `SemaphoreInv` says that then every
  worker on its way to a child has a `CancelledError` in front of it. It assumes `~StopTimeout`, for the reason given in section 3.
- `AlwaysSchedulable`: on an acyclic graph of any size the scheduler always finds a worker.
- `NeverStuck`: no deadlock, for any number of workers on however small a semaphore. `WaitsInv` adds to `IInv` that whoever waits has something to wait for; a worker
  queued for the semaphore then waits for a holder that can go on, a `gather` for a worker that can, and a call of `stop_run` for a task that was cancelled. With fairness, and
  since nothing goes back, this is why `TeamEnds` holds. The guards in `ParentMayStep`, `WorkerMayStep` and `CallerMayStep` are those of the actions; they stand for
  `ENABLED`, about which TLAPS proves nothing, and TLC finds the two equal on the states of run `team`.
- `Refinement`: steps of a child's task or of `stop_run`, of a worker, and of the parent are each a step of TeamContract or leave the rows
  alone. `ChildrenKeepRunContract`: what TeamContract lets happen to a child is what RunContract lets happen to a run, or it is the late start of a failed one.
- `ParserIsExact`: `Spec`'s half of the argument rests on the edges being schedulable, and this is the parser's half. The stack of calls is a path of the graph
  without repetition (`PathInv`), so that meeting a node in `visiting` closes a cycle, whose nodes no schedule can begin with; the visited nodes are closed under edges, and
  any set of them has a member that no other leads to (`VisitedInv`): the node added last is the only one that could spoil it, and its successors were all there before it;
  what a loop has passed is visited or is the call the loop waits for, so that at the end everything is visited (`Wanted` within `Reached`). No induction
  over data is needed, since the search is a state machine and its invariant does that work.
- `PipelineInvariance`, `ParsedTeamsGoOn`, `ParsedTeamsKeepPromises` and `PipelineRefinement` put the two together, from the definition to the end of the
  run: a team that was parsed always has a worker to schedule, is never stuck (`ParsedTeamsNeverStuck`), and keeps the contract. `VisitDepth`: the recursion is no deeper than the limit on workers.

**WorkerSessions** (`WorkerSessionsProofs`). `HandlersKnowTheirNode` (a handler has its node id as long as it runs) and
`ProbesKnowTheirSession` make `NoProbeForgotten` and `SessionsHaveHandlers` inductive: a session is dropped with its probes, by its handler's end at the latest. `LimitsAreKept` has
no margin, since test and entry are one step.

- `AnswersComeBack`, an action property: `receive_result` looks a task up in whatever session the node of the answering socket has by then, and `AnswersInv` shows why that
  cannot give a probe somebody else's answer: a request, a message in flight and an answer name a call only on the socket the call was sent through
  (`MessagesKnowTheirCall`), and a call sent through a socket is in that session or in none.
- `Refinement`: `HandlersStay`, `HandlerMoves` and `AnswersStay` say what of a step shows, `LostAreTold` that `_fail_pending` reaches exactly the probes whose session goes, which is
  `PendingIsExact`; that the end of a handler leaves no session of its own is `NoGhostSession`. One lemma per step of the contract, and `NextIsContract` joins them.

**VisionQueue** (`VisionQueueProofs`). The invariant has two halves that share little state. `FilesInv`: rows, uploads that have written and
deletions that have dropped the row lay claim to the file of their image, and `ClaimsAreExclusive` says that an image has one claim, which exclusive creation
brings about, so that an unlink takes nobody else's file unless it comes late. An orphan is opened only by a step that enters its image into `spoiled` (`OrphansOpened`); a request that is still
between file and row accounts for the others. `TasksInv`: the statuses possible at each control point of a task,
which analyses shutdown still has to mark, and that a submitter counts towards the queue before its task does. `RowsKeepTheirFiles`, `OrphansHaveCauses`, `ActiveRowsAreOwned`, `QueueOvershoot`,
`ShutdownSettles` and the action property `OutcomesStand` follow.

- `Refinement` needs one more invariant, `AnalysesHaveAssets` (the foreign key), and three lemmas on what a step can do to the tables: `RowsMove` to the statuses,
  `SubjectsStay` to an analysis's asset, `ImagesMove` to the assets. That one analysis runs at a time is the semaphore, through `ActiveRowsHaveOwners`; that stored contents are
  distinct is the unique index; that a late deletion does not show is `AnalysesHaveAssets` again.

**AuthSessions** (`AuthSessionsProofs`). `SessionsFollowChallenges` is a correspondence of used challenges and sessions, one to one, that the conditional
`UPDATE` establishes; `RequestsKnowTheirRows` says that the rows a request has read are still there, though not what is in them. `ChallengesAreUsedOnce` (which counts sessions) follows
by the correspondence; `RevocationSignsOut`, `OwnersAreBounded` and the action property `RevocationsStand` need only that stale rows overwrite no revocation.

**SecurityAdmin** (`SecurityAdminProofs`). `GrantsFollowDecisions` is the correspondence of task-scoped approvals and grants, and no
request was admitted during a lockdown. `GrantForEachDecision`, `LockdownHolds` and the action property `RevocationIsFinal`.

**AgentCatalog** (`AgentCatalogProofs`). A request that has read an agent holds its lock; while `delete_agent` is between its scan and its
`DELETE`, a graph that names the agent was committed since the scan, and the agent has no run but one that was revived since the check. `NoDanglingWithoutRace`, `OnlyRevivedRunsAreCascaded` and `UsageOnRecord`.

**Only model-checked:**

- Liveness (`EveryRunEnds`, `TeamEnds`, `LexiRunEnds`, `DisabledLosesSession`, `SilentGoesOffline`, `AnalysesEnd`): TLAPS does not do fairness here.
- That the search of TeamGraph ends: TLC's runs end, and the proofs say what is true whenever it has.

## 6. Not modelled, and the plan

The models leave out: payloads, prompts and model output; checksum validation (nothing in the program
damages a checkpoint); nested teams; events and audit rows (they are observations; audit rows are written in the transaction of
the change they record); HTTP schemas; cryptography, the contents of key and secret files; expiry of sessions; the frontend. Of whole components:

- `RemoteCommandService` dispatches to operations that are modelled where they are implemented and keeps no state.
- The event bus drops what a full queue cannot take, and nothing the program decides depends on an event.
- Workflow runtime, selector, model router and providers are I/O around one call, which appears as a step that
  succeeds, fails or times out.
- `register_folder` and `ensure_core` insert rows that no modelled decision reads.

What remains is outside the provers' reach and stays with TLC: the liveness properties. `WaitsInv` (TeamRun) and `NoGhostSession` (WorkerSessions) are the invariants behind
two of them: somebody who waits always has somebody to wait for, and the session of a disabled node has a handler that finds out and drops it.
