---------------------------- MODULE RunLifecycle ----------------------------
(***************************************************************************)
(* The life of an agent run in the Core process: AgentManager              *)
(* (services/manager.py), RunRegistry (runtime/registry.py) and the        *)
(* recovery evidence RecoveryService writes in the same transactions       *)
(* (services/recovery.py).                                                 *)
(*                                                                         *)
(* The rows of SQLite survive a crash; everything else dies with the       *)
(* process.  One action is what the event loop runs between two awaits     *)
(* that let somebody else in, or one database transaction.  SQLite         *)
(* transactions begin at the first write, so a read and the write that     *)
(* depends on it are two steps, except in _start_run, whose BEGIN          *)
(* IMMEDIATE makes check and insert one.                                   *)
(***************************************************************************)
EXTENDS Naturals, Sequences

CONSTANTS Agents,      \* agent ids
          Runs,        \* run ids; a run's asyncio task is named by its run
          Stoppers,    \* concurrent callers of stop_run
          Graphs,      \* graph definitions, opaque here
          Shutdown,    \* the lifespan hook that calls AgentManager.shutdown
          None,        \* no run, no agent, no graph
          EarlyStop,   \* may a client stop a run whose start has not returned?
          Resistant,   \* may a runtime swallow a cancellation?
          StopTimeout, \* may a cancellation outlast cancellation_timeout_seconds?
          MaxRestarts  \* bound: how often the process may be restarted

ASSUME ConstantsAssumption ==
    /\ Runs \cap Stoppers = {}
    /\ Shutdown \notin Runs \cup Stoppers
    /\ None \notin Agents \cup Runs \cup Stoppers \cup Graphs
    /\ EarlyStop \in BOOLEAN /\ Resistant \in BOOLEAN /\ StopTimeout \in BOOLEAN
    /\ MaxRestarts \in Nat

Callers == Runs \cup Stoppers \cup {Shutdown}   \* who may call _finish_*

Active == {"queued", "running"}
Terminal == {"succeeded", "failed", "cancelled"}
Reasons == {"created", "running"} \cup Terminal     \* CheckpointReason
Outcomes == {"assessed", "blocked_no_checkpoint"}   \* RecoveryOutcome, see Assess

VARIABLES
    \* rows of the database
    agentStatus,  \* "unborn" | "idle" | "running" | "error" | "deleted"
    agentGraph,   \* graph_definition of each agent
    runStatus,    \* "unborn" | RunStatus | "deleted"
    owner,        \* agent of each run
    spec,         \* the graph recorded in run.execution_spec
    trail,        \* reasons of the run's checkpoints, by sequence number
    decisions,    \* recovery decisions of the run, oldest first
    \* the process
    proc,         \* "up" | "stopping" | "down"
    restarts,
    starting,     \* runs committed by _start_run and not yet registered
    handles,      \* RunRegistry._tasks
    task,         \* control point of each run's task
    cancelled,    \* tasks with a CancelledError waiting to be thrown
    executed,     \* graph handed to the runtime (history)
    \* the _finish_* call of each caller
    finPc, finRun, finOut,
    \* stop_run calls
    stopPc, stopRun,
    todo          \* what AgentManager.shutdown still has to do per run

rows == <<agentStatus, agentGraph, runStatus, owner, spec, trail, decisions>>
fin == <<finPc, finRun, finOut>>
stop == <<stopPc, stopRun>>
tasks == <<task, handles, cancelled, executed>>
process == <<proc, restarts>>
vars == <<rows, process, starting, tasks, fin, stop, todo>>

TaskPoints == {"none", "ready", "marking", "prepared", "invoking", "finishing", "done"}

TypeOK ==
    /\ agentStatus \in [Agents -> {"unborn", "idle", "running", "error", "deleted"}]
    /\ agentGraph \in [Agents -> Graphs \cup {None}]
    /\ runStatus \in [Runs -> {"unborn", "deleted"} \cup Active \cup Terminal]
    /\ owner \in [Runs -> Agents \cup {None}]
    /\ spec \in [Runs -> Graphs \cup {None}]
    /\ trail \in [Runs -> Seq(Reasons)]
    /\ decisions \in [Runs -> Seq(Outcomes)]
    /\ proc \in {"up", "stopping", "down"}
    /\ restarts \in 0..MaxRestarts
    /\ starting \subseteq Runs
    /\ handles \subseteq Runs
    /\ task \in [Runs -> TaskPoints]
    /\ cancelled \subseteq Runs
    /\ executed \in [Runs -> Graphs \cup {None}]
    /\ finPc \in [Callers -> {"idle", "waiting", "writing", "returned", "aborted"}]
    /\ finRun \in [Callers -> Runs \cup {None}]
    /\ finOut \in [Callers -> Terminal \cup {None}]
    /\ stopPc \in [Stoppers -> {"idle", "checked", "waiting", "finishing"}]
    /\ stopRun \in [Stoppers -> Runs \cup {None}]
    /\ todo \in [Runs -> {"none", "waiting", "cancelled", "failed"}]

Init ==
    /\ agentStatus = [a \in Agents |-> "unborn"]
    /\ agentGraph = [a \in Agents |-> None]
    /\ runStatus = [r \in Runs |-> "unborn"]
    /\ owner = [r \in Runs |-> None]
    /\ spec = [r \in Runs |-> None]
    /\ trail = [r \in Runs |-> <<>>]
    /\ decisions = [r \in Runs |-> <<>>]
    /\ proc = "up"
    /\ restarts = 0
    /\ starting = {}
    /\ handles = {}
    /\ task = [r \in Runs |-> "none"]
    /\ cancelled = {}
    /\ executed = [r \in Runs |-> None]
    /\ finPc = [c \in Callers |-> "idle"]
    /\ finRun = [c \in Callers |-> None]
    /\ finOut = [c \in Callers |-> None]
    /\ stopPc = [s \in Stoppers |-> "idle"]
    /\ stopRun = [s \in Stoppers |-> None]
    /\ todo = [r \in Runs |-> "none"]

-----------------------------------------------------------------------------
(* Agents.                                                                 *)

Exists(a) == agentStatus[a] \in {"idle", "running", "error"}

\* _run_repository.has_active_for_agent
HasActive(a) == \E r \in Runs : owner[r] = a /\ runStatus[r] \in Active

\* _lock_for(a) is free: the starter holds it until the task is registered.
AgentLockFree(a) == \A r \in starting : owner[r] # a

CreateAgent(a, g) ==
    /\ proc = "up"
    /\ agentStatus[a] = "unborn"
    /\ agentStatus' = [agentStatus EXCEPT ![a] = "idle"]
    /\ agentGraph' = [agentGraph EXCEPT ![a] = g]
    /\ UNCHANGED <<runStatus, owner, spec, trail, decisions, process, starting, tasks, fin, stop, todo>>

\* Allowed while a run of the agent is active.
UpdateGraph(a, g) ==
    /\ proc = "up"
    /\ Exists(a) /\ AgentLockFree(a)
    /\ agentGraph' = [agentGraph EXCEPT ![a] = g]
    /\ UNCHANGED <<agentStatus, runStatus, owner, spec, trail, decisions,
                   process, starting, tasks, fin, stop, todo>>

\* The foreign keys cascade: runs, checkpoints and decisions go with the agent.
\* The check and the DELETE are one step here, the agent's lock keeping starts
\* out; AgentCatalog takes them apart, for the run that lives on in between.
DeleteAgent(a) ==
    /\ proc = "up"
    /\ Exists(a) /\ AgentLockFree(a) /\ ~HasActive(a)
    /\ agentStatus' = [agentStatus EXCEPT ![a] = "deleted"]
    /\ runStatus' = [r \in Runs |-> IF owner[r] = a THEN "deleted" ELSE runStatus[r]]
    /\ trail' = [r \in Runs |-> IF owner[r] = a THEN <<>> ELSE trail[r]]
    /\ decisions' = [r \in Runs |-> IF owner[r] = a THEN <<>> ELSE decisions[r]]
    /\ UNCHANGED <<agentGraph, owner, spec, process, starting, tasks, fin, stop, todo>>

-----------------------------------------------------------------------------
(* Evidence, written in the transaction of the change it is about.         *)

\* create_initial_checkpoint records the specification with the first checkpoint.
InitialCheckpoint(a, r) ==
    /\ spec' = [spec EXCEPT ![r] = agentGraph[a]]
    /\ trail' = [trail EXCEPT ![r] = <<"created">>]

\* create_lifecycle_checkpoint: the next sequence number is the last plus one.
LifecycleCheckpoint(r, reason) == trail' = [trail EXCEPT ![r] = Append(@, reason)]

-----------------------------------------------------------------------------
(* Starting a run.                                                         *)

\* Mutant: the active-run check of _start_run is missing.
StartRunUnchecked(a, r) ==
    /\ proc = "up"
    /\ Exists(a) /\ AgentLockFree(a)
    /\ runStatus[r] = "unborn"
    /\ runStatus' = [runStatus EXCEPT ![r] = "queued"]
    /\ owner' = [owner EXCEPT ![r] = a]
    /\ agentStatus' = [agentStatus EXCEPT ![a] = "running"]
    /\ InitialCheckpoint(a, r)
    /\ starting' = starting \cup {r}
    /\ UNCHANGED <<agentGraph, decisions, process, tasks, fin, stop, todo>>

\* One BEGIN IMMEDIATE transaction: active-run check, run row, agent status,
\* execution specification and initial checkpoint.
StartRun(a, r) ==
    /\ proc = "up"
    /\ Exists(a) /\ AgentLockFree(a)
    /\ runStatus[r] = "unborn"
    /\ ~HasActive(a)
    /\ runStatus' = [runStatus EXCEPT ![r] = "queued"]
    /\ owner' = [owner EXCEPT ![r] = a]
    /\ agentStatus' = [agentStatus EXCEPT ![a] = "running"]
    /\ InitialCheckpoint(a, r)
    /\ starting' = starting \cup {r}
    /\ UNCHANGED <<agentGraph, decisions, process, tasks, fin, stop, todo>>

\* Mutant: the task is created and not registered.
RegisterTaskForgotten(r) ==
    /\ r \in starting
    /\ starting' = starting \ {r}
    /\ task' = [task EXCEPT ![r] = "ready"]
    /\ UNCHANGED <<rows, process, handles, cancelled, executed, fin, stop, todo>>

\* The commit and session.refresh have been awaited: create and register the task.
RegisterTask(r) ==
    /\ r \in starting
    /\ starting' = starting \ {r}
    /\ task' = [task EXCEPT ![r] = "ready"]
    /\ handles' = handles \cup {r}
    /\ UNCHANGED <<rows, process, cancelled, executed, fin, stop, todo>>

-----------------------------------------------------------------------------
(* _finish_succeeded, _finish_failed and _finish_cancelled: the terminal   *)
(* lock of the run is held from FinishRead to the end of the call.         *)

CallFinish(c, r, out) ==
    /\ finPc' = [finPc EXCEPT ![c] = "waiting"]
    /\ finRun' = [finRun EXCEPT ![c] = r]
    /\ finOut' = [finOut EXCEPT ![c] = out]

EndFinish(c) ==
    /\ finPc' = [finPc EXCEPT ![c] = "idle"]
    /\ finRun' = [finRun EXCEPT ![c] = None]
    /\ finOut' = [finOut EXCEPT ![c] = None]

\* Mutant: _terminal_lock is not taken.
NoTerminalLock(r) == TRUE

TerminalLockFree(r) == \A c \in Callers : finRun[c] = r => finPc[c] # "writing"

\* A task with a pending CancelledError takes no ordinary step.
Undisturbed(c) == c \notin cancelled

FinishRead(c) ==
    /\ finPc[c] = "waiting" /\ Undisturbed(c)
    /\ TerminalLockFree(finRun[c])
    /\ finPc' = [finPc EXCEPT ![c] =
                    IF runStatus[finRun[c]] \in Active THEN "writing" ELSE "returned"]
    /\ UNCHANGED <<rows, process, starting, tasks, finRun, finOut, stop, todo>>

\* Mutant: the agent is not released.
WriteTerminalRunOnly(r, out) ==
    /\ runStatus' = [runStatus EXCEPT ![r] = out]
    /\ LifecycleCheckpoint(r, out)
    /\ UNCHANGED <<agentStatus, agentGraph, owner, spec, decisions>>

\* The transaction the three _finish_* methods have in common.
WriteTerminal(r, out) ==
    /\ runStatus' = [runStatus EXCEPT ![r] = out]
    /\ agentStatus' = [agentStatus EXCEPT ![owner[r]] =
                          IF out = "failed" THEN "error" ELSE "idle"]
    /\ LifecycleCheckpoint(r, out)
    /\ UNCHANGED <<agentGraph, owner, spec, decisions>>

FinishWrite(c) ==
    /\ finPc[c] = "writing" /\ Undisturbed(c)
    /\ WriteTerminal(finRun[c], finOut[c])
    /\ finPc' = [finPc EXCEPT ![c] = "returned"]
    /\ UNCHANGED <<process, starting, tasks, finRun, finOut, stop, todo>>

-----------------------------------------------------------------------------
(* _execute_run, the run's task.                                           *)

TaskAt(r, point) == task[r] = point /\ r \notin cancelled

GoFinish(r, out) ==
    /\ task' = [task EXCEPT ![r] = "finishing"]
    /\ CallFinish(r, r, out)

\* _mark_running up to its guard; a raised error is caught and fails the run.
TaskReadRun(r) ==
    /\ TaskAt(r, "ready")
    /\ \/ /\ runStatus[r] \in Active
          /\ task' = [task EXCEPT ![r] = "marking"]
          /\ UNCHANGED fin
       \/ /\ runStatus[r] \notin Active
          /\ GoFinish(r, "failed")
    /\ UNCHANGED <<rows, process, starting, handles, cancelled, executed, stop, todo>>

\* Mutant: no partial unique index.
CanMarkWithoutIndex(r) == runStatus[r] # "deleted"

\* The UPDATE by primary key finds its row and the partial unique index
\* uq_agent_runs_active_agent accepts it.  It does not look at the status.
CanMark(r) ==
    /\ runStatus[r] # "deleted"
    /\ \A q \in Runs \ {r} : owner[q] = owner[r] => runStatus[q] \notin Active

\* Mutant: the running checkpoint is not part of the transaction.
WriteRunningWithoutCheckpoint(r) ==
    /\ CanMark(r)
    /\ runStatus' = [runStatus EXCEPT ![r] = "running"]
    /\ UNCHANGED <<agentStatus, agentGraph, owner, spec, trail, decisions>>

WriteRunning(r) ==
    /\ CanMark(r)
    /\ runStatus' = [runStatus EXCEPT ![r] = "running"]
    /\ LifecycleCheckpoint(r, "running")
    /\ UNCHANGED <<agentStatus, agentGraph, owner, spec, decisions>>

TaskMarkRunning(r) ==
    /\ TaskAt(r, "marking")
    /\ \/ /\ WriteRunning(r)
          /\ task' = [task EXCEPT ![r] = "prepared"]
          /\ UNCHANGED fin
       \/ /\ ~CanMark(r)
          /\ GoFinish(r, "failed")
          /\ UNCHANGED rows
    /\ UNCHANGED <<process, starting, handles, cancelled, executed, stop, todo>>

\* get_agent and _validate_team_graph: the graph is the agent's present one.
TaskLoadGraph(r) ==
    /\ TaskAt(r, "prepared")
    /\ \/ /\ Exists(owner[r])
          /\ executed' = [executed EXCEPT ![r] = agentGraph[owner[r]]]
          /\ task' = [task EXCEPT ![r] = "invoking"]
          /\ UNCHANGED fin
       \/ /\ GoFinish(r, "failed")
          /\ UNCHANGED executed
    /\ UNCHANGED <<rows, process, starting, handles, cancelled, stop, todo>>

\* The runtime returns a response or raises.
TaskRuntimeReturns(r) ==
    /\ TaskAt(r, "invoking")
    /\ \E out \in {"succeeded", "failed"} : GoFinish(r, out)
    /\ UNCHANGED <<rows, process, starting, handles, cancelled, executed, stop, todo>>

\* The finally clause, once the _finish_* call has returned or been abandoned.
TaskExit(r) ==
    /\ TaskAt(r, "finishing") /\ finPc[r] \in {"returned", "aborted"}
    /\ task' = [task EXCEPT ![r] = "done"]
    /\ handles' = handles \ {r}
    /\ EndFinish(r)
    /\ UNCHANGED <<rows, process, starting, cancelled, executed, stop, todo>>

\* A coroutine cancelled before its first step never enters its try block:
\* nothing is finished and the handle stays in the registry.
TaskCancelledUnstarted(r) ==
    /\ r \in cancelled /\ task[r] = "ready"
    /\ task' = [task EXCEPT ![r] = "done"]
    /\ cancelled' = cancelled \ {r}
    /\ UNCHANGED <<rows, process, starting, handles, executed, fin, stop, todo>>

\* CancelledError inside the try block.  A commit of _mark_running that is
\* already with the database thread may or may not have happened.
TaskCancelled(r) ==
    /\ r \in cancelled /\ task[r] \in {"marking", "prepared", "invoking"}
    /\ cancelled' = cancelled \ {r}
    /\ GoFinish(r, "cancelled")
    /\ \/ UNCHANGED rows
       \/ task[r] = "marking" /\ WriteRunning(r)
    /\ UNCHANGED <<process, starting, handles, executed, stop, todo>>

\* A runtime that catches CancelledError and carries on.
RuntimeSwallowsCancel(r) ==
    /\ Resistant
    /\ r \in cancelled /\ task[r] = "invoking"
    /\ cancelled' = cancelled \ {r}
    /\ UNCHANGED <<rows, process, starting, handles, task, executed, fin, stop, todo>>

\* CancelledError inside the task's own _finish_* call: its commit is done or
\* not, and the session is rolled back and closed before the task goes on.
TaskCancelledFinishing(r) ==
    /\ r \in cancelled /\ task[r] = "finishing"
    /\ cancelled' = cancelled \ {r}
    /\ finPc' = [finPc EXCEPT ![r] = "aborted"]
    /\ \/ UNCHANGED rows
       \/ finPc[r] = "writing" /\ WriteTerminal(r, finOut[r])
    /\ UNCHANGED <<process, starting, task, handles, executed, finRun, finOut, stop, todo>>

-----------------------------------------------------------------------------
(* stop_run.                                                               *)

\* get_run refuses unknown and terminal runs; the caller then waits for
\* _stop_descendants.
StopCheck(s, r) ==
    /\ proc = "up"
    /\ stopPc[s] = "idle"
    /\ runStatus[r] \in Active
    /\ EarlyStop \/ r \notin starting
    /\ stopPc' = [stopPc EXCEPT ![s] = "checked"]
    /\ stopRun' = [stopRun EXCEPT ![s] = r]
    /\ UNCHANGED <<rows, process, starting, tasks, fin, todo>>

\* registry.get, then task.cancel() without an await in between.
StopLookup(s) ==
    /\ stopPc[s] = "checked"
    /\ LET r == stopRun[s] IN
       \/ /\ r \notin handles
          /\ stopPc' = [stopPc EXCEPT ![s] = "finishing"]
          /\ CallFinish(s, r, "failed")
          /\ UNCHANGED cancelled
       \/ /\ r \in handles
          /\ stopPc' = [stopPc EXCEPT ![s] = "waiting"]
          /\ cancelled' = IF task[r] = "done" THEN cancelled ELSE cancelled \cup {r}
          /\ UNCHANGED fin
    /\ UNCHANGED <<rows, process, starting, task, handles, executed, stopRun, todo>>

\* asyncio.wait saw the task end.
StopTaskEnded(s) ==
    /\ stopPc[s] = "waiting" /\ task[stopRun[s]] = "done"
    /\ stopPc' = [stopPc EXCEPT ![s] = "finishing"]
    /\ CallFinish(s, stopRun[s], "cancelled")
    /\ UNCHANGED <<rows, process, starting, tasks, stopRun, todo>>

\* asyncio.wait timed out: conflict "Run cancellation timed out".  The loop runs
\* the wakeup that throws the CancelledError before it can run the timer.
StopTimesOut(s) ==
    /\ StopTimeout
    /\ stopPc[s] = "waiting" /\ task[stopRun[s]] # "done" /\ stopRun[s] \notin cancelled
    /\ stopPc' = [stopPc EXCEPT ![s] = "idle"]
    /\ stopRun' = [stopRun EXCEPT ![s] = None]
    /\ UNCHANGED <<rows, process, starting, tasks, fin, todo>>

\* The stopped run, or the conflict "no live execution handle", is returned.
StopReturn(s) ==
    /\ stopPc[s] = "finishing" /\ finPc[s] = "returned"
    /\ stopPc' = [stopPc EXCEPT ![s] = "idle"]
    /\ stopRun' = [stopRun EXCEPT ![s] = None]
    /\ EndFinish(s)
    /\ UNCHANGED <<rows, process, starting, tasks, todo>>

-----------------------------------------------------------------------------
(* Shutdown, crash and restart.                                            *)

\* The server has drained its requests; cancel_all cancels every handle.
ShutdownBegin ==
    /\ proc = "up"
    /\ restarts < MaxRestarts
    /\ starting = {} /\ \A s \in Stoppers : stopPc[s] = "idle"
    /\ proc' = "stopping"
    /\ todo' = [r \in Runs |-> IF r \in handles THEN "waiting" ELSE "none"]
    /\ cancelled' = cancelled \cup {r \in handles : task[r] # "done"}
    /\ UNCHANGED <<rows, restarts, starting, handles, task, executed, fin, stop>>

\* asyncio.wait returned because all tasks ended or the timeout expired.
ShutdownCollect ==
    /\ \E r \in Runs : todo[r] = "waiting"
    /\ \A r \in Runs : todo[r] = "waiting" =>
           task[r] = "done" \/ (StopTimeout /\ r \notin cancelled)
    /\ todo' = [r \in Runs |-> IF todo[r] # "waiting" THEN todo[r]
                               ELSE IF task[r] = "done" THEN "cancelled" ELSE "failed"]
    /\ UNCHANGED <<rows, process, starting, tasks, fin, stop>>

\* First the runs that completed, then the runs that timed out.
ShutdownFinish(r) ==
    /\ finPc[Shutdown] = "idle"
    /\ \A q \in Runs : todo[q] # "waiting"
    /\ \/ todo[r] = "cancelled"
       \/ todo[r] = "failed" /\ \A q \in Runs : todo[q] # "cancelled"
    /\ CallFinish(Shutdown, r, todo[r])
    /\ UNCHANGED <<rows, process, starting, tasks, stop, todo>>

ShutdownFinished ==
    /\ finPc[Shutdown] = "returned"
    /\ EndFinish(Shutdown)
    /\ todo' = [todo EXCEPT ![finRun[Shutdown]] = "none"]
    /\ UNCHANGED <<rows, process, starting, tasks, stop>>

\* The process ends and only the rows remain.
Die ==
    /\ proc' = "down"
    /\ starting' = {}
    /\ handles' = {}
    /\ cancelled' = {}
    /\ task' = [r \in Runs |-> "none"]
    /\ finPc' = [c \in Callers |-> "idle"]
    /\ finRun' = [c \in Callers |-> None]
    /\ finOut' = [c \in Callers |-> None]
    /\ stopPc' = [s \in Stoppers |-> "idle"]
    /\ stopRun' = [s \in Stoppers |-> None]
    /\ todo' = [r \in Runs |-> "none"]
    /\ UNCHANGED <<rows, restarts, executed>>

\* Tasks that timed out may still be alive until the process exits.
ShutdownExit ==
    /\ proc = "stopping"
    /\ finPc[Shutdown] = "idle" /\ \A r \in Runs : todo[r] = "none"
    /\ Die

Crash ==
    /\ proc # "down"
    /\ restarts < MaxRestarts
    /\ Die

\* Mutant: only running runs are recovered.
StaleRunningOnly(r) == runStatus[r] = "running"

Stale(r) == runStatus[r] \in Active     \* RunRepository.list_stale

\* _recovery_outcome.  Which of the outcomes for a run that has a checkpoint is
\* chosen depends on the action ledger, which ToolApproval models.
Assess(r) == IF trail[r] = <<>> THEN "blocked_no_checkpoint" ELSE "assessed"

\* create_app's lifespan: recover_stale_runs is one transaction, before the
\* first request is served.
Restart ==
    /\ proc = "down"
    /\ restarts < MaxRestarts
    /\ proc' = "up"
    /\ restarts' = restarts + 1
    /\ decisions' = [r \in Runs |-> IF Stale(r) THEN Append(decisions[r], Assess(r)) ELSE decisions[r]]
    /\ runStatus' = [r \in Runs |-> IF Stale(r) THEN "failed" ELSE runStatus[r]]
    /\ trail' = [r \in Runs |-> IF Stale(r) THEN Append(trail[r], "failed") ELSE trail[r]]
    /\ agentStatus' = [a \in Agents |-> IF HasActive(a) THEN "error" ELSE agentStatus[a]]
    /\ UNCHANGED <<agentGraph, owner, spec, starting, tasks, fin, stop, todo>>

-----------------------------------------------------------------------------

TaskStep(r) ==
    \/ TaskReadRun(r) \/ TaskMarkRunning(r) \/ TaskLoadGraph(r)
    \/ TaskRuntimeReturns(r) \/ TaskExit(r)
    \/ TaskCancelledUnstarted(r) \/ TaskCancelled(r) \/ RuntimeSwallowsCancel(r)
    \/ TaskCancelledFinishing(r)

FinishStep(c) == FinishRead(c) \/ FinishWrite(c)

StopStep(s) == StopLookup(s) \/ StopTaskEnded(s) \/ StopTimesOut(s) \/ StopReturn(s)

ShutdownStep ==
    \/ ShutdownCollect \/ ShutdownFinished \/ ShutdownExit
    \/ \E r \in Runs : ShutdownFinish(r)

Next ==
    \/ \E a \in Agents, g \in Graphs : CreateAgent(a, g) \/ UpdateGraph(a, g)
    \/ \E a \in Agents : DeleteAgent(a)
    \/ \E a \in Agents, r \in Runs : StartRun(a, r)
    \/ \E r \in Runs : RegisterTask(r) \/ TaskStep(r)
    \/ \E c \in Callers : FinishStep(c)
    \/ \E s \in Stoppers, r \in Runs : StopCheck(s, r)
    \/ \E s \in Stoppers : StopStep(s)
    \/ ShutdownBegin \/ ShutdownStep \/ Crash \/ Restart

Spec == Init /\ [][Next]_vars

\* Every coroutine that can run is run by the event loop, the operator starts
\* the process again, and a runtime call ends (model calls have timeouts).
FairSpec ==
    /\ Spec
    /\ \A r \in Runs : WF_vars(RegisterTask(r)) /\ WF_vars(TaskStep(r))
    /\ \A c \in Callers : WF_vars(FinishStep(c))
    /\ \A s \in Stoppers : WF_vars(StopStep(s))
    /\ WF_vars(ShutdownStep) /\ WF_vars(Restart)
-----------------------------------------------------------------------------
(* Properties.                                                             *)

\* An agent never has two active runs.  _start_run checks it in its BEGIN
\* IMMEDIATE transaction; the partial unique index stops the unconditional
\* UPDATE of _mark_running from breaking it later.
OneActiveRunPerAgent ==
    \A r, q \in Runs : r # q /\ owner[r] = owner[q] /\ owner[r] # None =>
        ~(runStatus[r] \in Active /\ runStatus[q] \in Active)

\* A run that has ended keeps its outcome: no late completion, second stop,
\* shutdown, recovery or _mark_running rewrites it.  Only deleting the agent
\* removes it.
TerminalIsFinal ==
    [][\A r \in Runs : runStatus[r] \in Terminal =>
           runStatus'[r] \in {runStatus[r], "deleted"}]_vars

\* What is left of it when a run can be stopped before its task is registered: an
\* outcome that was written stands, and the one run that lives on is a failed one
\* whose task has read the row as active and not yet marked it running.  Success
\* and cancellation are never taken back.
OnlyFailedRunsRevive ==
    [][\A r \in Runs : runStatus[r] \in Terminal =>
           \/ runStatus'[r] \in {runStatus[r], "deleted"}
           \/ runStatus[r] = "failed" /\ runStatus'[r] = "running" /\ task[r] = "marking"]_vars

\* The agent's status tells whether it has an active run, at every commit and
\* after a crash at any point.
AgentStatusAgrees ==
    \A a \in Agents : agentStatus[a] = "running" <=> HasActive(a)

\* The latest checkpoint of a run is the one its present status was committed
\* with, and recovery assesses a run at most once, never without a checkpoint.
EvidenceMatchesStatus ==
    \A r \in Runs :
        /\ runStatus[r] \in Active \cup Terminal =>
              /\ trail[r] # <<>>
              /\ trail[r][Len(trail[r])] =
                    IF runStatus[r] = "queued" THEN "created" ELSE runStatus[r]
        /\ Len(decisions[r]) <= 1
        /\ decisions[r] # <<>> => runStatus[r] = "failed" /\ decisions[r][1] = "assessed"

\* Once a run reads cancelled, its task does not mark it running, load the
\* graph or stay inside the runtime: only a forced shutdown leaves a live task
\* behind, and that one reads failed.
CancelledIsQuiet ==
    \A r \in Runs : runStatus[r] = "cancelled" =>
        task[r] \notin {"marking", "prepared", "invoking"}

\* While the process serves requests, a run that has ended or was deleted with
\* its agent has no task in the runtime.
EndedIsQuiet ==
    \A r \in Runs : proc = "up" /\ runStatus[r] \in Terminal \cup {"deleted"} =>
        task[r] \notin {"marking", "prepared", "invoking"}

\* When a _finish_* call returns the run has ended, whoever ended it; so a
\* stop_run that returns normally returns an ended run.
FinishReturnsEnded ==
    \A c \in Callers : finPc[c] = "returned" =>
        runStatus[finRun[c]] \in Terminal \cup {"deleted"}

\* Does not hold, and no run checks it.  The runtime executes the specification
\* recorded with the run, RESILIENCE_AND_RECOVERY.md says; _execute_run reads the
\* agent's graph again, and update_agent_graph may have changed it.
ExecutesRecordedSpec ==
    \A r \in Runs : executed[r] # None => executed[r] = spec[r]

\* Every run that was started ends, across crashes, restarts and shutdowns.
EveryRunEnds ==
    \A r \in Runs : runStatus[r] \in Active ~> runStatus[r] \notin Active

\* The contract sees the rows and nothing of tasks, callers and checkpoints.
Contract == INSTANCE RunContract WITH
    Agents <- Agents, Runs <- Runs, None <- None, runStatus <- runStatus, owner <- owner

\* The manager, with its tasks, stops, shutdowns, crashes and restarts,
\* implements the contract on run rows.
ImplementsContract == Contract!CSpec
=============================================================================
