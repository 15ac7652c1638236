------------------------------- MODULE TeamRun -------------------------------
(***************************************************************************)
(* One run of a team-v1 agent: TeamGraphRuntime (runtime/team.py) schedules *)
(* the workers of a static DAG in waves, AgentManager.run_child starts and  *)
(* awaits one child run per worker, and stop_run stops children before     *)
(* their parent (services/manager.py).                                     *)
(*                                                                         *)
(* Child runs appear here as RunLifecycle leaves them: a row, and a task   *)
(* that is live, has been cancelled, or has ended.  A stop that meets a    *)
(* child between its commit and its registration finds no task and fails   *)
(* the row; the task may by then have read it as active, and runs all the  *)
(* same.                                                                   *)
(***************************************************************************)
EXTENDS Naturals, FiniteSets

CONSTANTS Nodes,        \* the workers of the team graph
          Stoppers,     \* concurrent callers of stop_run
          MaxParallel,  \* orchestration_max_parallel
          StopTimeout,  \* may a cancellation outlast its timeout?
          None

Active == {"queued", "running"}
Ended == {"succeeded", "failed", "cancelled"}

ASSUME TeamAssumption ==
    /\ IsFiniteSet(Nodes) /\ Nodes # {}
    /\ MaxParallel \in Nat \ {0}
    /\ StopTimeout \in BOOLEAN
    /\ None \notin Nodes \cup Ended

VARIABLES
    edges,     \* <<source, target>> pairs of the graph
    \* the parent run
    pc,        \* "schedule" | "waiting" | "draining" | "unwinding" | "synthesis" | "finishing" | "done"
    status,    \* its row
    verdict,   \* how it will end
    thrown,    \* is a CancelledError waiting for the parent task?
    outputs,   \* workers whose output has been collected
    wave,      \* workers _run_ready is waiting for
    \* per worker
    node,      \* control point of its _run_node task
    clean,     \* its stop_run call on the child: "none" | "check" | "wait"
    nthrown,   \* workers with a CancelledError waiting
    child,     \* row of the child run
    ctask,     \* "none" | "live" | "cancelling" | "done" | "aborted"
    due,       \* children whose task has read an active row and will write "running"
    late,      \* children whose task runs although the row was failed first (history)
    \* stop_run calls of clients
    spc,       \* "idle" | "descend" | "child" | "parent"
    left,      \* children the call still has to stop
    target,    \* child the call is about to fail, or whose task it is waiting for
    blind      \* calls that found no task and are about to fail the child

parentVars == <<pc, status, verdict, thrown, outputs, wave>>
nodeVars == <<node, clean, nthrown>>
childVars == <<child, ctask, due, late>>
stopVars == <<spc, left, target, blind>>
vars == <<edges, parentVars, nodeVars, childVars, stopVars>>

NodePoints == {"idle", "queued", "starting", "committed", "awaiting",
               "timing_out", "cancelling", "ok", "error", "cancelled"}
NodeEnded == {"ok", "error", "cancelled"}

TypeOK ==
    /\ edges \subseteq Nodes \X Nodes
    /\ pc \in {"schedule", "waiting", "draining", "unwinding", "synthesis", "finishing", "done"}
    /\ status \in {"running"} \cup Ended
    /\ verdict \in Ended \cup {None}
    /\ thrown \in BOOLEAN
    /\ outputs \subseteq Nodes /\ wave \subseteq Nodes
    /\ node \in [Nodes -> NodePoints]
    /\ clean \in [Nodes -> {"none", "check", "wait"}]
    /\ nthrown \subseteq Nodes
    /\ child \in [Nodes -> {"unborn"} \cup Active \cup Ended]
    /\ ctask \in [Nodes -> {"none", "live", "cancelling", "done", "aborted"}]
    /\ due \subseteq Nodes /\ late \subseteq Nodes
    /\ spc \in [Stoppers -> {"idle", "descend", "child", "parent"}]
    /\ left \in [Stoppers -> SUBSET Nodes]
    /\ target \in [Stoppers -> Nodes \cup {None}]
    /\ blind \subseteq Stoppers

-----------------------------------------------------------------------------
(* The graph.                                                              *)

Predecessors(n) == {m \in Nodes : <<m, n>> \in edges}

\* What parse_team_graph lets through.
Acyclic(E) == \A S \in SUBSET Nodes : S # {} => \E n \in S : \A m \in S : <<m, n>> \notin E

Graphs == {E \in SUBSET {e \in Nodes \X Nodes : e[1] # e[2]} : Acyclic(E)}

\* The run before its first step.
Fresh ==
    /\ pc = "schedule" /\ status = "running" /\ verdict = None /\ thrown = FALSE
    /\ outputs = {} /\ wave = {}
    /\ node = [n \in Nodes |-> "idle"]
    /\ clean = [n \in Nodes |-> "none"]
    /\ nthrown = {}
    /\ child = [n \in Nodes |-> "unborn"]
    /\ ctask = [n \in Nodes |-> "none"]
    /\ due = {} /\ late = {}
    /\ spc = [s \in Stoppers |-> "idle"]
    /\ left = [s \in Stoppers |-> {}]
    /\ target = [s \in Stoppers |-> None]
    /\ blind = {}

Init == edges \in Graphs /\ Fresh

-----------------------------------------------------------------------------
(* _run_graph and _run_ready, in the parent's task.                        *)

Pending == Nodes \ outputs
\* Mutant: one finished predecessor is enough.
ReadyOnAny == {n \in Pending : Predecessors(n) = {} \/ Predecessors(n) \cap outputs # {}}

Ready == {n \in Pending : Predecessors(n) \subseteq outputs}
Unfinished == {n \in wave : node[n] \notin NodeEnded}
\* Mutant: a cancelled worker has no exception.
FailuresRaised == {n \in wave : node[n] = "error"}

Failures == {n \in wave : node[n] \in {"error", "cancelled"}}

Conclude(v) == pc' = "finishing" /\ verdict' = v

\* The branch for a graph with no schedulable worker is dead code for the
\* graphs that parse_team_graph accepts: ParsedTeamsAreSchedulable.
Schedule ==
    /\ pc = "schedule"
    /\ \/ Pending = {} /\ pc' = "synthesis" /\ UNCHANGED <<wave, node>>
       \/ /\ Ready # {}
          /\ wave' = Ready
          /\ node' = [n \in Nodes |-> IF n \in Ready THEN "queued" ELSE node[n]]
          /\ pc' = "waiting"
    /\ UNCHANGED <<edges, status, verdict, thrown, outputs, clean, nthrown, childVars, stopVars>>

\* asyncio.wait(FIRST_EXCEPTION) returns early for an exception, not for a
\* cancelled task.  Any failure found then decides how the parent ends.
WaveReturns ==
    /\ pc = "waiting" /\ ~thrown
    /\ Unfinished = {} \/ \E n \in wave : node[n] = "error"
    /\ \/ /\ Failures = {}
          /\ outputs' = outputs \cup wave
          /\ pc' = "schedule"
          /\ UNCHANGED <<verdict, nthrown>>
       \/ /\ \E n \in Failures : verdict' = IF node[n] = "cancelled" THEN "cancelled" ELSE "failed"
          /\ nthrown' = nthrown \cup Unfinished
          /\ pc' = "draining"
          /\ UNCHANGED outputs
    /\ UNCHANGED <<edges, status, thrown, wave, node, clean, childVars, stopVars>>

\* gather(return_exceptions=True) after the other workers were cancelled.
Drained ==
    /\ pc = "draining" /\ ~thrown /\ Unfinished = {}
    /\ pc' = "finishing"
    /\ UNCHANGED <<edges, status, verdict, thrown, outputs, wave, nodeVars, childVars, stopVars>>

\* CancelledError in the wait, or in a gather: cancelling a gather cancels the
\* workers once more and still waits for all of them.
ParentCancelled ==
    /\ thrown /\ pc \in {"waiting", "draining", "unwinding"}
    /\ thrown' = FALSE
    /\ nthrown' = nthrown \cup Unfinished
    /\ pc' = "unwinding"
    /\ UNCHANGED <<edges, status, verdict, outputs, wave, node, clean, childVars, stopVars>>

\* Mutant: re-raises without the gather.
UnwoundAtOnce ==
    /\ pc = "unwinding" /\ ~thrown
    /\ Conclude("cancelled")
    /\ UNCHANGED <<edges, status, thrown, outputs, wave, nodeVars, childVars, stopVars>>

\* The except clause has gathered the workers.
Unwound ==
    /\ pc = "unwinding" /\ ~thrown /\ Unfinished = {}
    /\ Conclude("cancelled")
    /\ UNCHANGED <<edges, status, thrown, outputs, wave, nodeVars, childVars, stopVars>>

Synthesis ==
    /\ pc = "synthesis"
    /\ \/ ~thrown /\ \E v \in {"succeeded", "failed"} : Conclude(v)
       \/ thrown /\ Conclude("cancelled")
    /\ thrown' = FALSE
    /\ UNCHANGED <<edges, status, outputs, wave, nodeVars, childVars, stopVars>>

\* _finish_*; a CancelledError may catch it before its commit.
ParentFinish ==
    /\ pc = "finishing"
    /\ \/ status' = verdict
       \/ thrown /\ UNCHANGED status
    /\ pc' = "done"
    /\ thrown' = FALSE
    /\ UNCHANGED <<edges, verdict, outputs, wave, nodeVars, childVars, stopVars>>

-----------------------------------------------------------------------------
(* _run_node and run_child, in the worker's task.                          *)

\* Mutant: the semaphore is not released.
HoldingForever == {n \in Nodes : node[n] \notin {"idle", "queued"}}

Holding == {n \in Nodes : node[n] \in
               {"starting", "committed", "awaiting", "timing_out", "cancelling"}}

NodeGoes(n, point) == node' = [node EXCEPT ![n] = point]

\* Mutant: no semaphore.
AcquireUnbounded(n) ==
    /\ node[n] = "queued" /\ n \notin nthrown
    /\ NodeGoes(n, "starting")
    /\ UNCHANGED <<edges, parentVars, clean, nthrown, childVars, stopVars>>

Acquire(n) ==
    /\ node[n] = "queued" /\ n \notin nthrown
    /\ Cardinality(Holding) < MaxParallel
    /\ NodeGoes(n, "starting")
    /\ UNCHANGED <<edges, parentVars, clean, nthrown, childVars, stopVars>>

\* _start_run commits the child row and its delegation row.
ChildCommitted(n) ==
    /\ node[n] = "starting" /\ n \notin nthrown
    /\ NodeGoes(n, "committed")
    /\ child' = [child EXCEPT ![n] = "queued"]
    /\ UNCHANGED <<edges, parentVars, clean, nthrown, ctask, due, late, stopVars>>

\* Depth, ancestry, a missing agent or an agent that is busy.
ChildRefused(n) ==
    /\ node[n] = "starting" /\ n \notin nthrown
    /\ NodeGoes(n, "error")
    /\ UNCHANGED <<edges, parentVars, clean, nthrown, childVars, stopVars>>

\* The task is registered and awaited without a suspension in between.
ChildRegistered(n) ==
    /\ node[n] = "committed" /\ n \notin nthrown
    /\ NodeGoes(n, "awaiting")
    /\ ctask' = [ctask EXCEPT ![n] = "live"]
    /\ UNCHANGED <<edges, parentVars, clean, nthrown, child, due, late, stopVars>>

\* CancelledError before run_child's try block; a commit in flight may land.
NodeCancelledEarly(n) ==
    /\ n \in nthrown /\ node[n] \in {"queued", "starting", "committed"}
    /\ nthrown' = nthrown \ {n}
    /\ NodeGoes(n, "cancelled")
    /\ \/ UNCHANGED child
       \/ node[n] = "starting" /\ child' = [child EXCEPT ![n] = "queued"]
    /\ UNCHANGED <<edges, parentVars, clean, ctask, due, late, stopVars>>

\* The child's task returned: its row decides.
ChildReturned(n) ==
    /\ node[n] = "awaiting" /\ n \notin nthrown /\ ctask[n] = "done"
    /\ NodeGoes(n, IF child[n] = "succeeded" THEN "ok" ELSE "error")
    /\ UNCHANGED <<edges, parentVars, clean, nthrown, childVars, stopVars>>

\* wait_for times out; shield keeps the child's task running.
ChildTimesOut(n) ==
    /\ node[n] = "awaiting" /\ n \notin nthrown /\ ctask[n] \in {"live", "cancelling"}
    /\ NodeGoes(n, "timing_out")
    /\ clean' = [clean EXCEPT ![n] = "check"]
    /\ UNCHANGED <<edges, parentVars, nthrown, childVars, stopVars>>

\* CancelledError in the await, thrown at the worker or by the child's own task.
NodeCancelled(n) ==
    /\ node[n] = "awaiting"
    /\ n \in nthrown \/ ctask[n] = "aborted"
    /\ nthrown' = nthrown \ {n}
    /\ NodeGoes(n, "cancelling")
    /\ clean' = [clean EXCEPT ![n] = "check"]
    /\ UNCHANGED <<edges, parentVars, childVars, stopVars>>

\* A second CancelledError, inside the except clause.
NodeCancelledAgain(n) ==
    /\ n \in nthrown /\ clean[n] # "none"
    /\ nthrown' = nthrown \ {n}
    /\ NodeGoes(n, "cancelled")
    /\ clean' = [clean EXCEPT ![n] = "none"]
    /\ UNCHANGED <<edges, parentVars, childVars, stopVars>>

-----------------------------------------------------------------------------
(* stop_run on a child: refused when it has ended, failed when it has no   *)
(* task, otherwise cancelled and awaited.  A call that has found no task   *)
(* fails the row in a step of its own; only in run_child, which has        *)
(* awaited the child's task, can no task come up in between.               *)

HasHandle(n) == ctask[n] \in {"live", "cancelling"}

StopRefused(n) == child[n] \in Ended /\ UNCHANGED childVars

FindsNoHandle(n) == child[n] \in Active /\ ~HasHandle(n)

\* _finish_failed
FailsRow(n) ==
    /\ child' = [child EXCEPT ![n] = IF @ \in Active THEN "failed" ELSE @]
    /\ UNCHANGED <<ctask, due, late>>

StopCancels(n) ==
    /\ child[n] \in Active /\ HasHandle(n)
    /\ ctask' = [ctask EXCEPT ![n] = "cancelling"]
    /\ UNCHANGED <<child, due, late>>

\* The wait ends because the task did, or by timeout.
StopWaited(n) ==
    \/ /\ ctask[n] \in {"done", "aborted"}
       /\ child' = [child EXCEPT ![n] = IF @ \in Active THEN "cancelled" ELSE @]
       /\ UNCHANGED <<ctask, due, late>>
    \/ StopTimeout /\ HasHandle(n) /\ UNCHANGED childVars

CleanupDone(n) ==
    /\ NodeGoes(n, IF node[n] = "timing_out" THEN "error" ELSE "cancelled")
    /\ clean' = [clean EXCEPT ![n] = "none"]

\* The except clauses of run_child.
Cleanup(n) ==
    /\ n \notin nthrown
    /\ \/ clean[n] = "check" /\ StopRefused(n) /\ CleanupDone(n)
       \/ clean[n] = "check" /\ FindsNoHandle(n) /\ FailsRow(n) /\ CleanupDone(n)
       \/ /\ clean[n] = "check" /\ StopCancels(n)
          /\ clean' = [clean EXCEPT ![n] = "wait"]
          /\ UNCHANGED node
       \/ clean[n] = "wait" /\ StopWaited(n) /\ CleanupDone(n)
    /\ UNCHANGED <<edges, parentVars, nthrown, stopVars>>

-----------------------------------------------------------------------------
(* The child's task.                                                       *)

\* _mark_running reads the row and refuses one that has ended.
ChildReads(n) ==
    /\ ctask[n] = "live" /\ child[n] = "queued" /\ n \notin due
    /\ due' = due \cup {n}
    /\ UNCHANGED <<edges, parentVars, nodeVars, child, ctask, late, stopVars>>

\* Its UPDATE by primary key does not look at the status again, and lands even
\* when the task is cancelled with the commit under way.
ChildRuns(n) ==
    /\ n \in due /\ HasHandle(n)
    /\ child' = [child EXCEPT ![n] = "running"]
    /\ late' = IF child[n] = "queued" THEN late ELSE late \cup {n}
    /\ due' = due \ {n}
    /\ UNCHANGED <<edges, parentVars, nodeVars, ctask, stopVars>>

\* A task that reads an ended row, or that the unique index refuses, ends without
\* a word.
ChildEnds(n) ==
    /\ ctask[n] = "live"
    /\ ctask' = [ctask EXCEPT ![n] = "done"]
    /\ due' = due \ {n} /\ late' = late \ {n}
    /\ \/ child[n] \in Active /\ child' = [child EXCEPT ![n] = "failed"]
       \/ child[n] = "running" /\ child' = [child EXCEPT ![n] = "succeeded"]
       \/ child[n] \in Ended /\ UNCHANGED child
    /\ UNCHANGED <<edges, parentVars, nodeVars, stopVars>>

\* The task ends with CancelledError; if it was in its own _finish_* call, that
\* outcome or none may have been written.
ChildAborts(n) ==
    /\ ctask[n] = "cancelling"
    /\ ctask' = [ctask EXCEPT ![n] = "aborted"]
    /\ due' = due \ {n} /\ late' = late \ {n}
    /\ \/ UNCHANGED child
       \/ child[n] \in Active /\ child' = [child EXCEPT ![n] = "cancelled"]
       \/ child[n] = "running" /\ \E out \in {"succeeded", "failed"} : child' = [child EXCEPT ![n] = out]
    /\ UNCHANGED <<edges, parentVars, nodeVars, stopVars>>

-----------------------------------------------------------------------------
(* stop_run called by clients, on the parent or on one child.              *)

StopParentBegin(s) ==
    /\ spc[s] = "idle" /\ status = "running"
    /\ spc' = [spc EXCEPT ![s] = "descend"]
    /\ left' = [left EXCEPT ![s] = {n \in Nodes : child[n] # "unborn"}]
    /\ UNCHANGED <<edges, parentVars, nodeVars, childVars, target, blind>>

\* What a call does first about a child that has not ended.
StopTurnsTo(s, n) ==
    /\ \/ FindsNoHandle(n) /\ blind' = blind \cup {s} /\ UNCHANGED childVars
       \/ StopCancels(n) /\ UNCHANGED blind
    /\ target' = [target EXCEPT ![s] = n]

StopChildBegin(s, n) ==
    /\ spc[s] = "idle" /\ StopTurnsTo(s, n)
    /\ spc' = [spc EXCEPT ![s] = "child"]
    /\ UNCHANGED <<edges, parentVars, nodeVars, left>>

\* _stop_descendants takes the children one by one.
StopDescend(s, n) ==
    /\ spc[s] = "descend" /\ target[s] = None /\ n \in left[s]
    /\ left' = [left EXCEPT ![s] = @ \ {n}]
    /\ \/ StopRefused(n) /\ UNCHANGED <<target, blind>>
       \/ StopTurnsTo(s, n)
    /\ UNCHANGED <<edges, parentVars, nodeVars, spc>>

StopChildEnds(s) ==
    /\ target[s] # None
    /\ \/ s \in blind /\ FailsRow(target[s])
       \/ s \notin blind /\ StopWaited(target[s])
    /\ target' = [target EXCEPT ![s] = None]
    /\ blind' = blind \ {s}
    /\ spc' = [spc EXCEPT ![s] = IF @ = "child" THEN "idle" ELSE @]
    /\ UNCHANGED <<edges, parentVars, nodeVars, left>>

\* With the descendants stopped, the parent's own task is cancelled.
StopParent(s) ==
    /\ spc[s] = "descend" /\ target[s] = None /\ left[s] = {}
    /\ \/ /\ pc # "done"
          /\ thrown' = TRUE
          /\ spc' = [spc EXCEPT ![s] = "parent"]
          /\ UNCHANGED status
       \/ /\ pc = "done"
          /\ status' = IF status = "running" THEN "failed" ELSE status
          /\ spc' = [spc EXCEPT ![s] = "idle"]
          /\ UNCHANGED thrown
    /\ UNCHANGED <<edges, pc, verdict, outputs, wave, nodeVars, childVars, left, target, blind>>

StopParentEnds(s) ==
    /\ spc[s] = "parent"
    /\ \/ pc = "done" /\ status' = IF status = "running" THEN "cancelled" ELSE status
       \/ StopTimeout /\ pc # "done" /\ ~thrown /\ UNCHANGED status
    /\ spc' = [spc EXCEPT ![s] = "idle"]
    /\ UNCHANGED <<edges, pc, verdict, thrown, outputs, wave, nodeVars, childVars, left, target, blind>>

-----------------------------------------------------------------------------

ParentStep ==
    \/ Schedule \/ WaveReturns \/ Drained \/ ParentCancelled \/ Unwound
    \/ Synthesis \/ ParentFinish

NodeStep(n) ==
    \/ Acquire(n) \/ ChildCommitted(n) \/ ChildRefused(n) \/ ChildRegistered(n)
    \/ NodeCancelledEarly(n) \/ ChildReturned(n) \/ ChildTimesOut(n)
    \/ NodeCancelled(n) \/ NodeCancelledAgain(n) \/ Cleanup(n)

StopStep(s) ==
    \/ \E n \in Nodes : StopDescend(s, n)
    \/ StopChildEnds(s) \/ StopParent(s) \/ StopParentEnds(s)

Next ==
    \/ ParentStep
    \/ \E n \in Nodes : NodeStep(n) \/ ChildReads(n) \/ ChildRuns(n) \/ ChildEnds(n) \/ ChildAborts(n)
    \/ \E s \in Stoppers : StopParentBegin(s) \/ StopStep(s) \/ \E n \in Nodes : StopChildBegin(s, n)

Spec == Init /\ [][Next]_vars

\* The event loop runs every coroutine that can run and fires every timer, and
\* a cancelled child lets go; nothing makes a live child answer.
FairSpec ==
    /\ Spec
    /\ WF_vars(ParentStep)
    /\ \A n \in Nodes : WF_vars(NodeStep(n)) /\ WF_vars(ChildAborts(n))
    /\ \A s \in Stoppers : WF_vars(StopStep(s))

-----------------------------------------------------------------------------
(* Properties.                                                             *)

\* A team run succeeds only on the work of all its workers: every child run
\* succeeded (_run_ready's failure test, _run_node's status test).
SuccessIsComplete == status = "succeeded" => \A n \in Nodes : child[n] = "succeeded"

\* No child run exists before the runs of all the workers it depends on have
\* succeeded, stops and timeouts of other workers notwithstanding (the ready list
\* of _run_graph).
DependenciesFirst ==
    \A n \in Nodes : child[n] # "unborn" => \A m \in Predecessors(n) : child[m] = "succeeded"

\* Child runs that are active and have a task, but for those that run although a
\* stop failed them first: their workers may be gone.
Handles == {n \in Nodes : HasHandle(n) /\ child[n] \in Active} \ late

\* At most orchestration_max_parallel active child runs have a task, those of
\* cancelled workers that still unwind included (the semaphore of _run_graph).
BoundedParallelism == Cardinality(Handles) <= MaxParallel

\* When the parent comes to write its outcome no worker is still at it: whichever
\* of failure, stop and repeated stop ended _run_ready, its gather came first.  So
\* no child run is born of a parent that has ended.
WorkersSettleFirst ==
    pc \in {"synthesis", "finishing", "done"} =>
        \A n \in Nodes : node[n] \in NodeEnded \cup {"idle"}

\* What lets the parent's task, a worker's task and a stop_run call go on; a
\* child's task lets go of a cancellation, but need never answer.
ParentMayStep ==
    \/ pc = "schedule" /\ (Pending = {} \/ Ready # {})
    \/ pc = "waiting" /\ \E n \in wave : node[n] = "error"
    \/ pc \in {"waiting", "draining", "unwinding"} /\ (thrown \/ Unfinished = {})
    \/ pc \in {"synthesis", "finishing"}

WorkerMayStep(n) ==
    \/ n \in nthrown /\ (node[n] \in {"queued", "starting", "committed", "awaiting"} \/ clean[n] # "none")
    \/ node[n] = "queued" /\ Cardinality(Holding) < MaxParallel
    \/ node[n] \in {"starting", "committed"}
    \/ node[n] = "awaiting" /\ ctask[n] # "none"
    \/ clean[n] = "check" /\ child[n] # "unborn"
    \/ clean[n] = "wait" /\ ctask[n] \in {"cancelling", "done", "aborted"}

CallerMayStep(s) ==
    \/ spc[s] = "descend" /\ target[s] = None /\ \A n \in left[s] : child[n] # "unborn"
    \/ s \in blind
    \/ target[s] # None /\ ctask[target[s]] \in {"cancelling", "done", "aborted"}
    \/ spc[s] = "parent"

\* A team run is never stuck, even if no child ever answers: until the parent has
\* ended, its task or a worker's can go on (the semaphore and the gathers of
\* _run_ready, the timeout of run_child); and no stop_run call waits for a task that
\* nobody cancelled, or turns to a child that was never born.
TeamNeverStuck ==
    /\ pc # "done" => ParentMayStep \/ \E n \in Nodes : WorkerMayStep(n)
    /\ \A s \in Stoppers : spc[s] # "idle" => CallerMayStep(s)

Contract == INSTANCE TeamContract

\* Whatever is cancelled, stopped or times out, the rows of a team run and of its
\* children change only as TeamContract says: no child before its predecessors have
\* succeeded or after the parent's end, one outcome each unless it failed before it
\* ran, success only with all.
ImplementsTeamContract == Contract!TSpec

\* Child runs, each worker counted as an agent of its own.
Children == INSTANCE RunContract WITH
    Agents <- Nodes, Runs <- Nodes, runStatus <- child,
    owner <- [n \in Nodes |-> IF child[n] = "unborn" THEN None ELSE n]

\* Every team run ends, even when none of its children ever answers: timeouts and
\* cancellation alone drain the waves (run_child, _run_ready).
TeamEnds == <>(status \in Ended)

\* Does not hold, and no run checks it.  MULTI_AGENT_ORCHESTRATION.md says that a
\* cancelled child fails the parent; _run_ready raises the child's CancelledError
\* again and the parent is cancelled although nobody stopped it.
StoppedChildFailsParent ==
    [][status = "running" /\ status' = "cancelled" => \E s \in Stoppers : spc[s] = "parent"]_vars

\* Does not hold, and no run checks it.  MULTI_AGENT_ORCHESTRATION.md says that live
\* descendants are stopped before the parent ends; a worker cancelled between its
\* child's commit and the try block of run_child leaves the child queued.
NoOrphans == status \in Ended => \A n \in Nodes : child[n] \notin Active

-----------------------------------------------------------------------------
(* The inductive invariant.                                                *)

\* A worker outside the wave is collected or has not begun, and one that has
\* begun found its predecessors collected.
WavesInv ==
    /\ \A n \in outputs : node[n] = "ok"
    /\ \A n \in Nodes : node[n] # "idle" => Predecessors(n) \subseteq outputs
    /\ pc = "schedule" => \A n \in Nodes \ outputs : node[n] = "idle"
    /\ pc \in {"waiting", "draining", "unwinding"} =>
           \A n \in Nodes \ (outputs \cup wave) : node[n] = "idle"
    /\ pc = "synthesis" => outputs = Nodes
    /\ WorkersSettleFirst

\* The outcome is decided before it is written, success only after synthesis, and
\* the parent's task writes it last.
OutcomeInv ==
    /\ status \in Ended => pc = "done"
    /\ pc \in {"draining", "finishing", "done"} => verdict \in Ended
    /\ "succeeded" \in {verdict, status} => outputs = Nodes

\* How far a worker has come says what its child run can be.
WorkerInv ==
    \A n \in Nodes :
        /\ node[n] \in {"idle", "queued", "starting"} => child[n] = "unborn"
        /\ node[n] \in {"idle", "queued", "starting", "committed"} => ctask[n] = "none"
        /\ node[n] = "ok" => child[n] = "succeeded"
        /\ clean[n] # "none" => node[n] \in {"timing_out", "cancelling"}

\* Only a row that was active, or has been failed since, can be about to run.
MarkInv ==
    \A n \in Nodes :
        n \in due => HasHandle(n) /\ child[n] \in {"queued", "failed"}

\* Once a wave is being taken down no worker gets any further towards a child, so
\* a worker that a second CancelledError drives off may leave its child's task
\* behind without making room for another.
SemaphoreInv ==
    /\ Cardinality(Holding) <= MaxParallel
    /\ pc \in {"schedule", "waiting", "synthesis"} =>
           nthrown = {} /\ (~StopTimeout => Handles \subseteq Holding)
    /\ pc \in {"draining", "unwinding"} =>
           \A n \in Nodes : node[n] \in {"queued", "starting", "committed"} => n \in nthrown
    /\ ~StopTimeout => BoundedParallelism

IInv == TypeOK /\ WavesInv /\ OutcomeInv /\ WorkerInv /\ MarkInv /\ SemaphoreInv

\* Whoever waits has something to wait for: a worker in the wave has begun, one
\* that awaits its child has a child with a task, and a task that somebody stops
\* was cancelled.  (On top of IInv; TeamNeverStuck needs both.)
WorkerWaits(n) ==
    /\ node[n] \in {"committed", "awaiting", "timing_out", "cancelling"} => child[n] # "unborn"
    /\ node[n] = "awaiting" => ctask[n] # "none"
    /\ node[n] \in {"timing_out", "cancelling"} => clean[n] # "none"
    /\ clean[n] = "wait" => ctask[n] \in {"cancelling", "done", "aborted"}

CallerWaits(s) ==
    /\ \A n \in left[s] : child[n] # "unborn"
    /\ target[s] # None => s \in blind \/ ctask[target[s]] \in {"cancelling", "done", "aborted"}
    /\ s \in blind => target[s] # None
    /\ spc[s] = "child" => target[s] # None

WaitsInv ==
    /\ \A n \in wave : node[n] # "idle"
    /\ \A n \in Nodes : WorkerWaits(n)
    /\ \A s \in Stoppers : CallerWaits(s)
=============================================================================
