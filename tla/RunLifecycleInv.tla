-------------------------- MODULE RunLifecycleInv ---------------------------
(***************************************************************************)
(* The inductive invariant of RunLifecycle when clients stop only runs     *)
(* whose start has returned (EarlyStop = FALSE).  Its core is TasksAhead:  *)
(* whoever may end a run while its task lives has first put a              *)
(* CancelledError in front of every step that task could still take        *)
(* towards _mark_running's unconditional write.                            *)
(***************************************************************************)
EXTENDS RunLifecycle

Before == {"ready", "marking", "prepared"}   \* task points ahead of the runtime

\* A call in progress names its run and outcome, and belongs to its caller.
CallsNamed ==
    /\ \A c \in Callers : finPc[c] # "idle" => finRun[c] \in Runs /\ finOut[c] \in Terminal
    /\ \A r \in Runs : finPc[r] # "idle" <=> task[r] = "finishing"
    /\ \A r \in Runs : finPc[r] # "idle" => finRun[r] = r
    /\ \A s \in Stoppers : finPc[s] # "idle" <=> stopPc[s] = "finishing"
    /\ \A s \in Stoppers : finPc[s] # "idle" => finRun[s] = stopRun[s] /\ finOut[s] # "succeeded"
    /\ \A s \in Stoppers : stopPc[s] # "idle" => stopRun[s] \in Runs
    /\ finPc[Shutdown] # "idle" => todo[finRun[Shutdown]] = finOut[Shutdown]

\* The row of a run and the row of its agent exist together.
OwnersExist ==
    /\ \A r \in Runs : runStatus[r] = "unborn" <=> owner[r] = None
    /\ \A r \in Runs : runStatus[r] \in Active \cup Terminal => Exists(owner[r])
    /\ \A a \in Agents : agentStatus[a] = "running" => HasActive(a)
    /\ \A r \in Runs : runStatus[r] \in Active => agentStatus[owner[r]] = "running"

\* The terminal lock: one writer per run, and what it read still holds.
WritersExclusive ==
    /\ \A c, d \in Callers :
          finPc[c] = "writing" /\ finPc[d] = "writing" /\ finRun[c] = finRun[d] => c = d
    /\ \A c \in Callers : finPc[c] = "writing" => runStatus[finRun[c]] \in Active

\* A run between the commit of _start_run and its registration is untouched.
StartersAlone ==
    \A r \in starting :
        /\ proc = "up" /\ runStatus[r] = "queued"
        /\ task[r] = "none" /\ r \notin handles
        /\ \A s \in Stoppers : stopPc[s] # "idle" => stopRun[s] # r

\* A task agrees with its row and has a handle until it is done.
TasksMatchRows ==
    \A r \in Runs :
        /\ task[r] \in {"ready", "marking"} => runStatus[r] = "queued"
        /\ task[r] = "prepared" => runStatus[r] = "running"
        /\ task[r] = "invoking" => runStatus[r] \in {"running", "failed"}
        /\ task[r] = "invoking" /\ proc = "up" => runStatus[r] = "running"
        /\ task[r] = "finishing" /\ finOut[r] = "succeeded" => runStatus[r] # "queued"
        /\ task[r] \notin {"none", "done"} => r \in handles
        /\ task[r] # "none" => runStatus[r] # "unborn" /\ proc # "down"
        /\ r \in cancelled => task[r] \notin {"none", "done"}
        /\ runStatus[r] \in Active /\ proc = "up" /\ r \notin starting => task[r] # "none"
        /\ r \in handles => task[r] # "none"

\* Who may end the run has a cancellation ahead of the task, or its end behind it.
TasksAhead ==
    /\ \A s \in Stoppers : stopPc[s] # "idle" =>
          /\ proc = "up"
          /\ task[stopRun[s]] # "none"
          /\ stopPc[s] = "waiting" /\ task[stopRun[s]] \in Before => stopRun[s] \in cancelled
          /\ stopPc[s] = "finishing" => task[stopRun[s]] = "done"
    /\ \A r \in Runs : todo[r] # "none" =>
          /\ proc = "stopping"
          /\ task[r] # "none"
          /\ todo[r] = "waiting" /\ task[r] \in Before => r \in cancelled
          /\ todo[r] = "cancelled" => task[r] = "done"
          /\ todo[r] = "failed" => task[r] \notin Before

\* What a returned call has seen stays true, and quiet stays quiet.
EndsStay ==
    /\ FinishReturnsEnded
    /\ \A r \in Runs : runStatus[r] = "cancelled" => task[r] \in {"none", "finishing", "done"}

\* Inductive strengthening of the safety properties of RunLifecycle: a caller of
\* stop_run or shutdown that can end a run never overtakes the run's own task.
IInv ==
    /\ TypeOK /\ CallsNamed /\ OwnersExist /\ OneActiveRunPerAgent /\ WritersExclusive
    /\ StartersAlone /\ TasksMatchRows /\ TasksAhead /\ EndsStay /\ EvidenceMatchesStatus

\* What keeps an agent at one active run however early its runs are stopped
\* (EarlyStop = TRUE included): the rows, and that a _finish_* call in progress
\* will write an ended status.
SlotInv ==
    /\ runStatus \in [Runs -> {"unborn", "deleted"} \cup Active \cup Terminal]
    /\ owner \in [Runs -> Agents \cup {None}]
    /\ finPc \in [Callers -> {"idle", "waiting", "writing", "returned", "aborted"}]
    /\ finOut \in [Callers -> Terminal \cup {None}]
    /\ \A c \in Callers : finPc[c] \in {"waiting", "writing"} => finOut[c] \in Terminal
    /\ OneActiveRunPerAgent
\* A process that is down has no caller, no task and nothing to shut down.
DownIsEmpty ==
    proc = "down" =>
        /\ starting = {}
        /\ \A c \in Callers : finPc[c] = "idle"
        /\ \A r \in Runs : task[r] = "none" /\ todo[r] = "none"
        /\ \A s \in Stoppers : stopPc[s] = "idle"

\* Success and cancellation are written only for a run whose task is past its
\* marking, so a task about to mark its run finds at worst a failed row.
MarkersFindFailures ==
    /\ \A c \in Callers : finPc[c] \in {"waiting", "writing"} /\ finOut[c] # "failed" =>
          task[finRun[c]] \in {"finishing", "done"}
    /\ \A r \in Runs :
          /\ todo[r] = "cancelled" => task[r] = "done"
          /\ task[r] = "marking" => runStatus[r] \notin {"succeeded", "cancelled"}
          /\ r \in starting \/ runStatus[r] = "unborn" => task[r] = "none"

\* What keeps outcomes from being rewritten however early runs are stopped
\* (EarlyStop = TRUE included).
RewriteInv ==
    /\ runStatus \in [Runs -> {"unborn", "deleted"} \cup Active \cup Terminal]
    /\ task \in [Runs -> TaskPoints]
    /\ finPc \in [Callers -> {"idle", "waiting", "writing", "returned", "aborted"}]
    /\ finRun \in [Callers -> Runs \cup {None}]
    /\ finOut \in [Callers -> Terminal \cup {None}]
    /\ stopPc \in [Stoppers -> {"idle", "checked", "waiting", "finishing"}]
    /\ stopRun \in [Stoppers -> Runs \cup {None}]
    /\ todo \in [Runs -> {"none", "waiting", "cancelled", "failed"}]
    /\ starting \subseteq {r \in Runs : runStatus[r] # "unborn"}
    /\ \A c \in Callers : finPc[c] # "idle" => finRun[c] \in Runs /\ finOut[c] \in Terminal
    /\ \A r \in Runs : finPc[r] # "idle" <=> task[r] = "finishing"
    /\ \A r \in Runs : finPc[r] # "idle" => finRun[r] = r
    /\ \A s \in Stoppers : stopPc[s] # "idle" => stopRun[s] \in Runs
    /\ WritersExclusive /\ MarkersFindFailures /\ DownIsEmpty
=============================================================================
