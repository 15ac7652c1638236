---------------------------- MODULE ToolApproval ----------------------------
(***************************************************************************)
(* One Lexi run and its tool calls: LexiGraphRuntime (runtime/lexi.py)     *)
(* decides, ToolService.execute (services/tools.py) asks ApprovalService   *)
(* (services/remote.py) for controlled actions, and the action ledger      *)
(* (services/recovery.py) records them around their external effect.       *)
(*                                                                         *)
(* Invocation rows, ledger rows, the run row and the effects on the        *)
(* desktop survive a crash; approvals and the run's task do not.  One      *)
(* action is what the task does between two awaits.                        *)
(***************************************************************************)
EXTENDS Naturals

CONSTANT MaxSteps    \* lexi_max_tool_steps

ASSUME StepsAssumption == MaxSteps \in Nat \ {0}

Calls == 1 .. MaxSteps     \* the tool calls of the run
Tools == {"time", "open"}  \* system.current_time, desktop.open_application

RequiresApproval(t) == t = "open"

VARIABLES
    \* durable
    run,        \* status of the run row
    inv,        \* status of each call's invocation row
    ledger,     \* status of each call's ledger entry
    effects,    \* calls whose application was launched
    outcome,    \* the recovery decision
    \* the process
    up,
    pc,         \* control point of the run's task
    call,       \* the call being executed, or executed last
    tool,       \* the tool of each call
    approval,   \* status of each call's approval request
    thrown,     \* is a CancelledError waiting for the task?
    result,     \* invocation status and ledger status about to be written
    raising     \* will a CancelledError be raised after that?

durable == <<run, inv, ledger, effects, outcome>>
vars == <<durable, up, pc, call, tool, approval, thrown, result, raising>>

Ended == {"succeeded", "failed", "cancelled"}
Decided == {"approved", "rejected", "expired", "cancelled"}
ToolEnded == {"succeeded", "rejected", "expired", "cancelled", "failed"}
LedgerEnded == {"confirmed", "failed", "uncertain"}
Points == {"deciding", "recording", "recorded", "linking", "waiting", "intent", "starting",
           "executing", "launched", "completing", "confirming", "unwinding", "ended"}

TypeOK ==
    /\ run \in {"running"} \cup Ended
    /\ inv \in [Calls -> {"none", "pending_approval"} \cup ToolEnded]
    /\ ledger \in [Calls -> {"none", "intent_recorded", "started"} \cup LedgerEnded]
    /\ effects \subseteq Calls
    /\ outcome \in {"none", "stopped_no_replay", "blocked_uncertain_action"}
    /\ up \in BOOLEAN
    /\ pc \in Points
    /\ call \in 0 .. MaxSteps
    /\ tool \in [Calls -> Tools \cup {"none"}]
    /\ approval \in [Calls -> {"none", "pending"} \cup Decided]
    /\ thrown \in BOOLEAN
    /\ result \in [inv : ToolEnded, ledger : LedgerEnded \cup {"none"}]
    /\ raising \in BOOLEAN

Unset == [inv |-> "failed", ledger |-> "none"]

Init ==
    /\ run = "running"
    /\ inv = [c \in Calls |-> "none"]
    /\ ledger = [c \in Calls |-> "none"]
    /\ effects = {}
    /\ outcome = "none"
    /\ up = TRUE
    /\ pc = "deciding"
    /\ call = 0
    /\ tool = [c \in Calls |-> "none"]
    /\ approval = [c \in Calls |-> "none"]
    /\ thrown = FALSE
    /\ result = Unset
    /\ raising = FALSE

-----------------------------------------------------------------------------
(* LexiGraphRuntime.                                                       *)

At(point) == up /\ pc = point /\ ~thrown

\* _execute_run writes the outcome of the runtime.
EndRun(out) == run' = out /\ pc' = "ended"

\* A response, malformed model text, a tool request past the limit, or an error.
Respond ==
    /\ At("deciding")
    /\ \E out \in {"succeeded", "failed"} : EndRun(out)
    /\ UNCHANGED <<inv, ledger, effects, outcome, up, call, tool, approval, thrown, result, raising>>

\* A request the task refuses without a trace: tools are disabled, the tool is
\* unknown, or the arguments are invalid or not allowlisted.
RefuseTool ==
    /\ At("deciding") /\ call < MaxSteps
    /\ call' = call + 1
    /\ UNCHANGED <<durable, up, pc, tool, approval, thrown, result, raising>>

RequestTool(t) ==
    /\ At("deciding") /\ call < MaxSteps
    /\ call' = call + 1
    /\ tool' = [tool EXCEPT ![call'] = t]
    /\ pc' = "recording"
    /\ UNCHANGED <<durable, up, approval, thrown, result, raising>>

-----------------------------------------------------------------------------
(* ToolService.execute up to the approval.                                 *)

\* The row of a tool that needs no approval says succeeded from the start.
WriteInvocation ==
    inv' = [inv EXCEPT ![call] = IF RequiresApproval(tool[call]) THEN "pending_approval" ELSE "succeeded"]

RecordInvocation ==
    /\ At("recording")
    /\ WriteInvocation
    /\ pc' = IF RequiresApproval(tool[call]) THEN "recorded" ELSE "intent"
    /\ UNCHANGED <<run, ledger, effects, outcome, up, call, tool, approval, thrown, result, raising>>

\* ApprovalService.create; the task then writes approval_id into the row.
RequestApproval ==
    /\ At("recorded")
    /\ approval' = [approval EXCEPT ![call] = "pending"]
    /\ pc' = "linking"
    /\ UNCHANGED <<durable, up, call, tool, thrown, result, raising>>

LinkApproval ==
    /\ At("linking")
    /\ pc' = "waiting"
    /\ UNCHANGED <<durable, up, call, tool, approval, thrown, result, raising>>

Report(i, l) == pc' = "completing" /\ result' = [inv |-> i, ledger |-> l]

\* wait_for_decision sees the future that decide has set.
SeeDecision ==
    /\ At("waiting")
    /\ \/ approval[call] = "approved" /\ pc' = "intent" /\ UNCHANGED result
       \/ approval[call] = "rejected" /\ Report("rejected", "none")
    /\ UNCHANGED <<durable, up, call, tool, approval, thrown, raising>>

\* Mutant: the timer overwrites a decision.
ExpireBlindly == approval' = [approval EXCEPT ![call] = "expired"]

Expire == approval' = [approval EXCEPT ![call] = IF @ = "pending" THEN "expired" ELSE @]

\* Mutant: silence is consent.
WaitTimesOutApproved ==
    /\ At("waiting")
    /\ Expire
    /\ pc' = "intent"
    /\ UNCHANGED <<durable, up, call, tool, thrown, result, raising>>

\* Mutant: wait_for without a timeout.
WaitTimesOutNever ==
    /\ FALSE
    /\ UNCHANGED vars

\* The timer of wait_for.  It may win against a decision that the task has not
\* seen yet: the tool is then expired although the request is approved.
WaitTimesOut ==
    /\ At("waiting")
    /\ Expire
    /\ Report("expired", "none")
    /\ UNCHANGED <<durable, up, call, tool, thrown, raising>>

-----------------------------------------------------------------------------
(* The effect and its evidence.                                            *)

WriteLedger(l) == ledger' = [ledger EXCEPT ![call] = l]

RecordIntent ==
    /\ At("intent")
    /\ WriteLedger("intent_recorded")
    /\ pc' = "starting"
    /\ UNCHANGED <<run, inv, effects, outcome, up, call, tool, approval, thrown, result, raising>>

\* Telling the time takes no await: it is done when the ledger says started.
MarkStarted ==
    /\ At("starting")
    /\ WriteLedger("started")
    /\ \/ tool[call] = "open" /\ pc' = "executing" /\ UNCHANGED result
       \/ tool[call] = "time" /\ Report("succeeded", "confirmed")
    /\ UNCHANGED <<run, inv, effects, outcome, up, call, tool, approval, thrown, raising>>

Launch == effects' = effects \cup {call}

Execute ==
    /\ At("executing")
    /\ Launch
    /\ pc' = "launched"
    /\ UNCHANGED <<run, inv, ledger, outcome, up, call, tool, approval, thrown, result, raising>>

\* OSError: the application could not be started.
ExecutionFails ==
    /\ At("executing")
    /\ Report("failed", "failed")
    /\ UNCHANGED <<durable, up, call, tool, approval, thrown, raising>>

ExecutionReturns ==
    /\ At("launched")
    /\ Report("succeeded", "confirmed")
    /\ UNCHANGED <<durable, up, call, tool, approval, thrown, raising>>

\* Mutant: a timeout is recorded as a failure.
ExecutionTimesOutAsFailure ==
    /\ At("executing") \/ At("launched")
    /\ Report("failed", "failed")
    /\ UNCHANGED <<durable, up, call, tool, approval, thrown, raising>>

\* With the launch still to come, or not reported yet.
ExecutionTimesOut ==
    /\ At("executing") \/ At("launched")
    /\ Report("failed", "uncertain")
    /\ UNCHANGED <<durable, up, call, tool, approval, thrown, raising>>

AfterComplete == IF raising THEN "unwinding" ELSE "deciding"

\* _complete: first the invocation row, then the ledger entry if there is one.
CompleteInvocation ==
    /\ At("completing")
    /\ inv' = [inv EXCEPT ![call] = result.inv]
    /\ pc' = IF result.ledger = "none" THEN AfterComplete ELSE "confirming"
    /\ UNCHANGED <<run, ledger, effects, outcome, up, call, tool, approval, thrown, result, raising>>

CompleteLedger ==
    /\ At("confirming")
    /\ WriteLedger(result.ledger)
    /\ pc' = AfterComplete
    /\ UNCHANGED <<run, inv, effects, outcome, up, call, tool, approval, thrown, result, raising>>

-----------------------------------------------------------------------------
(* Cancellation of the run's task.                                         *)

Stop ==
    /\ up /\ run = "running" /\ pc # "unwinding"
    /\ thrown' = TRUE
    /\ UNCHANGED <<durable, up, pc, call, tool, approval, result, raising>>

CancelAt(points) ==
    /\ up /\ thrown /\ pc \in points
    /\ thrown' = FALSE

\* Outside any handler.  A commit that is under way may have happened.
CancelledBetween ==
    /\ CancelAt({"deciding", "recording", "recorded", "linking", "intent", "starting",
                 "completing", "confirming"})
    /\ pc' = "unwinding"
    /\ \/ UNCHANGED <<inv, ledger>>
       \/ pc = "recording" /\ WriteInvocation /\ UNCHANGED ledger
       \/ pc = "intent" /\ WriteLedger("intent_recorded") /\ UNCHANGED inv
       \/ pc = "starting" /\ WriteLedger("started") /\ UNCHANGED inv
       \/ pc = "completing" /\ inv' = [inv EXCEPT ![call] = result.inv] /\ UNCHANGED ledger
       \/ pc = "confirming" /\ WriteLedger(result.ledger) /\ UNCHANGED inv
    /\ UNCHANGED <<run, effects, outcome, up, call, tool, approval, result, raising>>

\* wait_for_decision cancels the request it is waiting for.
CancelledWaiting ==
    /\ CancelAt({"waiting"})
    /\ approval' = [approval EXCEPT ![call] = IF @ = "pending" THEN "cancelled" ELSE @]
    /\ pc' = "unwinding"
    /\ UNCHANGED <<durable, up, call, tool, result, raising>>

\* The launch under way may have happened; either way it is uncertain.
CancelledExecuting ==
    /\ CancelAt({"executing", "launched"})
    /\ Report("cancelled", "uncertain")
    /\ raising' = TRUE
    /\ UNCHANGED effects \/ (pc = "executing" /\ Launch)
    /\ UNCHANGED <<run, inv, ledger, outcome, up, call, tool, approval>>

\* _finish_cancelled.
Unwind ==
    /\ up /\ pc = "unwinding"
    /\ EndRun("cancelled")
    /\ UNCHANGED <<inv, ledger, effects, outcome, up, call, tool, approval, thrown, result, raising>>

-----------------------------------------------------------------------------
(* The user, and the process.                                              *)

\* ApprovalService.decide; a request that is not pending is a conflict.
Decide(c) ==
    /\ up /\ approval[c] = "pending"
    /\ \E d \in {"approved", "rejected"} : approval' = [approval EXCEPT ![c] = d]
    /\ UNCHANGED <<durable, up, pc, call, tool, thrown, result, raising>>

Crash ==
    /\ up
    /\ up' = FALSE
    /\ pc' = "ended" /\ thrown' = FALSE
    /\ approval' = [c \in Calls |-> "none"]
    /\ UNCHANGED <<durable, call, tool, result, raising>>

\* Mutant: a started action counts as settled.
UncertainEntriesNotStarted == {c \in Calls : ledger[c] \in {"intent_recorded", "uncertain"}}

UncertainEntries == {c \in Calls : ledger[c] \in {"intent_recorded", "started", "uncertain"}}

\* recover_stale_runs for this run; its checkpoint is there and valid, which is
\* RunLifecycle's EvidenceMatchesStatus.
Recover ==
    /\ ~up /\ run = "running"
    /\ outcome' = IF UncertainEntries = {} THEN "stopped_no_replay" ELSE "blocked_uncertain_action"
    /\ run' = "failed"
    /\ UNCHANGED <<inv, ledger, effects, up, pc, call, tool, approval, thrown, result, raising>>

-----------------------------------------------------------------------------

TaskStep ==
    \/ Respond \/ RefuseTool \/ \E t \in Tools : RequestTool(t)
    \/ RecordInvocation \/ RequestApproval \/ LinkApproval \/ SeeDecision \/ WaitTimesOut
    \/ RecordIntent \/ MarkStarted \/ Execute \/ ExecutionFails \/ ExecutionReturns
    \/ ExecutionTimesOut \/ CompleteInvocation \/ CompleteLedger
    \/ CancelledBetween \/ CancelledWaiting \/ CancelledExecuting \/ Unwind

Next ==
    \/ TaskStep \/ Stop \/ Crash \/ Recover
    \/ \E c \in Calls : Decide(c)

Spec == Init /\ [][Next]_vars

\* The event loop runs the task and its timers, and the process is started again
\* after a crash.  Nobody has to decide anything.
FairSpec == Spec /\ WF_vars(TaskStep) /\ WF_vars(Recover)

-----------------------------------------------------------------------------
(* Properties.                                                             *)

\* An application is launched only for a request that the user approved, however
\* the decision, the approval timeout and a stop of the run race.
NoUnapprovedEffect == up => \A c \in effects : approval[c] = "approved"

\* The evidence never denies an effect: from the launch on, through timeouts,
\* cancellations and a crash at any point, the ledger says that it may have
\* happened or that it has, and the invocation row exists.
EffectsOnRecord ==
    \A c \in effects :
        /\ ledger[c] \in {"started", "uncertain", "confirmed"}
        /\ inv[c] \notin {"none", "rejected", "expired"}

\* An interrupted run is declared free of uncertain actions only if each of its
\* effects was confirmed.
RecoveryIsConservative ==
    outcome = "stopped_no_replay" => \A c \in effects : ledger[c] = "confirmed"

\* A decision about an approval request stands: no later decision, timeout or
\* cancellation changes it while the process lives.
DecisionsAreFinal ==
    [][\A c \in Calls : approval[c] \in Decided => approval'[c] = approval[c] \/ ~up']_vars

\* A controlled action that reads succeeded was launched.
ControlledSuccessIsReal ==
    \A c \in Calls : tool[c] = "open" /\ inv[c] = "succeeded" => c \in effects

\* The run ends although nobody ever decides: approval and execution timeouts,
\* the limit on tool steps and recovery see to it.
LexiRunEnds == <>(run # "running")

\* Calls that have not begun have left no trace.
FutureIsBlank ==
    \A c \in Calls : c > call =>
        /\ inv[c] = "none" /\ ledger[c] = "none" /\ c \notin effects
        /\ tool[c] = "none" /\ approval[c] = "none"

AskingPoints == {"recorded", "linking", "waiting"}
EffectPoints == {"intent", "starting", "executing", "launched"}
ReportPoints == {"completing", "confirming"}

\* What the task has written for its call, by control point.
CallAt ==
    /\ pc \in {"recording"} \cup AskingPoints \cup EffectPoints \cup ReportPoints =>
          up /\ call \in Calls /\ tool[call] # "none"
    /\ pc = "recording" => inv[call] = "none"
    /\ pc \in {"recording", "recorded"} => approval[call] = "none"
    /\ pc \in {"recording"} \cup AskingPoints => ledger[call] = "none" /\ call \notin effects
    /\ pc \in AskingPoints => tool[call] = "open" /\ inv[call] = "pending_approval"
    /\ pc \in {"intent", "starting", "executing"} => call \notin effects
    /\ pc \in EffectPoints /\ tool[call] = "open" =>
          approval[call] = "approved" /\ inv[call] = "pending_approval"
    /\ pc \in {"executing", "launched"} => tool[call] = "open" /\ ledger[call] = "started"
    /\ pc = "launched" => call \in effects
    /\ pc \in ReportPoints /\ tool[call] = "open" /\ result.inv = "succeeded" => call \in effects
    /\ pc \in ReportPoints /\ call \in effects =>
          result.inv \notin {"rejected", "expired"} /\ result.ledger \in {"uncertain", "confirmed"}

\* Inductive strengthening of the safety properties: the evidence runs ahead of the
\* effect at every point of ToolService.execute at which the task can be cut off.
TInv ==
    /\ TypeOK /\ FutureIsBlank /\ CallAt
    /\ \A c \in effects : tool[c] = "open"
    /\ NoUnapprovedEffect /\ EffectsOnRecord /\ ControlledSuccessIsReal
    /\ RecoveryIsConservative
    /\ outcome # "none" => ~up /\ run # "running"
    /\ ~up => pc = "ended"
=============================================================================
