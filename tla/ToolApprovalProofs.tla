------------------------- MODULE ToolApprovalProofs -------------------------
(***************************************************************************)
(* TInv is an inductive invariant of ToolApproval, for every number of     *)
(* tool steps: one lemma per action, in the order of the specification,    *)
(* then the theorems that follow.                                          *)
(***************************************************************************)
EXTENDS ToolApproval, TLAPS

USE DEF Calls, Tools, Ended, Decided, ToolEnded, LedgerEnded, Points,
        AskingPoints, EffectPoints, ReportPoints

\* Before the first decision nothing is recorded, approved or launched.
LEMMA InitT == ASSUME Init PROVE TInv
<1>1. TypeOK
  <2>1. result \in [inv : ToolEnded, ledger : LedgerEnded \cup {"none"}]
    BY DEF Init, Unset
  <2>2. up \in BOOLEAN /\ thrown \in BOOLEAN /\ raising \in BOOLEAN
    BY DEF Init
  <2>3. call \in 0 .. MaxSteps
    BY StepsAssumption DEF Init
  <2> QED BY <2>1, <2>2, <2>3 DEF Init, TypeOK
<1> QED
  BY <1>1, StepsAssumption DEF Init, TInv, FutureIsBlank, CallAt, NoUnapprovedEffect,
     EffectsOnRecord, ControlledSuccessIsReal, RecoveryIsConservative

\* Respond preserves the invariant.
LEMMA RespondT == ASSUME TInv, Respond PROVE TInv'
BY StepsAssumption DEF Respond, At, EndRun, TInv, TypeOK, FutureIsBlank, CallAt,
   NoUnapprovedEffect, EffectsOnRecord, ControlledSuccessIsReal, RecoveryIsConservative

\* RefuseTool preserves the invariant.
LEMMA RefuseToolT == ASSUME TInv, RefuseTool PROVE TInv'
BY StepsAssumption DEF RefuseTool, durable, At, TInv, TypeOK, FutureIsBlank, CallAt,
   NoUnapprovedEffect, EffectsOnRecord, ControlledSuccessIsReal, RecoveryIsConservative

\* RequestTool preserves the invariant.
LEMMA RequestToolT == ASSUME NEW t \in Tools, TInv, RequestTool(t) PROVE TInv'
BY StepsAssumption DEF RequestTool, durable, At, TInv, TypeOK, FutureIsBlank, CallAt,
   NoUnapprovedEffect, EffectsOnRecord, ControlledSuccessIsReal, RecoveryIsConservative

\* RecordInvocation preserves the invariant.
LEMMA RecordInvocationT == ASSUME TInv, RecordInvocation PROVE TInv'
BY StepsAssumption DEF RecordInvocation, At, WriteInvocation, RequiresApproval, durable,
   TInv, TypeOK, FutureIsBlank, CallAt, NoUnapprovedEffect, EffectsOnRecord,
   ControlledSuccessIsReal, RecoveryIsConservative

\* RequestApproval preserves the invariant.
LEMMA RequestApprovalT == ASSUME TInv, RequestApproval PROVE TInv'
BY StepsAssumption DEF RequestApproval, durable, At, TInv, TypeOK, FutureIsBlank,
   CallAt, NoUnapprovedEffect, EffectsOnRecord, ControlledSuccessIsReal,
   RecoveryIsConservative

\* LinkApproval preserves the invariant.
LEMMA LinkApprovalT == ASSUME TInv, LinkApproval PROVE TInv'
BY StepsAssumption DEF LinkApproval, durable, At, TInv, TypeOK, FutureIsBlank, CallAt,
   NoUnapprovedEffect, EffectsOnRecord, ControlledSuccessIsReal, RecoveryIsConservative

\* SeeDecision preserves the invariant.
LEMMA SeeDecisionT == ASSUME TInv, SeeDecision PROVE TInv'
BY StepsAssumption DEF SeeDecision, durable, At, Report, TInv, TypeOK, FutureIsBlank,
   CallAt, NoUnapprovedEffect, EffectsOnRecord, ControlledSuccessIsReal,
   RecoveryIsConservative

\* WaitTimesOut preserves the invariant.
LEMMA WaitTimesOutT == ASSUME TInv, WaitTimesOut PROVE TInv'
BY StepsAssumption DEF WaitTimesOut, durable, At, Expire, Report, TInv, TypeOK,
   FutureIsBlank, CallAt, NoUnapprovedEffect, EffectsOnRecord, ControlledSuccessIsReal,
   RecoveryIsConservative

\* RecordIntent preserves the invariant.
LEMMA RecordIntentT == ASSUME TInv, RecordIntent PROVE TInv'
BY StepsAssumption DEF RecordIntent, At, WriteLedger, TInv, TypeOK, FutureIsBlank,
   CallAt, NoUnapprovedEffect, EffectsOnRecord, ControlledSuccessIsReal,
   RecoveryIsConservative

\* MarkStarted preserves the invariant.
LEMMA MarkStartedT == ASSUME TInv, MarkStarted PROVE TInv'
BY StepsAssumption DEF MarkStarted, At, WriteLedger, Report, TInv, TypeOK,
   FutureIsBlank, CallAt, NoUnapprovedEffect, EffectsOnRecord, ControlledSuccessIsReal,
   RecoveryIsConservative

\* Execute preserves the invariant.
LEMMA ExecuteT == ASSUME TInv, Execute PROVE TInv'
BY StepsAssumption DEF Execute, At, Launch, TInv, TypeOK, FutureIsBlank, CallAt,
   NoUnapprovedEffect, EffectsOnRecord, ControlledSuccessIsReal, RecoveryIsConservative

\* ExecutionFails preserves the invariant.
LEMMA ExecutionFailsT == ASSUME TInv, ExecutionFails PROVE TInv'
BY StepsAssumption DEF ExecutionFails, durable, At, Report, TInv, TypeOK, FutureIsBlank,
   CallAt, NoUnapprovedEffect, EffectsOnRecord, ControlledSuccessIsReal,
   RecoveryIsConservative

\* ExecutionReturns preserves the invariant.
LEMMA ExecutionReturnsT == ASSUME TInv, ExecutionReturns PROVE TInv'
BY StepsAssumption DEF ExecutionReturns, durable, At, Report, TInv, TypeOK,
   FutureIsBlank, CallAt, NoUnapprovedEffect, EffectsOnRecord, ControlledSuccessIsReal,
   RecoveryIsConservative

\* ExecutionTimesOut preserves the invariant.
LEMMA ExecutionTimesOutT == ASSUME TInv, ExecutionTimesOut PROVE TInv'
BY StepsAssumption DEF ExecutionTimesOut, durable, At, Report, TInv, TypeOK,
   FutureIsBlank, CallAt, NoUnapprovedEffect, EffectsOnRecord, ControlledSuccessIsReal,
   RecoveryIsConservative

\* CompleteInvocation preserves the invariant.
LEMMA CompleteInvocationT == ASSUME TInv, CompleteInvocation PROVE TInv'
BY StepsAssumption DEF CompleteInvocation, At, AfterComplete, TInv, TypeOK,
   FutureIsBlank, CallAt, NoUnapprovedEffect, EffectsOnRecord, ControlledSuccessIsReal,
   RecoveryIsConservative

\* CompleteLedger preserves the invariant.
LEMMA CompleteLedgerT == ASSUME TInv, CompleteLedger PROVE TInv'
BY StepsAssumption DEF CompleteLedger, At, WriteLedger, AfterComplete, TInv, TypeOK,
   FutureIsBlank, CallAt, NoUnapprovedEffect, EffectsOnRecord, ControlledSuccessIsReal,
   RecoveryIsConservative

\* CancelledBetween preserves the invariant.
LEMMA CancelledBetweenT == ASSUME TInv, CancelledBetween PROVE TInv'
<1>1. TypeOK'
  <2>1. inv' \in [Calls -> {"none", "pending_approval"} \cup ToolEnded]
    BY DEF CancelledBetween, CancelAt, WriteInvocation, TInv, TypeOK, CallAt
  <2>2. ledger' \in [Calls -> {"none", "intent_recorded", "started"} \cup LedgerEnded]
    BY DEF CancelledBetween, CancelAt, WriteLedger, TInv, TypeOK, CallAt
  <2> QED BY <2>1, <2>2 DEF CancelledBetween, CancelAt, TInv, TypeOK
<1>2. FutureIsBlank'
  BY StepsAssumption DEF CancelledBetween, CancelAt, WriteInvocation, WriteLedger,
     RequiresApproval, durable, TInv, TypeOK, FutureIsBlank, CallAt, NoUnapprovedEffect,
     EffectsOnRecord, ControlledSuccessIsReal, RecoveryIsConservative
<1>3. CallAt'
  BY StepsAssumption DEF CancelledBetween, CancelAt, WriteInvocation, WriteLedger,
     RequiresApproval, durable, TInv, TypeOK, FutureIsBlank, CallAt, NoUnapprovedEffect,
     EffectsOnRecord, ControlledSuccessIsReal, RecoveryIsConservative
<1>4. \A c \in effects' : tool'[c] = "open"
  BY StepsAssumption DEF CancelledBetween, CancelAt, WriteInvocation, WriteLedger,
     RequiresApproval, durable, TInv, TypeOK, FutureIsBlank, CallAt, NoUnapprovedEffect,
     EffectsOnRecord, ControlledSuccessIsReal, RecoveryIsConservative
<1>5. NoUnapprovedEffect'
  BY StepsAssumption DEF CancelledBetween, CancelAt, WriteInvocation, WriteLedger,
     RequiresApproval, durable, TInv, TypeOK, FutureIsBlank, CallAt, NoUnapprovedEffect,
     EffectsOnRecord, ControlledSuccessIsReal, RecoveryIsConservative
<1>6. EffectsOnRecord'
  BY StepsAssumption DEF CancelledBetween, CancelAt, WriteInvocation, WriteLedger,
     RequiresApproval, durable, TInv, TypeOK, FutureIsBlank, CallAt, NoUnapprovedEffect,
     EffectsOnRecord, ControlledSuccessIsReal, RecoveryIsConservative
<1>7. ControlledSuccessIsReal'
  BY StepsAssumption DEF CancelledBetween, CancelAt, WriteInvocation, WriteLedger,
     RequiresApproval, durable, TInv, TypeOK, FutureIsBlank, CallAt, NoUnapprovedEffect,
     EffectsOnRecord, ControlledSuccessIsReal, RecoveryIsConservative
<1>8. RecoveryIsConservative' /\ (outcome' # "none" => ~up' /\ run' # "running") /\ (~up' => pc' = "ended")
  BY StepsAssumption DEF CancelledBetween, CancelAt, WriteInvocation, WriteLedger,
     RequiresApproval, durable, TInv, TypeOK, FutureIsBlank, CallAt, NoUnapprovedEffect,
     EffectsOnRecord, ControlledSuccessIsReal, RecoveryIsConservative
<1> QED BY <1>1, <1>2, <1>3, <1>4, <1>5, <1>6, <1>7, <1>8 DEF TInv

\* CancelledWaiting preserves the invariant.
LEMMA CancelledWaitingT == ASSUME TInv, CancelledWaiting PROVE TInv'
<1>1. TypeOK'
  BY StepsAssumption DEF CancelledWaiting, durable, CancelAt, TInv, TypeOK,
     FutureIsBlank, CallAt, NoUnapprovedEffect, EffectsOnRecord,
     ControlledSuccessIsReal, RecoveryIsConservative
<1>2. FutureIsBlank'
  BY StepsAssumption DEF CancelledWaiting, durable, CancelAt, TInv, TypeOK,
     FutureIsBlank, CallAt, NoUnapprovedEffect, EffectsOnRecord,
     ControlledSuccessIsReal, RecoveryIsConservative
<1>3. CallAt'
  BY StepsAssumption DEF CancelledWaiting, durable, CancelAt, TInv, TypeOK,
     FutureIsBlank, CallAt, NoUnapprovedEffect, EffectsOnRecord,
     ControlledSuccessIsReal, RecoveryIsConservative
<1>4. \A c \in effects' : tool'[c] = "open"
  BY StepsAssumption DEF CancelledWaiting, durable, CancelAt, TInv, TypeOK,
     FutureIsBlank, CallAt, NoUnapprovedEffect, EffectsOnRecord,
     ControlledSuccessIsReal, RecoveryIsConservative
<1>5. NoUnapprovedEffect'
  BY StepsAssumption DEF CancelledWaiting, durable, CancelAt, TInv, TypeOK,
     FutureIsBlank, CallAt, NoUnapprovedEffect, EffectsOnRecord,
     ControlledSuccessIsReal, RecoveryIsConservative
<1>6. EffectsOnRecord'
  BY StepsAssumption DEF CancelledWaiting, durable, CancelAt, TInv, TypeOK,
     FutureIsBlank, CallAt, NoUnapprovedEffect, EffectsOnRecord,
     ControlledSuccessIsReal, RecoveryIsConservative
<1>7. ControlledSuccessIsReal'
  BY StepsAssumption DEF CancelledWaiting, durable, CancelAt, TInv, TypeOK,
     FutureIsBlank, CallAt, NoUnapprovedEffect, EffectsOnRecord,
     ControlledSuccessIsReal, RecoveryIsConservative
<1>8. RecoveryIsConservative' /\ (outcome' # "none" => ~up' /\ run' # "running") /\ (~up' => pc' = "ended")
  BY StepsAssumption DEF CancelledWaiting, durable, CancelAt, TInv, TypeOK,
     FutureIsBlank, CallAt, NoUnapprovedEffect, EffectsOnRecord,
     ControlledSuccessIsReal, RecoveryIsConservative
<1> QED BY <1>1, <1>2, <1>3, <1>4, <1>5, <1>6, <1>7, <1>8 DEF TInv

\* CancelledExecuting preserves the invariant.
LEMMA CancelledExecutingT == ASSUME TInv, CancelledExecuting PROVE TInv'
<1>0. /\ up /\ up' /\ call \in Calls /\ ledger[call] = "started"
      /\ tool[call] = "open" => approval[call] = "approved" /\ inv[call] = "pending_approval"
      /\ effects' = effects \/ (tool[call] = "open" /\ effects' = effects \cup {call})
  BY DEF CancelledExecuting, CancelAt, Launch, TInv, CallAt
<1>1. TypeOK'
  BY StepsAssumption DEF CancelledExecuting, CancelAt, Report, Launch, TInv, TypeOK,
     FutureIsBlank, CallAt, NoUnapprovedEffect, EffectsOnRecord,
     ControlledSuccessIsReal, RecoveryIsConservative
<1>2. FutureIsBlank'
  BY StepsAssumption DEF CancelledExecuting, CancelAt, Report, Launch, TInv, TypeOK,
     FutureIsBlank, CallAt, NoUnapprovedEffect, EffectsOnRecord,
     ControlledSuccessIsReal, RecoveryIsConservative
<1>3. CallAt'
  BY StepsAssumption DEF CancelledExecuting, CancelAt, Report, Launch, TInv, TypeOK,
     FutureIsBlank, CallAt, NoUnapprovedEffect, EffectsOnRecord,
     ControlledSuccessIsReal, RecoveryIsConservative
<1>4. \A c \in effects' : tool'[c] = "open"
  BY <1>0 DEF CancelledExecuting, TInv
<1>5. NoUnapprovedEffect'
  BY <1>0 DEF CancelledExecuting, TInv, NoUnapprovedEffect
<1>6. EffectsOnRecord'
  BY <1>0 DEF CancelledExecuting, TInv, EffectsOnRecord
<1>7. ControlledSuccessIsReal'
  BY StepsAssumption DEF CancelledExecuting, CancelAt, Report, Launch, TInv, TypeOK,
     FutureIsBlank, CallAt, NoUnapprovedEffect, EffectsOnRecord,
     ControlledSuccessIsReal, RecoveryIsConservative
<1>8. RecoveryIsConservative' /\ (outcome' # "none" => ~up' /\ run' # "running") /\ (~up' => pc' = "ended")
  BY StepsAssumption DEF CancelledExecuting, CancelAt, Report, Launch, TInv, TypeOK,
     FutureIsBlank, CallAt, NoUnapprovedEffect, EffectsOnRecord,
     ControlledSuccessIsReal, RecoveryIsConservative
<1> QED BY <1>1, <1>2, <1>3, <1>4, <1>5, <1>6, <1>7, <1>8 DEF TInv

\* Unwind preserves the invariant.
LEMMA UnwindT == ASSUME TInv, Unwind PROVE TInv'
BY StepsAssumption DEF Unwind, EndRun, TInv, TypeOK, FutureIsBlank, CallAt,
   NoUnapprovedEffect, EffectsOnRecord, ControlledSuccessIsReal, RecoveryIsConservative

\* Stop preserves the invariant.
LEMMA StopT == ASSUME TInv, Stop PROVE TInv'
BY StepsAssumption DEF Stop, durable, TInv, TypeOK, FutureIsBlank, CallAt,
   NoUnapprovedEffect, EffectsOnRecord, ControlledSuccessIsReal, RecoveryIsConservative

\* Decide preserves the invariant.
LEMMA DecideT == ASSUME NEW c \in Calls, TInv, Decide(c) PROVE TInv'
BY StepsAssumption DEF Decide, durable, TInv, TypeOK, FutureIsBlank, CallAt,
   NoUnapprovedEffect, EffectsOnRecord, ControlledSuccessIsReal, RecoveryIsConservative

\* Crash preserves the invariant.
LEMMA CrashT == ASSUME TInv, Crash PROVE TInv'
<1>1. TypeOK'
  BY StepsAssumption DEF Crash, durable, TInv, TypeOK, FutureIsBlank, CallAt,
     NoUnapprovedEffect, EffectsOnRecord, ControlledSuccessIsReal,
     RecoveryIsConservative
<1>2. FutureIsBlank'
  BY StepsAssumption DEF Crash, durable, TInv, TypeOK, FutureIsBlank, CallAt,
     NoUnapprovedEffect, EffectsOnRecord, ControlledSuccessIsReal,
     RecoveryIsConservative
<1>3. CallAt'
  BY StepsAssumption DEF Crash, durable, TInv, TypeOK, FutureIsBlank, CallAt,
     NoUnapprovedEffect, EffectsOnRecord, ControlledSuccessIsReal,
     RecoveryIsConservative
<1>4. \A c \in effects' : tool'[c] = "open"
  BY StepsAssumption DEF Crash, durable, TInv, TypeOK, FutureIsBlank, CallAt,
     NoUnapprovedEffect, EffectsOnRecord, ControlledSuccessIsReal,
     RecoveryIsConservative
<1>5. NoUnapprovedEffect'
  BY StepsAssumption DEF Crash, durable, TInv, TypeOK, FutureIsBlank, CallAt,
     NoUnapprovedEffect, EffectsOnRecord, ControlledSuccessIsReal,
     RecoveryIsConservative
<1>6. EffectsOnRecord'
  BY StepsAssumption DEF Crash, durable, TInv, TypeOK, FutureIsBlank, CallAt,
     NoUnapprovedEffect, EffectsOnRecord, ControlledSuccessIsReal,
     RecoveryIsConservative
<1>7. ControlledSuccessIsReal'
  BY StepsAssumption DEF Crash, durable, TInv, TypeOK, FutureIsBlank, CallAt,
     NoUnapprovedEffect, EffectsOnRecord, ControlledSuccessIsReal,
     RecoveryIsConservative
<1>8. RecoveryIsConservative' /\ (outcome' # "none" => ~up' /\ run' # "running") /\ (~up' => pc' = "ended")
  BY StepsAssumption DEF Crash, durable, TInv, TypeOK, FutureIsBlank, CallAt,
     NoUnapprovedEffect, EffectsOnRecord, ControlledSuccessIsReal,
     RecoveryIsConservative
<1> QED BY <1>1, <1>2, <1>3, <1>4, <1>5, <1>6, <1>7, <1>8 DEF TInv

\* Recover preserves the invariant.
LEMMA RecoverT == ASSUME TInv, Recover PROVE TInv'
BY StepsAssumption DEF Recover, UncertainEntries, TInv, TypeOK, FutureIsBlank, CallAt,
   NoUnapprovedEffect, EffectsOnRecord, ControlledSuccessIsReal, RecoveryIsConservative

\* Every step preserves the invariant.
LEMMA NextT == ASSUME TInv, [Next]_vars PROVE TInv'
<1>1. CASE TaskStep
  <2>1. CASE \E t \in Tools : RequestTool(t) BY <2>1, RequestToolT
  <2>2. CASE Respond \/ RefuseTool \/ RecordInvocation \/ RequestApproval \/ LinkApproval
             \/ SeeDecision \/ WaitTimesOut
    BY <2>2, RespondT, RefuseToolT, RecordInvocationT, RequestApprovalT, LinkApprovalT,
       SeeDecisionT, WaitTimesOutT
  <2>3. CASE RecordIntent \/ MarkStarted \/ Execute \/ ExecutionFails \/ ExecutionReturns
             \/ ExecutionTimesOut \/ CompleteInvocation \/ CompleteLedger
    BY <2>3, RecordIntentT, MarkStartedT, ExecuteT, ExecutionFailsT, ExecutionReturnsT,
       ExecutionTimesOutT, CompleteInvocationT, CompleteLedgerT
  <2>4. CASE CancelledBetween \/ CancelledWaiting \/ CancelledExecuting \/ Unwind
    BY <2>4, CancelledBetweenT, CancelledWaitingT, CancelledExecutingT, UnwindT
  <2> QED BY <1>1, <2>1, <2>2, <2>3, <2>4 DEF TaskStep
<1>2. CASE Stop \/ Crash \/ Recover BY <1>2, StopT, CrashT, RecoverT
<1>3. CASE \E c \in Calls : Decide(c) BY <1>3, DecideT
<1>4. CASE UNCHANGED vars
  BY <1>4 DEF vars, durable, TInv, TypeOK, FutureIsBlank, CallAt, NoUnapprovedEffect,
     EffectsOnRecord, ControlledSuccessIsReal, RecoveryIsConservative
<1> QED BY <1>1, <1>2, <1>3, <1>4 DEF Next

\* TInv is an invariant, for every limit on tool steps.
THEOREM ToolInvariance == Spec => []TInv
<1>1. Init => TInv BY InitT
<1>2. TInv /\ [Next]_vars => TInv' BY NextT
<1> QED BY <1>1, <1>2, PTL DEF Spec

\* ToolService launches an application only for an approved request.
THEOREM ApprovalRequired == Spec => []NoUnapprovedEffect
<1>1. TInv => NoUnapprovedEffect BY DEF TInv
<1> QED BY <1>1, ToolInvariance, PTL

\* No timeout, cancellation or crash leaves an effect without its ledger entry.
THEOREM EvidenceComplete == Spec => []EffectsOnRecord
<1>1. TInv => EffectsOnRecord BY DEF TInv
<1> QED BY <1>1, ToolInvariance, PTL

\* _recovery_outcome clears a run only if all its effects were confirmed.
THEOREM RecoverySound == Spec => []RecoveryIsConservative
<1>1. TInv => RecoveryIsConservative BY DEF TInv
<1> QED BY <1>1, ToolInvariance, PTL

\* ApprovalService never revises a decision.
THEOREM DecisionsStand == Spec => DecisionsAreFinal
<1> DEFINE Stands == \A c \in Calls : approval[c] \in Decided => approval'[c] = approval[c] \/ ~up'
<1>1. ASSUME TInv, [Next]_vars PROVE Stands
  <2>1. CASE UNCHANGED approval BY <2>1
  <2>2. CASE RequestApproval BY <2>2, <1>1 DEF RequestApproval, At, TInv, TypeOK, CallAt
  <2>3. CASE WaitTimesOut BY <2>3, <1>1 DEF WaitTimesOut, Expire, TInv, TypeOK
  <2>4. CASE CancelledWaiting BY <2>4, <1>1 DEF CancelledWaiting, TInv, TypeOK
  <2>5. CASE \E c \in Calls : Decide(c) BY <2>5, <1>1 DEF Decide, TInv, TypeOK
  <2>6. CASE Crash BY <2>6 DEF Crash
  <2> QED
    BY <1>1, <2>1, <2>2, <2>3, <2>4, <2>5, <2>6 DEF Next, TaskStep, vars, Respond, RefuseTool,
       RequestTool, RecordInvocation, LinkApproval, SeeDecision, RecordIntent, MarkStarted,
       Execute, ExecutionFails, ExecutionReturns, ExecutionTimesOut, CompleteInvocation,
       CompleteLedger, CancelledBetween, CancelledExecuting, Unwind, Stop, Recover
<1> QED BY <1>1, ToolInvariance, PTL DEF DecisionsAreFinal, Spec
=============================================================================
