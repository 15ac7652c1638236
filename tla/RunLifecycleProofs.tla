------------------------- MODULE RunLifecycleProofs -------------------------
(***************************************************************************)
(* Proofs about RunLifecycle for any number of agents, runs, stop_run      *)
(* callers, graphs and restarts.  A theorem that assumes ~EarlyStop is     *)
(* about clients that stop a run only once its start has returned; the     *)
(* two sections at the end do without that assumption.                     *)
(***************************************************************************)
EXTENDS RunLifecycleInv, TLAPS

USE ConstantsAssumption
USE DEF IInv, Callers, Active, Terminal, rows, fin, stop, tasks, process,
        InitialCheckpoint, LifecycleCheckpoint

-----------------------------------------------------------------------------
(* Helpers on checkpoint trails.                                           *)

\* A checkpoint that has just been appended is the latest one.
LEMMA AppendIsLatest ==
  ASSUME NEW S, NEW q \in Seq(S), NEW e \in S
  PROVE  /\ Append(q, e) \in Seq(S) /\ Append(q, e) # <<>>
         /\ Append(q, e)[Len(Append(q, e))] = e
  OBVIOUS

-----------------------------------------------------------------------------
(* The transactions and calls several actions share.                       *)

\* A task that leaves its try block for a _finish_* call.
LEMMA GoFinishKeeps ==
  ASSUME IInv, NEW r \in Runs, NEW out \in Terminal,
         task[r] \in {"ready", "marking", "prepared", "invoking"},
         out = "succeeded" => task[r] = "invoking",
         GoFinish(r, out), cancelled' = cancelled \ {r},
         UNCHANGED <<rows, process, starting, handles, executed, stop, todo>>
  PROVE  IInv'
  <1>1. TypeOK'
    BY DEF GoFinish, CallFinish, TypeOK, TaskPoints, Reasons, Outcomes
  <1>2. CallsNamed'
    BY DEF GoFinish, CallFinish, TypeOK, TaskPoints, Reasons, Outcomes, CallsNamed
  <1>3. WritersExclusive'
    BY DEF GoFinish, CallFinish, TypeOK, TaskPoints, Reasons, Outcomes,
       WritersExclusive
  <1>4. StartersAlone'
    BY DEF GoFinish, CallFinish, TypeOK, TaskPoints, Reasons, Outcomes, StartersAlone
  <1>5. TasksMatchRows'
    BY DEF GoFinish, CallFinish, TypeOK, TaskPoints, Reasons, Outcomes, TasksMatchRows
  <1>6. TasksAhead'
    BY DEF GoFinish, CallFinish, TypeOK, TaskPoints, Reasons, Outcomes, TasksAhead,
       Before
  <1>7. EndsStay'
    BY DEF GoFinish, CallFinish, TypeOK, TaskPoints, Reasons, Outcomes, EndsStay,
       FinishReturnsEnded
  <1>8. OwnersExist' /\ OneActiveRunPerAgent' /\ EvidenceMatchesStatus'
    BY DEF GoFinish, CallFinish, OwnersExist, Exists, HasActive, OneActiveRunPerAgent,
       EvidenceMatchesStatus
  <1>. QED
    BY <1>1, <1>2, <1>3, <1>4, <1>5, <1>6, <1>7, <1>8 DEF IInv

\* _mark_running finds the run as it read it: nobody can have ended it.
LEMMA MarkKeeps ==
  ASSUME IInv, NEW r \in Runs, task[r] = "marking",
         WriteRunning(r), task' = [task EXCEPT ![r] = "prepared"],
         UNCHANGED <<process, starting, handles, cancelled, executed, fin, stop, todo>>
  PROVE  IInv'
  <1>1. TypeOK'
    BY DEF WriteRunning, CanMark, TypeOK, TaskPoints, Reasons, Outcomes
  <1>2. CallsNamed'
    BY DEF WriteRunning, CanMark, TypeOK, TaskPoints, Reasons, Outcomes, CallsNamed
  <1>3. OwnersExist'
    BY DEF WriteRunning, CanMark, TypeOK, TaskPoints, Reasons, Outcomes,
       TasksMatchRows, OwnersExist, Exists, HasActive
  <1>4. OneActiveRunPerAgent'
    BY DEF WriteRunning, CanMark, TypeOK, TaskPoints, Reasons, Outcomes,
       OneActiveRunPerAgent
  <1>5. WritersExclusive'
    BY DEF WriteRunning, CanMark, TypeOK, TaskPoints, Reasons, Outcomes,
       WritersExclusive
  <1>6. StartersAlone'
    BY DEF WriteRunning, CanMark, TypeOK, TaskPoints, Reasons, Outcomes, StartersAlone
  <1>7. TasksMatchRows'
    BY DEF WriteRunning, CanMark, TypeOK, TaskPoints, Reasons, Outcomes,
       TasksMatchRows
  <1>8. TasksAhead'
    BY DEF WriteRunning, CanMark, TypeOK, TaskPoints, Reasons, Outcomes, TasksAhead,
       Before
  <1>9. EndsStay'
    BY DEF WriteRunning, CanMark, TypeOK, TaskPoints, Reasons, Outcomes,
       TasksMatchRows, EndsStay, FinishReturnsEnded
  <1>10. EvidenceMatchesStatus'
    <2>1. trail[r] \in Seq(Reasons) /\ "running" \in Reasons
      BY DEF TypeOK, Reasons
    <2>2. trail'[r] = Append(trail[r], "running") /\ runStatus'[r] = "running"
      BY DEF WriteRunning, TypeOK
    <2>3. trail'[r] # <<>> /\ trail'[r][Len(trail'[r])] = "running"
      BY <2>1, <2>2, AppendIsLatest
    <2>4. decisions'[r] = <<>>
      BY DEF WriteRunning, TypeOK, TasksMatchRows, EvidenceMatchesStatus
    <2>5. \A q \in Runs \ {r} : /\ trail'[q] = trail[q] /\ runStatus'[q] = runStatus[q]
                                /\ decisions'[q] = decisions[q]
      BY DEF WriteRunning, TypeOK
    <2>. QED
      BY <2>2, <2>3, <2>4, <2>5 DEF EvidenceMatchesStatus
  <1>. QED
    BY <1>1, <1>2, <1>3, <1>4, <1>5, <1>6, <1>7, <1>8, <1>9, <1>10 DEF IInv

\* The same commit, the task being cancelled while it waits for it.
LEMMA MarkCancelledKeeps ==
  ASSUME IInv, NEW r \in Runs, task[r] = "marking",
         WriteRunning(r), GoFinish(r, "cancelled"), cancelled' = cancelled \ {r},
         UNCHANGED <<process, starting, handles, executed, stop, todo>>
  PROVE  IInv'
  <1>1. TypeOK'
    BY DEF WriteRunning, CanMark, GoFinish, CallFinish, TypeOK, TaskPoints, Reasons,
       Outcomes
  <1>2. CallsNamed'
    BY DEF WriteRunning, CanMark, GoFinish, CallFinish, TypeOK, TaskPoints, Reasons,
       Outcomes, CallsNamed
  <1>3. OwnersExist'
    BY DEF WriteRunning, CanMark, GoFinish, CallFinish, TypeOK, TaskPoints, Reasons,
       Outcomes, TasksMatchRows, OwnersExist, Exists, HasActive
  <1>4. OneActiveRunPerAgent'
    BY DEF WriteRunning, CanMark, GoFinish, CallFinish, TypeOK, TaskPoints, Reasons,
       Outcomes, OneActiveRunPerAgent
  <1>5. WritersExclusive'
    BY DEF WriteRunning, CanMark, GoFinish, CallFinish, TypeOK, TaskPoints, Reasons,
       Outcomes, WritersExclusive
  <1>6. StartersAlone'
    BY DEF WriteRunning, CanMark, GoFinish, CallFinish, TypeOK, TaskPoints, Reasons,
       Outcomes, StartersAlone
  <1>7. TasksMatchRows'
    BY DEF WriteRunning, CanMark, GoFinish, CallFinish, TypeOK, TaskPoints, Reasons,
       Outcomes, TasksMatchRows
  <1>8. TasksAhead'
    BY DEF WriteRunning, CanMark, GoFinish, CallFinish, TypeOK, TaskPoints, Reasons,
       Outcomes, TasksAhead, Before
  <1>9. EndsStay'
    BY DEF WriteRunning, CanMark, GoFinish, CallFinish, TypeOK, TaskPoints, Reasons,
       Outcomes, TasksMatchRows, EndsStay, FinishReturnsEnded
  <1>10. EvidenceMatchesStatus'
    <2>1. trail[r] \in Seq(Reasons) /\ "running" \in Reasons
      BY DEF TypeOK, Reasons
    <2>2. trail'[r] = Append(trail[r], "running") /\ runStatus'[r] = "running"
      BY DEF WriteRunning, TypeOK
    <2>3. trail'[r] # <<>> /\ trail'[r][Len(trail'[r])] = "running"
      BY <2>1, <2>2, AppendIsLatest
    <2>4. decisions'[r] = <<>>
      BY DEF WriteRunning, TypeOK, TasksMatchRows, EvidenceMatchesStatus
    <2>5. \A q \in Runs \ {r} : /\ trail'[q] = trail[q] /\ runStatus'[q] = runStatus[q]
                                /\ decisions'[q] = decisions[q]
      BY DEF WriteRunning, TypeOK
    <2>. QED
      BY <2>2, <2>3, <2>4, <2>5 DEF EvidenceMatchesStatus
  <1>. QED
    BY <1>1, <1>2, <1>3, <1>4, <1>5, <1>6, <1>7, <1>8, <1>9, <1>10 DEF IInv

\* The write of a _finish_* call, by the holder of the terminal lock.
LEMMA WriteTerminalKeeps ==
  ASSUME IInv, NEW c \in Callers, NEW p \in {"returned", "aborted"},
         finPc[c] = "writing", p = "aborted" => c \in Runs,
         WriteTerminal(finRun[c], finOut[c]), finPc' = [finPc EXCEPT ![c] = p],
         cancelled' = cancelled \/ (c \in Runs /\ cancelled' = cancelled \ {c}),
         UNCHANGED <<process, starting, task, handles, executed, finRun, finOut, stop, todo>>
  PROVE  IInv'
  <1>1. TypeOK'
    <2>1. finRun[c] \in Runs /\ finOut[c] \in Terminal
      BY DEF CallsNamed
    <2>2. runStatus' \in [Runs -> {"unborn", "deleted"} \cup Active \cup Terminal]
      BY <2>1 DEF WriteTerminal, TypeOK
    <2>3. agentStatus' \in [Agents -> {"unborn", "idle", "running", "error", "deleted"}]
      BY DEF WriteTerminal, TypeOK
    <2>4. trail' \in [Runs -> Seq(Reasons)]
      <3>1. Append(trail[finRun[c]], finOut[c]) \in Seq(Reasons)
        BY <2>1, AppendIsLatest DEF TypeOK, Reasons
      <3>. QED
        BY <2>1, <3>1 DEF WriteTerminal, TypeOK
    <2>. QED
      BY <2>1, <2>2, <2>3, <2>4 DEF WriteTerminal, TypeOK
  <1>2. CallsNamed'
    BY DEF WriteTerminal, TypeOK, TaskPoints, Reasons, Outcomes, CallsNamed
  <1>3. OwnersExist'
    BY DEF WriteTerminal, TypeOK, TaskPoints, Reasons, Outcomes, CallsNamed,
       OwnersExist, Exists, HasActive, OneActiveRunPerAgent, WritersExclusive,
       StartersAlone, TasksMatchRows, TasksAhead, Before, EndsStay,
       FinishReturnsEnded, EvidenceMatchesStatus
  <1>4. OneActiveRunPerAgent'
    <2>1. owner' = owner /\ \A q \in Runs : runStatus'[q] \in Active => runStatus[q] \in Active
      BY DEF WriteTerminal, TypeOK, CallsNamed
    <2>. QED
      BY <2>1 DEF OneActiveRunPerAgent
  <1>5. WritersExclusive'
    BY DEF WriteTerminal, TypeOK, TaskPoints, Reasons, Outcomes, WritersExclusive
  <1>6. StartersAlone'
    <2>1. finRun[c] \in Runs /\ finRun[c] \notin starting
      BY DEF CallsNamed, StartersAlone, TasksAhead
    <2>. QED
      BY <2>1 DEF WriteTerminal, TypeOK, StartersAlone
  <1>7. TasksMatchRows'
    BY DEF WriteTerminal, TypeOK, TaskPoints, Reasons, Outcomes, CallsNamed,
       TasksAhead, Before, TasksMatchRows
  <1>8. TasksAhead'
    BY DEF WriteTerminal, TypeOK, TaskPoints, Reasons, Outcomes, CallsNamed,
       TasksAhead, Before
  <1>9. EndsStay'
    BY DEF WriteTerminal, TypeOK, TaskPoints, Reasons, Outcomes, CallsNamed,
       TasksAhead, Before, EndsStay, FinishReturnsEnded
  <1>10. EvidenceMatchesStatus'
    <2>1. PICK q \in Runs : q = finRun[c]
      BY DEF CallsNamed
    <2>2. PICK out \in Terminal : out = finOut[c]
      BY DEF CallsNamed
    <2>3. trail[q] \in Seq(Reasons) /\ out \in Reasons
      BY DEF TypeOK, Reasons
    <2>4. trail'[q] = Append(trail[q], out) /\ runStatus'[q] = out
      BY <2>1, <2>2 DEF WriteTerminal, TypeOK
    <2>5. trail'[q] # <<>> /\ trail'[q][Len(trail'[q])] = out
      BY <2>3, <2>4, AppendIsLatest
    <2>6. decisions'[q] = <<>>
      BY <2>1 DEF WriteTerminal, WritersExclusive, EvidenceMatchesStatus
    <2>7. \A o \in Runs \ {q} : /\ trail'[o] = trail[o] /\ runStatus'[o] = runStatus[o]
                                /\ decisions'[o] = decisions[o]
      BY <2>1 DEF WriteTerminal, TypeOK
    <2>. QED
      BY <2>4, <2>5, <2>6, <2>7 DEF EvidenceMatchesStatus
  <1>. QED
    BY <1>1, <1>2, <1>3, <1>4, <1>5, <1>6, <1>7, <1>8, <1>9, <1>10 DEF IInv

\* A _finish_* call abandoned without a commit.
LEMMA AbortKeeps ==
  ASSUME IInv, NEW r \in Runs, task[r] = "finishing",
         finPc' = [finPc EXCEPT ![r] = "aborted"], cancelled' = cancelled \ {r},
         UNCHANGED <<rows, process, starting, task, handles, executed, finRun, finOut, stop, todo>>
  PROVE  IInv'
  <1>1. TypeOK'
    BY DEF TypeOK, TaskPoints, Reasons, Outcomes
  <1>2. CallsNamed'
    BY DEF TypeOK, TaskPoints, Reasons, Outcomes, CallsNamed
  <1>3. WritersExclusive'
    BY DEF TypeOK, TaskPoints, Reasons, Outcomes, WritersExclusive
  <1>4. TasksMatchRows'
    BY DEF TypeOK, TaskPoints, Reasons, Outcomes, TasksMatchRows
  <1>5. TasksAhead'
    BY DEF TypeOK, TaskPoints, Reasons, Outcomes, TasksAhead, Before
  <1>6. EndsStay'
    BY DEF TypeOK, TaskPoints, Reasons, Outcomes, EndsStay, FinishReturnsEnded
  <1>7. OwnersExist' /\ OneActiveRunPerAgent' /\ StartersAlone' /\
     EvidenceMatchesStatus'
      BY DEF OwnersExist, Exists, HasActive, OneActiveRunPerAgent, StartersAlone,
         EvidenceMatchesStatus
  <1>. QED
    BY <1>1, <1>2, <1>3, <1>4, <1>5, <1>6, <1>7 DEF IInv

-----------------------------------------------------------------------------
(* One lemma per action.                                                   *)

\* A new agent owns no run.
LEMMA CreateAgentKeeps ==
  ASSUME IInv, NEW a \in Agents, NEW g \in Graphs, CreateAgent(a, g)
  PROVE  IInv'
  <1>1. TypeOK'
    BY DEF CreateAgent, Exists, TypeOK, TaskPoints, Reasons, Outcomes, CallsNamed
  <1>2. OwnersExist'
    BY DEF CreateAgent, Exists, TypeOK, TaskPoints, Reasons, Outcomes, OwnersExist,
       HasActive
  <1>3. CallsNamed' /\ OneActiveRunPerAgent' /\ WritersExclusive' /\ StartersAlone' /\
     TasksMatchRows' /\ TasksAhead' /\ EndsStay' /\ EvidenceMatchesStatus'
      BY DEF CreateAgent, Exists, CallsNamed, OneActiveRunPerAgent, WritersExclusive,
         StartersAlone, TasksMatchRows, TasksAhead, Before, EndsStay,
         FinishReturnsEnded, EvidenceMatchesStatus
  <1>. QED
    BY <1>1, <1>2, <1>3 DEF IInv

\* Graphs appear in no part of the invariant but their type.
LEMMA UpdateGraphKeeps ==
  ASSUME IInv, NEW a \in Agents, NEW g \in Graphs, UpdateGraph(a, g)
  PROVE  IInv'
  <1>1. TypeOK'
    BY DEF UpdateGraph, AgentLockFree, Exists, TypeOK, TaskPoints, Reasons, Outcomes,
       CallsNamed
  <1>2. CallsNamed' /\ OwnersExist' /\ OneActiveRunPerAgent' /\ WritersExclusive' /\
     StartersAlone' /\ TasksMatchRows' /\ TasksAhead' /\ EndsStay' /\
     EvidenceMatchesStatus'
      BY DEF UpdateGraph, AgentLockFree, Exists, CallsNamed, OwnersExist, HasActive,
         OneActiveRunPerAgent, WritersExclusive, StartersAlone, TasksMatchRows,
         TasksAhead, Before, EndsStay, FinishReturnsEnded, EvidenceMatchesStatus
  <1>. QED
    BY <1>1, <1>2 DEF IInv

\* Only runs that have ended go with the agent.
LEMMA DeleteAgentKeeps ==
  ASSUME IInv, NEW a \in Agents, DeleteAgent(a)
  PROVE  IInv'
  <1>1. TypeOK'
    BY DEF DeleteAgent, AgentLockFree, HasActive, Exists, TypeOK, TaskPoints, Reasons,
       Outcomes, CallsNamed
  <1>2. OwnersExist'
    BY DEF DeleteAgent, AgentLockFree, HasActive, Exists, TypeOK, TaskPoints, Reasons,
       Outcomes, OwnersExist
  <1>3. OneActiveRunPerAgent'
    BY DEF DeleteAgent, AgentLockFree, HasActive, Exists, TypeOK, TaskPoints, Reasons,
       Outcomes, OneActiveRunPerAgent
  <1>4. WritersExclusive'
    BY DEF DeleteAgent, AgentLockFree, HasActive, Exists, TypeOK, TaskPoints, Reasons,
       Outcomes, CallsNamed, WritersExclusive
  <1>5. StartersAlone'
    BY DEF DeleteAgent, AgentLockFree, HasActive, Exists, TypeOK, TaskPoints, Reasons,
       Outcomes, StartersAlone
  <1>6. TasksMatchRows'
    BY DEF DeleteAgent, AgentLockFree, HasActive, Exists, TypeOK, TaskPoints, Reasons,
       Outcomes, TasksMatchRows
  <1>7. EndsStay'
    BY DEF DeleteAgent, AgentLockFree, HasActive, Exists, TypeOK, TaskPoints, Reasons,
       Outcomes, CallsNamed, EndsStay, FinishReturnsEnded
  <1>8. EvidenceMatchesStatus'
    BY DEF DeleteAgent, AgentLockFree, HasActive, Exists, TypeOK, TaskPoints, Reasons,
       Outcomes, EvidenceMatchesStatus
  <1>9. CallsNamed' /\ TasksAhead'
    BY DEF DeleteAgent, AgentLockFree, HasActive, Exists, CallsNamed, TasksAhead,
       Before
  <1>. QED
    BY <1>1, <1>2, <1>3, <1>4, <1>5, <1>6, <1>7, <1>8, <1>9 DEF IInv

\* The new run is the only active one of its agent.
LEMMA StartRunKeeps ==
  ASSUME IInv, NEW a \in Agents, NEW r \in Runs, StartRun(a, r)
  PROVE  IInv'
  <1>1. TypeOK'
    BY DEF StartRun, AgentLockFree, HasActive, Exists, TypeOK, TaskPoints, Reasons,
       Outcomes, CallsNamed
  <1>2. OwnersExist'
    BY DEF StartRun, AgentLockFree, HasActive, Exists, TypeOK, TaskPoints, Reasons,
       Outcomes, OwnersExist
  <1>3. OneActiveRunPerAgent'
    BY DEF StartRun, AgentLockFree, HasActive, Exists, TypeOK, TaskPoints, Reasons,
       Outcomes, OneActiveRunPerAgent
  <1>4. WritersExclusive'
    BY DEF StartRun, AgentLockFree, HasActive, Exists, TypeOK, TaskPoints, Reasons,
       Outcomes, WritersExclusive
  <1>5. StartersAlone'
    BY DEF StartRun, AgentLockFree, HasActive, Exists, TypeOK, TaskPoints, Reasons,
       Outcomes, CallsNamed, TasksMatchRows, TasksAhead, Before, StartersAlone
  <1>6. TasksMatchRows'
    BY DEF StartRun, AgentLockFree, HasActive, Exists, TypeOK, TaskPoints, Reasons,
       Outcomes, TasksMatchRows
  <1>7. EndsStay'
    BY DEF StartRun, AgentLockFree, HasActive, Exists, TypeOK, TaskPoints, Reasons,
       Outcomes, EndsStay, FinishReturnsEnded
  <1>8. EvidenceMatchesStatus'
    BY DEF StartRun, AgentLockFree, HasActive, Exists, TypeOK, TaskPoints, Reasons,
       Outcomes, EvidenceMatchesStatus
  <1>9. CallsNamed' /\ TasksAhead'
    BY DEF StartRun, AgentLockFree, HasActive, Exists, CallsNamed, TasksAhead, Before
  <1>. QED
    BY <1>1, <1>2, <1>3, <1>4, <1>5, <1>6, <1>7, <1>8, <1>9 DEF IInv

\* A registered task finds its row queued.
LEMMA RegisterTaskKeeps ==
  ASSUME IInv, NEW r \in Runs, RegisterTask(r)
  PROVE  IInv'
  <1>1. TypeOK'
    BY DEF RegisterTask, TypeOK, TaskPoints, Reasons, Outcomes, CallsNamed
  <1>2. CallsNamed'
    BY DEF RegisterTask, TypeOK, TaskPoints, Reasons, Outcomes, CallsNamed,
       TasksMatchRows, TasksAhead, Before, StartersAlone
  <1>3. StartersAlone'
    BY DEF RegisterTask, TypeOK, TaskPoints, Reasons, Outcomes, StartersAlone
  <1>4. TasksMatchRows'
    BY DEF RegisterTask, TypeOK, TaskPoints, Reasons, Outcomes, CallsNamed,
       TasksMatchRows, TasksAhead, Before, StartersAlone
  <1>5. TasksAhead'
    BY DEF RegisterTask, TypeOK, TaskPoints, Reasons, Outcomes, CallsNamed,
       TasksMatchRows, TasksAhead, Before, StartersAlone
  <1>6. EndsStay'
    BY DEF RegisterTask, TypeOK, TaskPoints, Reasons, Outcomes, CallsNamed,
       TasksMatchRows, TasksAhead, Before, StartersAlone, EndsStay, FinishReturnsEnded
  <1>7. OwnersExist' /\ OneActiveRunPerAgent' /\ WritersExclusive' /\
     EvidenceMatchesStatus'
      BY DEF RegisterTask, OwnersExist, Exists, HasActive, OneActiveRunPerAgent,
         WritersExclusive, EvidenceMatchesStatus
  <1>. QED
    BY <1>1, <1>2, <1>3, <1>4, <1>5, <1>6, <1>7 DEF IInv

\* _mark_running up to its guard.
LEMMA TaskReadRunKeeps ==
  ASSUME IInv, NEW r \in Runs, TaskReadRun(r)
  PROVE  IInv'
  <1>1. CASE runStatus[r] \in Active
    <2>1. /\ task[r] = "ready" /\ task' = [task EXCEPT ![r] = "marking"]
          /\ UNCHANGED <<rows, process, starting, handles, cancelled, executed, fin, stop, todo>>
      BY <1>1 DEF TaskReadRun, TaskAt
    <2>2. TypeOK'
      BY <2>1 DEF TypeOK, TaskPoints
    <2>3. CallsNamed' /\ StartersAlone'
      BY <2>1 DEF TypeOK, CallsNamed, StartersAlone
    <2>4. TasksMatchRows' /\ TasksAhead'
      BY <2>1 DEF TypeOK, TasksMatchRows, TasksAhead, Before
    <2>5. EndsStay'
      BY <2>1 DEF TypeOK, EndsStay, FinishReturnsEnded
    <2>6. OwnersExist' /\ OneActiveRunPerAgent' /\ WritersExclusive' /\ EvidenceMatchesStatus'
      BY <2>1 DEF OwnersExist, Exists, HasActive, OneActiveRunPerAgent, WritersExclusive,
         EvidenceMatchesStatus
    <2>. QED
      BY <2>2, <2>3, <2>4, <2>5, <2>6
  <1>2. CASE runStatus[r] \notin Active
    <2>1. GoFinish(r, "failed") /\ cancelled' = cancelled \ {r}
      BY <1>2 DEF TaskReadRun, TaskAt
    <2>. QED
      BY <2>1, GoFinishKeeps DEF TaskReadRun, TaskAt
  <1>. QED
    BY <1>1, <1>2

\* _mark_running commits, or its UPDATE is rejected and the run fails.
LEMMA TaskMarkRunningKeeps ==
  ASSUME IInv, NEW r \in Runs, TaskMarkRunning(r)
  PROVE  IInv'
  <1>1. CASE WriteRunning(r) /\ task' = [task EXCEPT ![r] = "prepared"] /\ UNCHANGED fin
    BY <1>1, MarkKeeps DEF TaskMarkRunning, TaskAt
  <1>2. CASE GoFinish(r, "failed") /\ UNCHANGED rows
    <2>1. cancelled' = cancelled \ {r}
      BY DEF TaskMarkRunning, TaskAt
    <2>. QED
      BY <1>2, <2>1, GoFinishKeeps DEF TaskMarkRunning, TaskAt
  <1>. QED
    BY <1>1, <1>2 DEF TaskMarkRunning

\* The runtime is entered, or validation fails.
LEMMA TaskLoadGraphKeeps ==
  ASSUME IInv, NEW r \in Runs, TaskLoadGraph(r)
  PROVE  IInv'
  <1>1. CASE /\ Exists(owner[r])
             /\ executed' = [executed EXCEPT ![r] = agentGraph[owner[r]]]
             /\ task' = [task EXCEPT ![r] = "invoking"]
             /\ UNCHANGED fin
    <2>1. /\ TaskAt(r, "prepared")
          /\ UNCHANGED <<rows, process, starting, handles, cancelled, stop, todo>>
      BY DEF TaskLoadGraph
    <2>2. TypeOK'
      <3>1. owner[r] \in Agents
        BY <2>1 DEF TaskAt, TypeOK, TasksMatchRows, OwnersExist
      <3>2. executed' \in [Runs -> Graphs \cup {None}]
        BY <1>1, <3>1 DEF TypeOK
      <3>. QED
        BY <1>1, <2>1, <3>2 DEF TypeOK, TaskPoints
    <2>3. CallsNamed' /\ StartersAlone'
      BY <1>1, <2>1 DEF TaskAt, TypeOK, CallsNamed, StartersAlone
    <2>4. TasksMatchRows' /\ TasksAhead'
      BY <1>1, <2>1 DEF TaskAt, TypeOK, TasksMatchRows, TasksAhead, Before
    <2>5. EndsStay'
      BY <1>1, <2>1 DEF TaskAt, TypeOK, TasksMatchRows, EndsStay, FinishReturnsEnded
    <2>6. OwnersExist' /\ OneActiveRunPerAgent' /\ WritersExclusive' /\ EvidenceMatchesStatus'
      BY <1>1, <2>1 DEF OwnersExist, Exists, HasActive, OneActiveRunPerAgent,
         WritersExclusive, EvidenceMatchesStatus
    <2>. QED
      BY <2>2, <2>3, <2>4, <2>5, <2>6
  <1>2. CASE GoFinish(r, "failed") /\ UNCHANGED executed
    <2>1. cancelled' = cancelled \ {r}
      BY DEF TaskLoadGraph, TaskAt
    <2>. QED
      BY <1>2, <2>1, GoFinishKeeps DEF TaskLoadGraph, TaskAt
  <1>. QED
    BY <1>1, <1>2 DEF TaskLoadGraph

\* A response or an exception of the runtime.
LEMMA TaskRuntimeReturnsKeeps ==
  ASSUME IInv, NEW r \in Runs, TaskRuntimeReturns(r)
  PROVE  IInv'
  <1>1. PICK out \in {"succeeded", "failed"} : GoFinish(r, out)
    BY DEF TaskRuntimeReturns
  <1>2. task[r] = "invoking" /\ cancelled' = cancelled \ {r}
    BY DEF TaskRuntimeReturns, TaskAt
  <1>. QED
    BY <1>1, <1>2, GoFinishKeeps DEF TaskRuntimeReturns

\* The finally clause removes the handle of a task that is done.
LEMMA TaskExitKeeps ==
  ASSUME IInv, NEW r \in Runs, TaskExit(r)
  PROVE  IInv'
  <1>1. TypeOK'
    BY DEF TaskExit, TaskAt, EndFinish, TypeOK, TaskPoints, Reasons, Outcomes,
       CallsNamed
  <1>2. CallsNamed'
    BY DEF TaskExit, TaskAt, EndFinish, TypeOK, TaskPoints, Reasons, Outcomes,
       CallsNamed
  <1>3. WritersExclusive'
    BY DEF TaskExit, TaskAt, EndFinish, TypeOK, TaskPoints, Reasons, Outcomes,
       WritersExclusive
  <1>4. StartersAlone'
    BY DEF TaskExit, TaskAt, EndFinish, TypeOK, TaskPoints, Reasons, Outcomes,
       StartersAlone
  <1>5. TasksMatchRows'
    BY DEF TaskExit, TaskAt, EndFinish, TypeOK, TaskPoints, Reasons, Outcomes,
       TasksMatchRows
  <1>6. TasksAhead'
    BY DEF TaskExit, TaskAt, EndFinish, TypeOK, TaskPoints, Reasons, Outcomes,
       TasksAhead, Before
  <1>7. EndsStay'
    BY DEF TaskExit, TaskAt, EndFinish, TypeOK, TaskPoints, Reasons, Outcomes,
       EndsStay, FinishReturnsEnded
  <1>8. OwnersExist' /\ OneActiveRunPerAgent' /\ EvidenceMatchesStatus'
    BY DEF TaskExit, TaskAt, EndFinish, OwnersExist, Exists, HasActive,
       OneActiveRunPerAgent, EvidenceMatchesStatus
  <1>. QED
    BY <1>1, <1>2, <1>3, <1>4, <1>5, <1>6, <1>7, <1>8 DEF IInv

\* The task ends without touching its row; the handle stays.
LEMMA TaskCancelledUnstartedKeeps ==
  ASSUME IInv, NEW r \in Runs, TaskCancelledUnstarted(r)
  PROVE  IInv'
  <1>1. TypeOK'
    BY DEF TaskCancelledUnstarted, TypeOK, TaskPoints, Reasons, Outcomes, CallsNamed
  <1>2. CallsNamed'
    BY DEF TaskCancelledUnstarted, TypeOK, TaskPoints, Reasons, Outcomes, CallsNamed
  <1>3. StartersAlone'
    BY DEF TaskCancelledUnstarted, TypeOK, TaskPoints, Reasons, Outcomes,
       StartersAlone
  <1>4. TasksMatchRows'
    BY DEF TaskCancelledUnstarted, TypeOK, TaskPoints, Reasons, Outcomes,
       TasksMatchRows
  <1>5. TasksAhead'
    BY DEF TaskCancelledUnstarted, TypeOK, TaskPoints, Reasons, Outcomes, TasksAhead,
       Before
  <1>6. EndsStay'
    BY DEF TaskCancelledUnstarted, TypeOK, TaskPoints, Reasons, Outcomes, EndsStay,
       FinishReturnsEnded
  <1>7. OwnersExist' /\ OneActiveRunPerAgent' /\ WritersExclusive' /\
     EvidenceMatchesStatus'
      BY DEF TaskCancelledUnstarted, OwnersExist, Exists, HasActive,
         OneActiveRunPerAgent, WritersExclusive, EvidenceMatchesStatus
  <1>. QED
    BY <1>1, <1>2, <1>3, <1>4, <1>5, <1>6, <1>7 DEF IInv

\* CancelledError inside the try block, with or without the running commit.
LEMMA TaskCancelledKeeps ==
  ASSUME IInv, NEW r \in Runs, TaskCancelled(r)
  PROVE  IInv'
  <1>1. CASE UNCHANGED rows
    BY <1>1, GoFinishKeeps DEF TaskCancelled
  <1>2. CASE task[r] = "marking" /\ WriteRunning(r)
    BY <1>2, MarkCancelledKeeps DEF TaskCancelled
  <1>. QED
    BY <1>1, <1>2 DEF TaskCancelled

\* The task is past _mark_running, so no CancelledError is needed ahead of it.
LEMMA RuntimeSwallowsCancelKeeps ==
  ASSUME IInv, NEW r \in Runs, RuntimeSwallowsCancel(r)
  PROVE  IInv'
  <1>1. TypeOK'
    BY DEF RuntimeSwallowsCancel, TypeOK, TaskPoints, Reasons, Outcomes, CallsNamed
  <1>2. TasksMatchRows'
    BY DEF RuntimeSwallowsCancel, TypeOK, TaskPoints, Reasons, Outcomes,
       TasksMatchRows
  <1>3. TasksAhead'
    BY DEF RuntimeSwallowsCancel, TypeOK, TaskPoints, Reasons, Outcomes, TasksAhead,
       Before
  <1>4. CallsNamed' /\ OwnersExist' /\ OneActiveRunPerAgent' /\ WritersExclusive' /\
     StartersAlone' /\ EndsStay' /\ EvidenceMatchesStatus'
      BY DEF RuntimeSwallowsCancel, CallsNamed, OwnersExist, Exists, HasActive,
         OneActiveRunPerAgent, WritersExclusive, StartersAlone, EndsStay,
         FinishReturnsEnded, EvidenceMatchesStatus
  <1>. QED
    BY <1>1, <1>2, <1>3, <1>4 DEF IInv

\* CancelledError inside the task's own _finish_* call, with or without its commit.
LEMMA TaskCancelledFinishingKeeps ==
  ASSUME IInv, NEW r \in Runs, TaskCancelledFinishing(r)
  PROVE  IInv'
  <1>1. CASE UNCHANGED rows
    BY <1>1, AbortKeeps DEF TaskCancelledFinishing
  <1>2. CASE finPc[r] = "writing" /\ WriteTerminal(r, finOut[r])
    <2>1. finRun[r] = r
      BY <1>2 DEF CallsNamed
    <2>. QED
      BY <1>2, <2>1, WriteTerminalKeeps DEF TaskCancelledFinishing
  <1>. QED
    BY <1>1, <1>2 DEF TaskCancelledFinishing

\* The terminal lock is free when the status is read.
LEMMA FinishReadKeeps ==
  ASSUME IInv, NEW c \in Callers, FinishRead(c)
  PROVE  IInv'
  <1>1. TypeOK'
    BY DEF FinishRead, Undisturbed, TerminalLockFree, TypeOK, TaskPoints, Reasons,
       Outcomes, CallsNamed
  <1>2. CallsNamed'
    BY DEF FinishRead, Undisturbed, TerminalLockFree, TypeOK, TaskPoints, Reasons,
       Outcomes, CallsNamed
  <1>3. WritersExclusive'
    BY DEF FinishRead, Undisturbed, TerminalLockFree, TypeOK, TaskPoints, Reasons,
       Outcomes, WritersExclusive
  <1>4. EndsStay'
    <2>1. \A d \in Callers : d # c => finPc'[d] = finPc[d]
      BY DEF FinishRead, TypeOK
    <2>2. finPc'[c] = "returned" => runStatus[finRun[c]] \notin Active
      BY DEF FinishRead, TypeOK
    <2>3. finRun[c] \in Runs /\ runStatus[finRun[c]] # "unborn"
      <3>1. finRun[c] \in Runs /\ finPc[c] # "idle"
        BY DEF FinishRead, CallsNamed
      <3>2. task[finRun[c]] # "none"
        BY <3>1 DEF CallsNamed, TasksAhead
      <3>. QED
        BY <3>1, <3>2 DEF TasksMatchRows
    <2>4. runStatus[finRun[c]] \in {"unborn", "deleted"} \cup Active \cup Terminal
      BY <2>3 DEF TypeOK
    <2>5. FinishReturnsEnded'
      BY <2>1, <2>2, <2>3, <2>4 DEF FinishRead, EndsStay, FinishReturnsEnded
    <2>. QED
      BY <2>5 DEF FinishRead, EndsStay
  <1>5. OwnersExist' /\ OneActiveRunPerAgent' /\ StartersAlone' /\ TasksMatchRows' /\
     TasksAhead' /\ EvidenceMatchesStatus'
      BY DEF FinishRead, Undisturbed, TerminalLockFree, OwnersExist, Exists, HasActive,
         OneActiveRunPerAgent, StartersAlone, TasksMatchRows, TasksAhead, Before,
         EvidenceMatchesStatus
  <1>. QED
    BY <1>1, <1>2, <1>3, <1>4, <1>5 DEF IInv

\* The write of an undisturbed _finish_* call.
LEMMA FinishWriteKeeps ==
  ASSUME IInv, NEW c \in Callers, FinishWrite(c)
  PROVE  IInv'
  BY WriteTerminalKeeps DEF FinishWrite

\* This is where a stop during the start window is excluded.
LEMMA StopCheckKeeps ==
  ASSUME IInv, ~EarlyStop, NEW s \in Stoppers, NEW r \in Runs, StopCheck(s, r)
  PROVE  IInv'
  <1>1. TypeOK'
    BY DEF StopCheck, TypeOK, TaskPoints, Reasons, Outcomes, CallsNamed
  <1>2. CallsNamed'
    BY DEF StopCheck, TypeOK, TaskPoints, Reasons, Outcomes, CallsNamed
  <1>3. StartersAlone'
    BY DEF StopCheck, TypeOK, TaskPoints, Reasons, Outcomes, StartersAlone
  <1>4. TasksAhead'
    BY DEF StopCheck, TypeOK, TaskPoints, Reasons, Outcomes, CallsNamed,
       TasksMatchRows, TasksAhead, Before
  <1>5. OwnersExist' /\ OneActiveRunPerAgent' /\ WritersExclusive' /\ TasksMatchRows' /\
     EndsStay' /\ EvidenceMatchesStatus'
      BY DEF StopCheck, OwnersExist, Exists, HasActive, OneActiveRunPerAgent,
         WritersExclusive, TasksMatchRows, EndsStay, FinishReturnsEnded,
         EvidenceMatchesStatus
  <1>. QED
    BY <1>1, <1>2, <1>3, <1>4, <1>5 DEF IInv

\* stop_run finds no handle: the task is done.
LEMMA StopFailsKeeps ==
  ASSUME IInv, NEW s \in Stoppers, stopPc[s] = "checked", stopRun[s] \notin handles,
         stopPc' = [stopPc EXCEPT ![s] = "finishing"], CallFinish(s, stopRun[s], "failed"),
         UNCHANGED <<rows, process, starting, tasks, stopRun, todo>>
  PROVE  IInv'
  <1>1. TypeOK'
    BY DEF CallFinish, TypeOK, TaskPoints, Reasons, Outcomes
  <1>2. CallsNamed'
    BY DEF CallFinish, TypeOK, TaskPoints, Reasons, Outcomes, CallsNamed
  <1>3. WritersExclusive'
    BY DEF CallFinish, TypeOK, TaskPoints, Reasons, Outcomes, WritersExclusive
  <1>4. StartersAlone'
    BY DEF CallFinish, TypeOK, TaskPoints, Reasons, Outcomes, StartersAlone
  <1>5. TasksMatchRows'
    BY DEF CallFinish, TypeOK, TaskPoints, Reasons, Outcomes, TasksMatchRows
  <1>6. TasksAhead'
    BY DEF CallFinish, TypeOK, TaskPoints, Reasons, Outcomes, CallsNamed,
       TasksMatchRows, TasksAhead, Before
  <1>7. EndsStay'
    BY DEF CallFinish, TypeOK, TaskPoints, Reasons, Outcomes, EndsStay,
       FinishReturnsEnded
  <1>8. OwnersExist' /\ OneActiveRunPerAgent' /\ EvidenceMatchesStatus'
    BY DEF CallFinish, OwnersExist, Exists, HasActive, OneActiveRunPerAgent,
       EvidenceMatchesStatus
  <1>. QED
    BY <1>1, <1>2, <1>3, <1>4, <1>5, <1>6, <1>7, <1>8 DEF IInv

\* stop_run finds a handle and cancels the task in the same step.
LEMMA StopCancelsKeeps ==
  ASSUME IInv, NEW s \in Stoppers, stopPc[s] = "checked", stopRun[s] \in handles,
         stopPc' = [stopPc EXCEPT ![s] = "waiting"],
         cancelled' = IF task[stopRun[s]] = "done" THEN cancelled ELSE cancelled \cup {stopRun[s]},
         UNCHANGED <<rows, process, starting, task, handles, executed, fin, stopRun, todo>>
  PROVE  IInv'
  <1>1. TypeOK'
    BY DEF TypeOK, TaskPoints, Reasons, Outcomes
  <1>2. CallsNamed'
    BY DEF TypeOK, TaskPoints, Reasons, Outcomes, CallsNamed
  <1>3. StartersAlone'
    BY DEF TypeOK, TaskPoints, Reasons, Outcomes, StartersAlone
  <1>4. TasksMatchRows'
    BY DEF TypeOK, TaskPoints, Reasons, Outcomes, TasksMatchRows
  <1>5. TasksAhead'
    BY DEF TypeOK, TaskPoints, Reasons, Outcomes, TasksAhead, Before
  <1>6. OwnersExist' /\ OneActiveRunPerAgent' /\ WritersExclusive' /\ EndsStay' /\
     EvidenceMatchesStatus'
      BY DEF OwnersExist, Exists, HasActive, OneActiveRunPerAgent, WritersExclusive,
         EndsStay, FinishReturnsEnded, EvidenceMatchesStatus
  <1>. QED
    BY <1>1, <1>2, <1>3, <1>4, <1>5, <1>6 DEF IInv

\* registry.get decides between the two.
LEMMA StopLookupKeeps ==
  ASSUME IInv, NEW s \in Stoppers, StopLookup(s)
  PROVE  IInv'
  <1>1. CASE stopRun[s] \notin handles
    BY <1>1, StopFailsKeeps DEF StopLookup
  <1>2. CASE stopRun[s] \in handles
    BY <1>2, StopCancelsKeeps DEF StopLookup
  <1>. QED
    BY <1>1, <1>2

\* The task is done, so nothing can overtake the cancelled outcome.
LEMMA StopTaskEndedKeeps ==
  ASSUME IInv, NEW s \in Stoppers, StopTaskEnded(s)
  PROVE  IInv'
  <1>1. TypeOK'
    BY DEF StopTaskEnded, CallFinish, TypeOK, TaskPoints, Reasons, Outcomes,
       CallsNamed
  <1>2. CallsNamed'
    BY DEF StopTaskEnded, CallFinish, TypeOK, TaskPoints, Reasons, Outcomes,
       CallsNamed
  <1>3. WritersExclusive'
    BY DEF StopTaskEnded, CallFinish, TypeOK, TaskPoints, Reasons, Outcomes,
       CallsNamed, WritersExclusive
  <1>4. StartersAlone'
    BY DEF StopTaskEnded, CallFinish, TypeOK, TaskPoints, Reasons, Outcomes,
       StartersAlone
  <1>5. TasksMatchRows'
    BY DEF StopTaskEnded, CallFinish, TypeOK, TaskPoints, Reasons, Outcomes,
       TasksMatchRows
  <1>6. TasksAhead'
    BY DEF StopTaskEnded, CallFinish, TypeOK, TaskPoints, Reasons, Outcomes,
       TasksAhead, Before
  <1>7. EndsStay'
    BY DEF StopTaskEnded, CallFinish, TypeOK, TaskPoints, Reasons, Outcomes, EndsStay,
       FinishReturnsEnded
  <1>8. OwnersExist' /\ OneActiveRunPerAgent' /\ EvidenceMatchesStatus'
    BY DEF StopTaskEnded, CallFinish, OwnersExist, Exists, HasActive,
       OneActiveRunPerAgent, EvidenceMatchesStatus
  <1>. QED
    BY <1>1, <1>2, <1>3, <1>4, <1>5, <1>6, <1>7, <1>8 DEF IInv

\* The caller gives up and changes nothing else.
LEMMA StopTimesOutKeeps ==
  ASSUME IInv, NEW s \in Stoppers, StopTimesOut(s)
  PROVE  IInv'
  <1>1. TypeOK'
    BY DEF StopTimesOut, TypeOK, TaskPoints, Reasons, Outcomes, CallsNamed
  <1>2. CallsNamed'
    BY DEF StopTimesOut, TypeOK, TaskPoints, Reasons, Outcomes, CallsNamed
  <1>3. StartersAlone'
    BY DEF StopTimesOut, TypeOK, TaskPoints, Reasons, Outcomes, StartersAlone
  <1>4. TasksAhead'
    BY DEF StopTimesOut, TypeOK, TaskPoints, Reasons, Outcomes, TasksAhead, Before
  <1>5. OwnersExist' /\ OneActiveRunPerAgent' /\ WritersExclusive' /\ TasksMatchRows' /\
     EndsStay' /\ EvidenceMatchesStatus'
      BY DEF StopTimesOut, OwnersExist, Exists, HasActive, OneActiveRunPerAgent,
         WritersExclusive, TasksMatchRows, EndsStay, FinishReturnsEnded,
         EvidenceMatchesStatus
  <1>. QED
    BY <1>1, <1>2, <1>3, <1>4, <1>5 DEF IInv

\* The caller leaves.
LEMMA StopReturnKeeps ==
  ASSUME IInv, NEW s \in Stoppers, StopReturn(s)
  PROVE  IInv'
  <1>1. TypeOK'
    BY DEF StopReturn, EndFinish, TypeOK, TaskPoints, Reasons, Outcomes, CallsNamed
  <1>2. CallsNamed'
    BY DEF StopReturn, EndFinish, TypeOK, TaskPoints, Reasons, Outcomes, CallsNamed
  <1>3. WritersExclusive'
    BY DEF StopReturn, EndFinish, TypeOK, TaskPoints, Reasons, Outcomes,
       WritersExclusive
  <1>4. StartersAlone'
    BY DEF StopReturn, EndFinish, TypeOK, TaskPoints, Reasons, Outcomes, StartersAlone
  <1>5. TasksMatchRows'
    BY DEF StopReturn, EndFinish, TypeOK, TaskPoints, Reasons, Outcomes,
       TasksMatchRows
  <1>6. TasksAhead'
    BY DEF StopReturn, EndFinish, TypeOK, TaskPoints, Reasons, Outcomes, TasksAhead,
       Before
  <1>7. EndsStay'
    BY DEF StopReturn, EndFinish, TypeOK, TaskPoints, Reasons, Outcomes, EndsStay,
       FinishReturnsEnded
  <1>8. OwnersExist' /\ OneActiveRunPerAgent' /\ EvidenceMatchesStatus'
    BY DEF StopReturn, EndFinish, OwnersExist, Exists, HasActive,
       OneActiveRunPerAgent, EvidenceMatchesStatus
  <1>. QED
    BY <1>1, <1>2, <1>3, <1>4, <1>5, <1>6, <1>7, <1>8 DEF IInv

\* Every live task gets a CancelledError.
LEMMA ShutdownBeginKeeps ==
  ASSUME IInv, ShutdownBegin
  PROVE  IInv'
  <1>1. TypeOK'
    BY DEF ShutdownBegin, TypeOK, TaskPoints, Reasons, Outcomes, CallsNamed
  <1>2. CallsNamed'
    <2>1. finPc[Shutdown] = "idle"
      BY DEF ShutdownBegin, CallsNamed, TasksAhead
    <2>. QED
      BY <2>1 DEF ShutdownBegin, TypeOK, CallsNamed
  <1>3. StartersAlone'
    BY DEF ShutdownBegin, TypeOK, TaskPoints, Reasons, Outcomes, StartersAlone
  <1>4. TasksMatchRows'
    BY DEF ShutdownBegin, TypeOK, TaskPoints, Reasons, Outcomes, TasksMatchRows
  <1>5. TasksAhead'
    BY DEF ShutdownBegin, TypeOK, TaskPoints, Reasons, Outcomes, CallsNamed,
       TasksMatchRows, TasksAhead, Before
  <1>6. OwnersExist' /\ OneActiveRunPerAgent' /\ WritersExclusive' /\ EndsStay' /\
     EvidenceMatchesStatus'
      BY DEF ShutdownBegin, OwnersExist, Exists, HasActive, OneActiveRunPerAgent,
         WritersExclusive, EndsStay, FinishReturnsEnded, EvidenceMatchesStatus
  <1>. QED
    BY <1>1, <1>2, <1>3, <1>4, <1>5, <1>6 DEF IInv

\* A task that outlived the timeout is inside or past the runtime.
LEMMA ShutdownCollectKeeps ==
  ASSUME IInv, ShutdownCollect
  PROVE  IInv'
  <1>1. TypeOK'
    BY DEF ShutdownCollect, TypeOK, TaskPoints, Reasons, Outcomes, CallsNamed
  <1>2. CallsNamed'
    BY DEF ShutdownCollect, TypeOK, TaskPoints, Reasons, Outcomes, CallsNamed
  <1>3. TasksAhead'
    BY DEF ShutdownCollect, TypeOK, TaskPoints, Reasons, Outcomes, TasksAhead, Before
  <1>4. OwnersExist' /\ OneActiveRunPerAgent' /\ WritersExclusive' /\ StartersAlone' /\
     TasksMatchRows' /\ EndsStay' /\ EvidenceMatchesStatus'
      BY DEF ShutdownCollect, OwnersExist, Exists, HasActive, OneActiveRunPerAgent,
         WritersExclusive, StartersAlone, TasksMatchRows, EndsStay, FinishReturnsEnded,
         EvidenceMatchesStatus
  <1>. QED
    BY <1>1, <1>2, <1>3, <1>4 DEF IInv

\* A run is finished with the outcome cancel_all sorted it under.
LEMMA ShutdownFinishKeeps ==
  ASSUME IInv, NEW r \in Runs, ShutdownFinish(r)
  PROVE  IInv'
  <1>1. TypeOK'
    BY DEF ShutdownFinish, CallFinish, TypeOK, TaskPoints, Reasons, Outcomes,
       CallsNamed
  <1>2. CallsNamed'
    BY DEF ShutdownFinish, CallFinish, TypeOK, TaskPoints, Reasons, Outcomes,
       CallsNamed
  <1>3. WritersExclusive'
    BY DEF ShutdownFinish, CallFinish, TypeOK, TaskPoints, Reasons, Outcomes,
       CallsNamed, WritersExclusive
  <1>4. TasksMatchRows'
    BY DEF ShutdownFinish, CallFinish, TypeOK, TaskPoints, Reasons, Outcomes,
       TasksMatchRows
  <1>5. EndsStay'
    BY DEF ShutdownFinish, CallFinish, TypeOK, TaskPoints, Reasons, Outcomes,
       EndsStay, FinishReturnsEnded
  <1>6. OwnersExist' /\ OneActiveRunPerAgent' /\ StartersAlone' /\ TasksAhead' /\
     EvidenceMatchesStatus'
      BY DEF ShutdownFinish, CallFinish, OwnersExist, Exists, HasActive,
         OneActiveRunPerAgent, StartersAlone, TasksAhead, Before, EvidenceMatchesStatus
  <1>. QED
    BY <1>1, <1>2, <1>3, <1>4, <1>5, <1>6 DEF IInv

\* The next run of the list.
LEMMA ShutdownFinishedKeeps ==
  ASSUME IInv, ShutdownFinished
  PROVE  IInv'
  <1>1. TypeOK'
    BY DEF ShutdownFinished, EndFinish, TypeOK, TaskPoints, Reasons, Outcomes,
       CallsNamed
  <1>2. CallsNamed'
    BY DEF ShutdownFinished, EndFinish, TypeOK, TaskPoints, Reasons, Outcomes,
       CallsNamed
  <1>3. WritersExclusive'
    BY DEF ShutdownFinished, EndFinish, TypeOK, TaskPoints, Reasons, Outcomes,
       WritersExclusive
  <1>4. TasksMatchRows'
    BY DEF ShutdownFinished, EndFinish, TypeOK, TaskPoints, Reasons, Outcomes,
       TasksMatchRows
  <1>5. TasksAhead'
    BY DEF ShutdownFinished, EndFinish, TypeOK, TaskPoints, Reasons, Outcomes,
       TasksAhead, Before
  <1>6. EndsStay'
    BY DEF ShutdownFinished, EndFinish, TypeOK, TaskPoints, Reasons, Outcomes,
       EndsStay, FinishReturnsEnded
  <1>7. OwnersExist' /\ OneActiveRunPerAgent' /\ StartersAlone' /\
     EvidenceMatchesStatus'
      BY DEF ShutdownFinished, EndFinish, OwnersExist, Exists, HasActive,
         OneActiveRunPerAgent, StartersAlone, EvidenceMatchesStatus
  <1>. QED
    BY <1>1, <1>2, <1>3, <1>4, <1>5, <1>6, <1>7 DEF IInv

\* As a crash, with nothing left to do.
LEMMA ShutdownExitKeeps ==
  ASSUME IInv, ShutdownExit
  PROVE  IInv'
  <1>1. TypeOK'
    BY DEF ShutdownExit, Die, TypeOK, TaskPoints, Reasons, Outcomes, CallsNamed
  <1>2. CallsNamed'
    BY DEF ShutdownExit, Die, TypeOK, TaskPoints, Reasons, Outcomes, CallsNamed
  <1>3. WritersExclusive'
    BY DEF ShutdownExit, Die, TypeOK, TaskPoints, Reasons, Outcomes, WritersExclusive
  <1>4. StartersAlone'
    BY DEF ShutdownExit, Die, TypeOK, TaskPoints, Reasons, Outcomes, StartersAlone
  <1>5. TasksMatchRows'
    BY DEF ShutdownExit, Die, TypeOK, TaskPoints, Reasons, Outcomes, TasksMatchRows
  <1>6. TasksAhead'
    BY DEF ShutdownExit, Die, TypeOK, TaskPoints, Reasons, Outcomes, TasksAhead,
       Before
  <1>7. EndsStay'
    BY DEF ShutdownExit, Die, TypeOK, TaskPoints, Reasons, Outcomes, EndsStay,
       FinishReturnsEnded
  <1>8. OwnersExist' /\ OneActiveRunPerAgent' /\ EvidenceMatchesStatus'
    BY DEF ShutdownExit, Die, OwnersExist, Exists, HasActive, OneActiveRunPerAgent,
       EvidenceMatchesStatus
  <1>. QED
    BY <1>1, <1>2, <1>3, <1>4, <1>5, <1>6, <1>7, <1>8 DEF IInv

\* Only the rows remain.
LEMMA CrashKeeps ==
  ASSUME IInv, Crash
  PROVE  IInv'
  <1>1. TypeOK'
    BY DEF Crash, Die, TypeOK, TaskPoints, Reasons, Outcomes, CallsNamed
  <1>2. CallsNamed'
    BY DEF Crash, Die, TypeOK, TaskPoints, Reasons, Outcomes, CallsNamed
  <1>3. WritersExclusive'
    BY DEF Crash, Die, TypeOK, TaskPoints, Reasons, Outcomes, WritersExclusive
  <1>4. StartersAlone'
    BY DEF Crash, Die, TypeOK, TaskPoints, Reasons, Outcomes, StartersAlone
  <1>5. TasksMatchRows'
    BY DEF Crash, Die, TypeOK, TaskPoints, Reasons, Outcomes, TasksMatchRows
  <1>6. TasksAhead'
    BY DEF Crash, Die, TypeOK, TaskPoints, Reasons, Outcomes, TasksAhead, Before
  <1>7. EndsStay'
    BY DEF Crash, Die, TypeOK, TaskPoints, Reasons, Outcomes, EndsStay,
       FinishReturnsEnded
  <1>8. OwnersExist' /\ OneActiveRunPerAgent' /\ EvidenceMatchesStatus'
    BY DEF Crash, Die, OwnersExist, Exists, HasActive, OneActiveRunPerAgent,
       EvidenceMatchesStatus
  <1>. QED
    BY <1>1, <1>2, <1>3, <1>4, <1>5, <1>6, <1>7, <1>8 DEF IInv

\* Every active run fails in one transaction and no task lives.
LEMMA RestartKeeps ==
  ASSUME IInv, Restart
  PROVE  IInv'
  <1>1. TypeOK'
    BY DEF Restart, Stale, Assess, HasActive, TypeOK, TaskPoints, Reasons, Outcomes,
       CallsNamed
  <1>2. OwnersExist'
    BY DEF Restart, Stale, Assess, HasActive, TypeOK, TaskPoints, Reasons, Outcomes,
       OwnersExist, Exists
  <1>3. OneActiveRunPerAgent'
    BY DEF Restart, Stale, Assess, HasActive, TypeOK, TaskPoints, Reasons, Outcomes,
       OneActiveRunPerAgent
  <1>4. WritersExclusive'
    <2>1. \A c \in Callers : finPc[c] = "idle"
      <3>1. \A r \in Runs : finPc[r] = "idle"
        BY DEF Restart, TypeOK, CallsNamed, TasksMatchRows
      <3>2. \A s \in Stoppers : finPc[s] = "idle"
        BY DEF Restart, TypeOK, CallsNamed, TasksAhead
      <3>3. finPc[Shutdown] = "idle"
        BY DEF Restart, CallsNamed, TasksAhead
      <3>. QED
        BY <3>1, <3>2, <3>3
    <2>. QED
      BY <2>1 DEF Restart, WritersExclusive
  <1>5. StartersAlone'
    BY DEF Restart, Stale, Assess, HasActive, TypeOK, TaskPoints, Reasons, Outcomes,
       StartersAlone
  <1>6. TasksMatchRows'
    BY DEF Restart, Stale, Assess, HasActive, TypeOK, TaskPoints, Reasons, Outcomes,
       TasksMatchRows
  <1>7. TasksAhead'
    BY DEF Restart, Stale, Assess, HasActive, TypeOK, TaskPoints, Reasons, Outcomes,
       TasksAhead, Before
  <1>8. EndsStay'
    BY DEF Restart, Stale, Assess, HasActive, TypeOK, TaskPoints, Reasons, Outcomes,
       CallsNamed, EndsStay, FinishReturnsEnded
  <1>9. EvidenceMatchesStatus'
    BY DEF Restart, Stale, Assess, HasActive, TypeOK, TaskPoints, Reasons, Outcomes,
       EvidenceMatchesStatus
  <1>10. CallsNamed'
    BY DEF Restart, Stale, Assess, HasActive, CallsNamed
  <1>. QED
    BY <1>1, <1>2, <1>3, <1>4, <1>5, <1>6, <1>7, <1>8, <1>9, <1>10 DEF IInv

-----------------------------------------------------------------------------
(* The invariant.                                                          *)

\* The empty database of a new process.
LEMMA InitEstablishes == Init => IInv
  <1>. SUFFICES ASSUME Init PROVE IInv
    OBVIOUS
  <1>1. TypeOK
    BY DEF Init, TypeOK, TaskPoints, Reasons, Outcomes
  <1>2. CallsNamed /\ OwnersExist /\ OneActiveRunPerAgent /\ WritersExclusive
    BY DEF Init, CallsNamed, OwnersExist, Exists, HasActive, OneActiveRunPerAgent, WritersExclusive
  <1>3. StartersAlone /\ TasksMatchRows /\ TasksAhead
    BY DEF Init, StartersAlone, TasksMatchRows, TasksAhead, Before
  <1>4. EndsStay /\ EvidenceMatchesStatus
    BY DEF Init, EndsStay, FinishReturnsEnded, EvidenceMatchesStatus
  <1>. QED
    BY <1>1, <1>2, <1>3, <1>4

\* Every step, the stuttering one included, keeps the invariant.
LEMMA NextKeeps ==
  ASSUME IInv, ~EarlyStop, [Next]_vars
  PROVE  IInv'
  <1>1. CASE UNCHANGED vars
    BY <1>1 DEF vars, TypeOK, CallsNamed, OwnersExist, Exists, HasActive, OneActiveRunPerAgent,
       WritersExclusive, StartersAlone, TasksMatchRows, TasksAhead, EndsStay,
       FinishReturnsEnded, EvidenceMatchesStatus
  <1>2. CASE \E a \in Agents, g \in Graphs : CreateAgent(a, g) \/ UpdateGraph(a, g)
    BY <1>2, CreateAgentKeeps, UpdateGraphKeeps
  <1>3. CASE \E a \in Agents : DeleteAgent(a)
    BY <1>3, DeleteAgentKeeps
  <1>4. CASE \E a \in Agents, r \in Runs : StartRun(a, r)
    BY <1>4, StartRunKeeps
  <1>5. CASE \E r \in Runs : RegisterTask(r) \/ TaskStep(r)
    BY <1>5, RegisterTaskKeeps, TaskReadRunKeeps, TaskMarkRunningKeeps, TaskLoadGraphKeeps,
       TaskRuntimeReturnsKeeps, TaskExitKeeps, TaskCancelledUnstartedKeeps, TaskCancelledKeeps,
       RuntimeSwallowsCancelKeeps, TaskCancelledFinishingKeeps DEF TaskStep
  <1>6. CASE \E c \in Callers : FinishStep(c)
    BY <1>6, FinishReadKeeps, FinishWriteKeeps DEF FinishStep
  <1>7. CASE \E s \in Stoppers, r \in Runs : StopCheck(s, r)
    BY <1>7, StopCheckKeeps
  <1>8. CASE \E s \in Stoppers : StopStep(s)
    BY <1>8, StopLookupKeeps, StopTaskEndedKeeps, StopTimesOutKeeps, StopReturnKeeps DEF StopStep
  <1>9. CASE ShutdownBegin \/ ShutdownStep \/ Crash \/ Restart
    BY <1>9, ShutdownBeginKeeps, ShutdownCollectKeeps, ShutdownFinishKeeps,
       ShutdownFinishedKeeps, ShutdownExitKeeps, CrashKeeps, RestartKeeps DEF ShutdownStep
  <1>. QED
    BY <1>1, <1>2, <1>3, <1>4, <1>5, <1>6, <1>7, <1>8, <1>9 DEF Next

\* AgentManager keeps the inductive invariant as long as clients stop only runs
\* whose start has returned.
THEOREM Invariance == ASSUME ~EarlyStop PROVE Spec => []IInv
  <1>1. Init => IInv
    BY InitEstablishes
  <1>2. IInv /\ [Next]_vars => IInv'
    BY NextKeeps
  <1>. QED
    BY <1>1, <1>2, PTL DEF Spec

\* The variables of the manager keep their types.
THEOREM TypeCorrect == ASSUME ~EarlyStop PROVE Spec => []TypeOK
  <1>1. IInv => TypeOK
    OBVIOUS
  <1>. QED
    BY <1>1, Invariance, PTL

\* The agent's status row tells whether it has an active run, at every commit of
\* _start_run, _finish_* and recover_stale_runs and after a crash at any point.
THEOREM AgentStatusCorrect == ASSUME ~EarlyStop PROVE Spec => []AgentStatusAgrees
  <1>1. IInv => AgentStatusAgrees
    <2>. SUFFICES ASSUME IInv, NEW a \in Agents
                  PROVE  agentStatus[a] = "running" <=> HasActive(a)
      BY DEF AgentStatusAgrees
    <2>1. agentStatus[a] = "running" => HasActive(a)
      BY DEF OwnersExist
    <2>2. HasActive(a) => agentStatus[a] = "running"
      BY DEF OwnersExist, HasActive
    <2>. QED
      BY <2>1, <2>2
  <1>. QED
    BY <1>1, Invariance, PTL

\* Each status is committed with its checkpoint, and recovery assesses a run at
\* most once and never without a checkpoint.
THEOREM EvidenceCorrect == ASSUME ~EarlyStop PROVE Spec => []EvidenceMatchesStatus
  <1>1. IInv => EvidenceMatchesStatus
    OBVIOUS
  <1>. QED
    BY <1>1, Invariance, PTL

\* A cancelled run is not executed any further.
THEOREM CancelledQuiet == ASSUME ~EarlyStop PROVE Spec => []CancelledIsQuiet
  <1>1. IInv => CancelledIsQuiet
    BY DEF TypeOK, EndsStay, CancelledIsQuiet
  <1>. QED
    BY <1>1, Invariance, PTL

\* While requests are served, no run that has ended is executed any further.
THEOREM EndedQuiet == ASSUME ~EarlyStop PROVE Spec => []EndedIsQuiet
  <1>1. IInv => EndedIsQuiet
    BY DEF TasksMatchRows, EndedIsQuiet
  <1>. QED
    BY <1>1, Invariance, PTL

\* A stop_run that returns normally returns a run that has ended.
THEOREM FinishEnds == ASSUME ~EarlyStop PROVE Spec => []FinishReturnsEnded
  <1>1. IInv => FinishReturnsEnded
    BY DEF EndsStay
  <1>. QED
    BY <1>1, Invariance, PTL

-----------------------------------------------------------------------------
(* Refinement.                                                             *)

\* The write of a _finish_* call is a step of the contract: only a running run
\* can be written as succeeded.
LEMMA WriteTerminalIsContract ==
  ASSUME IInv, NEW c \in Callers, finPc[c] = "writing", WriteTerminal(finRun[c], finOut[c])
  PROVE  \E r \in Runs : Contract!Succeed(r) \/ Contract!GiveUp(r)
  <1>1. /\ finRun[c] \in Runs /\ finOut[c] \in Terminal
        /\ runStatus[finRun[c]] \in {"queued", "running"}
    BY DEF CallsNamed, WritersExclusive
  <1>2. CASE finOut[c] = "succeeded"
    <2>1. c \in Runs /\ finRun[c] = c /\ task[c] = "finishing"
      BY <1>1, <1>2 DEF CallsNamed, TypeOK
    <2>2. runStatus[finRun[c]] = "running"
      BY <1>1, <1>2, <2>1 DEF TasksMatchRows
    <2>3. Contract!Succeed(finRun[c])
      BY <1>2, <2>2 DEF WriteTerminal, Contract!Succeed
    <2>. QED
      BY <1>1, <2>3
  <1>3. CASE finOut[c] \in {"failed", "cancelled"}
    <2>1. Contract!GiveUp(finRun[c])
      BY <1>1, <1>3 DEF WriteTerminal, Contract!GiveUp, Contract!Live
    <2>. QED
      BY <1>1, <2>1
  <1>. QED
    BY <1>1, <1>2, <1>3

\* _mark_running is the contract's Run: the row it overwrites is still queued.
LEMMA WriteRunningIsContract ==
  ASSUME IInv, NEW r \in Runs, task[r] = "marking", WriteRunning(r)
  PROVE  Contract!Run(r)
  BY DEF TasksMatchRows, WriteRunning, Contract!Run

\* Every step of the manager is a step of the contract or leaves it alone.
LEMMA StepIsContract ==
  ASSUME IInv, [Next]_vars
  PROVE  [Contract!CNext]_(Contract!cvars)
  <1>. USE DEF Contract!cvars
  <1>1. CASE UNCHANGED <<runStatus, owner>>
    BY <1>1
  <1>2. ASSUME NEW a \in Agents, DeleteAgent(a) PROVE Contract!Forget(a)
    BY <1>2 DEF DeleteAgent, HasActive, Contract!Forget, Contract!Idle, Contract!Live
  <1>3. ASSUME NEW a \in Agents, NEW r \in Runs, StartRun(a, r) PROVE Contract!Queue(a, r)
    BY <1>3 DEF StartRun, HasActive, Contract!Queue, Contract!Idle, Contract!Live
  <1>4. ASSUME NEW r \in Runs, TaskStep(r)
        PROVE  UNCHANGED <<runStatus, owner>> \/ Contract!CNext
    <2>1. CASE TaskMarkRunning(r)
      BY <2>1, WriteRunningIsContract DEF TaskMarkRunning, TaskAt, Contract!CNext
    <2>2. CASE TaskCancelled(r)
      BY <2>2, WriteRunningIsContract DEF TaskCancelled, Contract!CNext
    <2>3. CASE TaskCancelledFinishing(r)
      <3>1. finPc[r] = "writing" => finRun[r] = r
        BY DEF CallsNamed
      <3>. QED
        BY <2>3, <3>1, WriteTerminalIsContract DEF TaskCancelledFinishing, Contract!CNext
    <2>. QED
      BY <1>4, <2>1, <2>2, <2>3 DEF TaskStep, TaskReadRun, TaskLoadGraph, TaskRuntimeReturns,
         TaskExit, TaskCancelledUnstarted, RuntimeSwallowsCancel
  <1>5. ASSUME NEW c \in Callers, FinishStep(c)
        PROVE  UNCHANGED <<runStatus, owner>> \/ Contract!CNext
    BY <1>5, WriteTerminalIsContract DEF FinishStep, FinishRead, FinishWrite, Contract!CNext
  <1>6. Restart => Contract!Interrupt
    BY DEF Restart, Stale, Contract!Interrupt, Contract!Live
  <1>7. ASSUME NEW s \in Stoppers, StopStep(s) \/ \E r \in Runs : StopCheck(s, r)
        PROVE  UNCHANGED <<runStatus, owner>>
    BY <1>7 DEF StopStep, StopCheck, StopLookup, StopTaskEnded, StopTimesOut, StopReturn
  <1>8. ShutdownBegin \/ ShutdownStep \/ Crash => UNCHANGED <<runStatus, owner>>
    BY DEF ShutdownBegin, ShutdownStep, ShutdownCollect, ShutdownFinish, ShutdownFinished,
       ShutdownExit, Crash, Die
  <1>9. ASSUME NEW a \in Agents, NEW g \in Graphs, CreateAgent(a, g) \/ UpdateGraph(a, g)
        PROVE  UNCHANGED <<runStatus, owner>>
    BY <1>9 DEF CreateAgent, UpdateGraph
  <1>10. ASSUME NEW r \in Runs, RegisterTask(r) PROVE UNCHANGED <<runStatus, owner>>
    BY <1>10 DEF RegisterTask
  <1>11. UNCHANGED vars => UNCHANGED <<runStatus, owner>>
    BY DEF vars
  <1>. QED
    BY <1>1, <1>2, <1>3, <1>4, <1>5, <1>6, <1>7, <1>8, <1>9, <1>10, <1>11 DEF Next, Contract!CNext

\* The manager implements the contract on run rows.
THEOREM Refinement == ASSUME ~EarlyStop PROVE Spec => ImplementsContract
  <1>1. Init => Contract!CInit
    BY DEF Init, Contract!CInit
  <1>2. IInv /\ [Next]_vars => [Contract!CNext]_(Contract!cvars)
    BY StepIsContract
  <1>. QED
    BY <1>1, <1>2, Invariance, PTL DEF Spec, ImplementsContract, Contract!CSpec

-----------------------------------------------------------------------------
(* One active run per agent, early stops included.                         *)

\* The slots do not change when no run becomes active: rows may end or go, calls
\* may be made and returned.
LEMMA SlotsFrame ==
  ASSUME SlotInv, UNCHANGED owner,
         runStatus' \in [Runs -> {"unborn", "deleted"} \cup Active \cup Terminal],
         \A r \in Runs : runStatus'[r] \in Active => runStatus[r] \in Active,
         finPc' \in [Callers -> {"idle", "waiting", "writing", "returned", "aborted"}],
         finOut' \in [Callers -> Terminal \cup {None}],
         \A c \in Callers : finPc'[c] \in {"waiting", "writing"} => finOut'[c] \in Terminal
  PROVE  SlotInv'
  BY DEF SlotInv, OneActiveRunPerAgent

\* _mark_running's write takes the slot only when the unique index lets it.
LEMMA MarkKeepsSlots ==
  ASSUME SlotInv, NEW r \in Runs, WriteRunning(r),
         finPc' \in [Callers -> {"idle", "waiting", "writing", "returned", "aborted"}],
         finOut' \in [Callers -> Terminal \cup {None}],
         \A c \in Callers : finPc'[c] \in {"waiting", "writing"} => finOut'[c] \in Terminal
  PROVE  SlotInv'
  <1>1. /\ runStatus' = [runStatus EXCEPT ![r] = "running"] /\ owner' = owner
        /\ \A q \in Runs \ {r} : owner[q] = owner[r] => runStatus[q] \notin Active
    BY DEF WriteRunning, CanMark
  <1>2. /\ runStatus' \in [Runs -> {"unborn", "deleted"} \cup Active \cup Terminal]
        /\ \A q \in Runs \ {r} : runStatus'[q] = runStatus[q]
    BY <1>1 DEF SlotInv
  <1>3. OneActiveRunPerAgent'
    BY <1>1, <1>2 DEF SlotInv, OneActiveRunPerAgent
  <1>. QED
    BY <1>1, <1>2, <1>3 DEF SlotInv

\* _start_run takes the slot only of an agent that has no active run.
LEMMA StartKeepsSlots ==
  ASSUME SlotInv, NEW a \in Agents, NEW r \in Runs, StartRun(a, r)
  PROVE  SlotInv'
  <1>1. /\ runStatus' = [runStatus EXCEPT ![r] = "queued"] /\ owner' = [owner EXCEPT ![r] = a]
        /\ \A q \in Runs : owner[q] = a => runStatus[q] \notin Active
        /\ UNCHANGED fin
    BY DEF StartRun, HasActive
  <1>2. /\ runStatus' \in [Runs -> {"unborn", "deleted"} \cup Active \cup Terminal]
        /\ owner' \in [Runs -> Agents \cup {None}] /\ owner'[r] = a
        /\ \A q \in Runs \ {r} : runStatus'[q] = runStatus[q] /\ owner'[q] = owner[q]
    BY <1>1 DEF SlotInv
  <1>3. OneActiveRunPerAgent'
    BY <1>1, <1>2 DEF SlotInv, OneActiveRunPerAgent
  <1>. QED
    BY <1>1, <1>2, <1>3 DEF SlotInv

\* A call made or returned keeps its outcome an ended status.
LEMMA CallKeepsOutcomes ==
  ASSUME SlotInv, NEW c \in Callers, NEW r, NEW out,
         \/ CallFinish(c, r, out) /\ out \in Terminal
         \/ EndFinish(c)
         \/ UNCHANGED fin
  PROVE  /\ finPc' \in [Callers -> {"idle", "waiting", "writing", "returned", "aborted"}]
         /\ finOut' \in [Callers -> Terminal \cup {None}]
         /\ \A d \in Callers : finPc'[d] \in {"waiting", "writing"} => finOut'[d] \in Terminal
  BY DEF SlotInv, CallFinish, EndFinish

\* A terminal write frees a slot.
LEMMA EndKeepsSlots ==
  ASSUME SlotInv, NEW r, NEW out \in Terminal, WriteTerminal(r, out), UNCHANGED finOut,
         finPc' \in [Callers -> {"idle", "waiting", "writing", "returned", "aborted"}],
         \A c \in Callers : finPc'[c] \in {"waiting", "writing"} => finOut'[c] \in Terminal
  PROVE  SlotInv'
  <1>1. runStatus' = [runStatus EXCEPT ![r] = out] /\ owner' = owner
    BY DEF WriteTerminal
  <1>2. /\ runStatus' \in [Runs -> {"unborn", "deleted"} \cup Active \cup Terminal]
        /\ \A q \in Runs : runStatus'[q] \in Active => runStatus[q] \in Active
    BY <1>1 DEF SlotInv
  <1>. QED
    BY <1>1, <1>2, SlotsFrame DEF SlotInv

\* The steps of a run's task.
LEMMA TaskKeepsSlots ==
  ASSUME SlotInv, NEW r \in Runs, TaskStep(r)
  PROVE  SlotInv'
  <1>0. r \in Callers /\ {"succeeded", "failed", "cancelled"} = Terminal
    OBVIOUS
  <1>1. CASE TaskReadRun(r) \/ TaskLoadGraph(r) \/ TaskRuntimeReturns(r) \/ TaskExit(r)
             \/ TaskCancelledUnstarted(r) \/ RuntimeSwallowsCancel(r)
    <2>1. UNCHANGED rows
      BY <1>1 DEF TaskReadRun, TaskLoadGraph, TaskRuntimeReturns, TaskExit, TaskCancelledUnstarted,
         RuntimeSwallowsCancel
    <2>2. \/ \E out \in Terminal : CallFinish(r, r, out)
          \/ EndFinish(r) \/ UNCHANGED fin
      BY <1>1 DEF TaskReadRun, TaskLoadGraph, TaskRuntimeReturns, TaskExit, TaskCancelledUnstarted,
         RuntimeSwallowsCancel, GoFinish
    <2>3. /\ finPc' \in [Callers -> {"idle", "waiting", "writing", "returned", "aborted"}]
          /\ finOut' \in [Callers -> Terminal \cup {None}]
          /\ \A c \in Callers : finPc'[c] \in {"waiting", "writing"} => finOut'[c] \in Terminal
      BY <1>0, <2>2, CallKeepsOutcomes
    <2>. QED
      BY <2>1, <2>3, SlotsFrame DEF SlotInv
  <1>2. CASE TaskMarkRunning(r) \/ TaskCancelled(r)
    <2>1. \/ \E out \in Terminal : CallFinish(r, r, out)
          \/ UNCHANGED fin
      BY <1>2 DEF TaskMarkRunning, TaskCancelled, GoFinish
    <2>2. /\ finPc' \in [Callers -> {"idle", "waiting", "writing", "returned", "aborted"}]
          /\ finOut' \in [Callers -> Terminal \cup {None}]
          /\ \A c \in Callers : finPc'[c] \in {"waiting", "writing"} => finOut'[c] \in Terminal
      BY <1>0, <2>1, CallKeepsOutcomes
    <2>3. UNCHANGED rows \/ WriteRunning(r)
      BY <1>2 DEF TaskMarkRunning, TaskCancelled
    <2>4. CASE UNCHANGED rows
      BY <2>2, <2>4, SlotsFrame DEF SlotInv
    <2>. QED
      BY <2>2, <2>3, <2>4, MarkKeepsSlots
  <1>3. CASE TaskCancelledFinishing(r)
    <2>1. /\ finPc' = [finPc EXCEPT ![r] = "aborted"] /\ finOut' = finOut
          /\ UNCHANGED rows \/ (finPc[r] = "writing" /\ WriteTerminal(r, finOut[r]))
      BY <1>3 DEF TaskCancelledFinishing
    <2>2. /\ finPc' \in [Callers -> {"idle", "waiting", "writing", "returned", "aborted"}]
          /\ \A c \in Callers : finPc'[c] \in {"waiting", "writing"} => finOut'[c] \in Terminal
      BY <1>0, <2>1 DEF SlotInv
    <2>3. CASE UNCHANGED rows
      BY <2>1, <2>2, <2>3, SlotsFrame DEF SlotInv
    <2>4. CASE finPc[r] = "writing" /\ WriteTerminal(r, finOut[r])
      BY <1>0, <2>1, <2>2, <2>4, EndKeepsSlots DEF SlotInv
    <2>. QED
      BY <2>1, <2>3, <2>4
  <1>. QED
    BY <1>1, <1>2, <1>3 DEF TaskStep

\* The steps of a _finish_* call.
LEMMA FinishKeepsSlots ==
  ASSUME SlotInv, NEW c \in Callers, FinishStep(c)
  PROVE  SlotInv'
  <1>1. CASE FinishRead(c)
    <2>1. /\ finPc[c] = "waiting" /\ UNCHANGED <<rows, finOut>>
          /\ finPc' = [finPc EXCEPT ![c] = IF runStatus[finRun[c]] \in Active THEN "writing" ELSE "returned"]
      BY <1>1 DEF FinishRead
    <2>2. /\ finPc' \in [Callers -> {"idle", "waiting", "writing", "returned", "aborted"}]
          /\ \A d \in Callers : finPc'[d] \in {"waiting", "writing"} => finOut'[d] \in Terminal
      BY <2>1 DEF SlotInv
    <2>. QED
      BY <2>1, <2>2, SlotsFrame DEF SlotInv
  <1>2. CASE FinishWrite(c)
    <2>1. /\ finPc[c] = "writing" /\ WriteTerminal(finRun[c], finOut[c])
          /\ finPc' = [finPc EXCEPT ![c] = "returned"] /\ finOut' = finOut
      BY <1>2 DEF FinishWrite
    <2>2. /\ finPc' \in [Callers -> {"idle", "waiting", "writing", "returned", "aborted"}]
          /\ \A d \in Callers : finPc'[d] \in {"waiting", "writing"} => finOut'[d] \in Terminal
      BY <2>1 DEF SlotInv
    <2>. QED
      BY <2>1, <2>2, EndKeepsSlots DEF SlotInv
  <1>. QED
    BY <1>1, <1>2 DEF FinishStep

\* stop_run and shutdown only make calls, and a process that dies forgets them.
LEMMA CallersKeepSlots ==
  ASSUME SlotInv,
         \/ \E s \in Stoppers : StopStep(s) \/ \E r \in Runs : StopCheck(s, r)
         \/ ShutdownBegin \/ ShutdownStep \/ Crash
  PROVE  SlotInv'
  <1>1. UNCHANGED rows
    BY DEF StopStep, StopCheck, StopLookup, StopTaskEnded, StopTimesOut, StopReturn, ShutdownBegin,
       ShutdownStep, ShutdownCollect, ShutdownFinish, ShutdownFinished, ShutdownExit, Crash, Die
  <1>2. \/ \E c \in Callers : \E r, out : (CallFinish(c, r, out) /\ out \in Terminal) \/ EndFinish(c)
        \/ UNCHANGED fin
        \/ Die
    BY DEF StopStep, StopCheck, StopLookup, StopTaskEnded, StopTimesOut, StopReturn, ShutdownBegin,
       ShutdownStep, ShutdownCollect, ShutdownFinish, ShutdownFinished, ShutdownExit, Crash
  <1>3. /\ finPc' \in [Callers -> {"idle", "waiting", "writing", "returned", "aborted"}]
        /\ finOut' \in [Callers -> Terminal \cup {None}]
        /\ \A c \in Callers : finPc'[c] \in {"waiting", "writing"} => finOut'[c] \in Terminal
    <2>1. CASE Die
      BY <2>1 DEF Die
    <2>2. CASE UNCHANGED fin
      BY <2>2 DEF SlotInv
    <2>. QED
      BY <1>2, <2>1, <2>2, CallKeepsOutcomes
  <1>. QED
    BY <1>1, <1>3, SlotsFrame DEF SlotInv

\* Every step keeps the slots.
LEMMA NextKeepsSlots ==
  ASSUME SlotInv, [Next]_vars
  PROVE  SlotInv'
  <1>1. CASE UNCHANGED <<rows, fin>>
    BY <1>1 DEF SlotInv, OneActiveRunPerAgent
  <1>2. ASSUME NEW a \in Agents, DeleteAgent(a)
        PROVE  SlotInv'
    BY <1>2, SlotsFrame DEF DeleteAgent, SlotInv
  <1>3. ASSUME NEW a \in Agents, NEW g \in Graphs, CreateAgent(a, g) \/ UpdateGraph(a, g)
        PROVE  SlotInv'
    BY <1>3, SlotsFrame DEF CreateAgent, UpdateGraph, SlotInv
  <1>4. CASE Restart
    BY <1>4, SlotsFrame DEF Restart, Stale, SlotInv
  <1>5. ASSUME NEW r \in Runs, RegisterTask(r)
        PROVE  UNCHANGED <<rows, fin>>
    BY <1>5 DEF RegisterTask
  <1>6. UNCHANGED vars => UNCHANGED <<rows, fin>>
    BY DEF vars
  <1>. QED
    BY <1>1, <1>2, <1>3, <1>4, <1>5, <1>6, StartKeepsSlots, TaskKeepsSlots, FinishKeepsSlots,
       CallersKeepSlots DEF Next

\* An agent never has two active runs, whether or not runs are stopped before
\* their start has returned: the check of _start_run's transaction and the partial
\* unique index are enough by themselves.
THEOREM OneActiveRun == Spec => []OneActiveRunPerAgent
  <1>1. Init => SlotInv
    BY DEF Init, SlotInv, OneActiveRunPerAgent
  <1>2. SlotInv /\ [Next]_vars => SlotInv'
    BY NextKeepsSlots
  <1>3. SlotInv => OneActiveRunPerAgent
    BY DEF SlotInv
  <1>. QED
    BY <1>1, <1>2, <1>3, PTL DEF Spec

-----------------------------------------------------------------------------
(* Outcomes, early stops included.                                         *)

\* The outcomes, and that the callers of _finish_* are of three kinds.
LEMMA CallersApart ==
  /\ {"succeeded", "failed", "cancelled"} = Terminal
  /\ Runs \subseteq Callers /\ Stoppers \subseteq Callers /\ Shutdown \in Callers
  /\ Runs \cap Stoppers = {} /\ Shutdown \notin Runs \cup Stoppers
  OBVIOUS

\* A task that leaves its work for a _finish_* call, with or without its running
\* mark written.
LEMMA GoFinishKeepsRewrites ==
  ASSUME RewriteInv, NEW r \in Runs, NEW out \in Terminal, GoFinish(r, out),
         task[r] \in {"ready", "marking", "prepared", "invoking"},
         \/ UNCHANGED runStatus
         \/ task[r] = "marking" /\ runStatus' = [runStatus EXCEPT ![r] = "running"] /\ runStatus[r] # "deleted",
         UNCHANGED <<process, starting, stop, todo>>
  PROVE  RewriteInv'
  <1>0. r \in Callers /\ finPc[r] = "idle" /\ proc # "down" /\ r \notin starting /\ runStatus[r] # "unborn"
    BY CallersApart DEF RewriteInv, DownIsEmpty, MarkersFindFailures
  <1>1. /\ task' = [task EXCEPT ![r] = "finishing"]
        /\ finPc' = [finPc EXCEPT ![r] = "waiting"]
        /\ finRun' = [finRun EXCEPT ![r] = r]
        /\ finOut' = [finOut EXCEPT ![r] = out]
        /\ UNCHANGED <<proc, starting, stopPc, stopRun, todo>>
    BY DEF GoFinish, CallFinish
  <1>2. /\ runStatus' \in [Runs -> {"unborn", "deleted"} \cup Active \cup Terminal]
        /\ \A q \in Runs : runStatus'[q] = runStatus[q] \/ (q = r /\ runStatus'[q] = "running")
        /\ \A q \in Runs : runStatus[q] # "unborn" <=> runStatus'[q] # "unborn"
    BY <1>0 DEF RewriteInv
  <1>3. /\ \A c \in Callers \ {r} : finPc'[c] = finPc[c] /\ finRun'[c] = finRun[c] /\ finOut'[c] = finOut[c]
        /\ \A q \in Runs \ {r} : task'[q] = task[q]
        /\ finPc'[r] = "waiting" /\ finRun'[r] = r /\ finOut'[r] = out /\ task'[r] = "finishing"
    BY <1>0, <1>1 DEF RewriteInv
  <1>4. /\ task' \in [Runs -> TaskPoints]
        /\ finPc' \in [Callers -> {"idle", "waiting", "writing", "returned", "aborted"}]
        /\ finRun' \in [Callers -> Runs \cup {None}]
        /\ finOut' \in [Callers -> Terminal \cup {None}]
    BY <1>0, <1>1 DEF RewriteInv, TaskPoints
  <1>5. WritersExclusive'
    BY <1>0, <1>2, <1>3 DEF RewriteInv, WritersExclusive
  <1>6. MarkersFindFailures'
    BY <1>0, <1>1, <1>2, <1>3 DEF RewriteInv, MarkersFindFailures
  <1>. QED
    BY <1>0, <1>1, <1>2, <1>3, <1>4, <1>5, <1>6, CallersApart DEF RewriteInv, DownIsEmpty

\* The steps of a run's task.
LEMMA TaskKeepsRewrites ==
  ASSUME RewriteInv, NEW r \in Runs, TaskStep(r)
  PROVE  RewriteInv'
  <1>1. CASE TaskReadRun(r)
    <2>1. CASE GoFinish(r, "failed")
      BY <1>1, <2>1, CallersApart, GoFinishKeepsRewrites DEF TaskReadRun, TaskAt
    <2>2. CASE runStatus[r] \in Active /\ task' = [task EXCEPT ![r] = "marking"] /\ UNCHANGED fin
      BY <1>1, <2>2, CallersApart DEF RewriteInv, WritersExclusive, MarkersFindFailures, DownIsEmpty,
         TaskReadRun, TaskAt, TaskPoints
    <2>. QED
      BY <1>1, <2>1, <2>2 DEF TaskReadRun
  <1>2. CASE TaskMarkRunning(r)
    <2>1. CASE GoFinish(r, "failed") /\ UNCHANGED rows
      BY <1>2, <2>1, CallersApart, GoFinishKeepsRewrites DEF TaskMarkRunning, TaskAt
    <2>2. CASE WriteRunning(r) /\ task' = [task EXCEPT ![r] = "prepared"] /\ UNCHANGED fin
      <3>1. /\ runStatus' = [runStatus EXCEPT ![r] = "running"] /\ runStatus[r] # "deleted"
            /\ task[r] = "marking" /\ UNCHANGED <<proc, starting, finPc, finRun, finOut, stopPc, stopRun, todo>>
        BY <1>2, <2>2 DEF WriteRunning, CanMark, TaskMarkRunning, TaskAt
      <3>2. /\ runStatus' \in [Runs -> {"unborn", "deleted"} \cup Active \cup Terminal]
            /\ task' \in [Runs -> TaskPoints]
            /\ \A q \in Runs \ {r} : runStatus'[q] = runStatus[q] /\ task'[q] = task[q]
            /\ runStatus'[r] = "running" /\ task'[r] = "prepared"
        BY <2>2, <3>1 DEF RewriteInv, TaskPoints
      <3>3. WritersExclusive' /\ MarkersFindFailures'
        BY <3>1, <3>2 DEF RewriteInv, WritersExclusive, MarkersFindFailures
      <3>. QED
        BY <3>1, <3>2, <3>3, CallersApart DEF RewriteInv, DownIsEmpty, MarkersFindFailures
    <2>. QED
      BY <1>2, <2>1, <2>2 DEF TaskMarkRunning
  <1>3. CASE TaskLoadGraph(r)
    <2>1. CASE GoFinish(r, "failed")
      BY <1>3, <2>1, CallersApart, GoFinishKeepsRewrites DEF TaskLoadGraph, TaskAt
    <2>2. CASE task' = [task EXCEPT ![r] = "invoking"] /\ UNCHANGED fin
      BY <1>3, <2>2, CallersApart DEF RewriteInv, WritersExclusive, MarkersFindFailures, DownIsEmpty,
         TaskLoadGraph, TaskAt, TaskPoints
    <2>. QED
      BY <1>3, <2>1, <2>2 DEF TaskLoadGraph
  <1>4. CASE TaskRuntimeReturns(r)
    BY <1>4, CallersApart, GoFinishKeepsRewrites DEF TaskRuntimeReturns, TaskAt
  <1>5. CASE TaskExit(r)
    BY <1>5, CallersApart DEF RewriteInv, WritersExclusive, MarkersFindFailures, DownIsEmpty,
       TaskExit, TaskAt, EndFinish, TaskPoints
  <1>6. CASE TaskCancelledUnstarted(r)
    BY <1>6, CallersApart DEF RewriteInv, WritersExclusive, MarkersFindFailures, DownIsEmpty,
       TaskCancelledUnstarted, TaskAt, TaskPoints
  <1>7. CASE TaskCancelled(r)
    BY <1>7, CallersApart, GoFinishKeepsRewrites DEF TaskCancelled, WriteRunning, CanMark
  <1>8. CASE RuntimeSwallowsCancel(r)
    BY <1>8, CallersApart DEF RewriteInv, WritersExclusive, MarkersFindFailures, DownIsEmpty,
       RuntimeSwallowsCancel, TaskAt, TaskPoints
  <1>9. CASE TaskCancelledFinishing(r)
    <2>1. /\ finPc' = [finPc EXCEPT ![r] = "aborted"] /\ task[r] = "finishing" /\ proc # "down"
          /\ UNCHANGED <<proc, starting, task, finRun, finOut, stopPc, stopRun, todo>>
      BY <1>9 DEF TaskCancelledFinishing, RewriteInv, DownIsEmpty
    <2>2. CASE UNCHANGED runStatus
      <3>1. /\ finPc' \in [Callers -> {"idle", "waiting", "writing", "returned", "aborted"}]
            /\ \A c \in Callers : finPc'[c] \in {"waiting", "writing"} => finPc'[c] = finPc[c]
            /\ \A c \in Callers \ {r} : finPc'[c] = finPc[c]
        BY <2>1 DEF RewriteInv
      <3>2. finPc[r] # "idle"
        BY <1>9 DEF TaskCancelledFinishing, RewriteInv
      <3>. QED
        BY <2>1, <2>2, <3>1, <3>2, CallersApart DEF RewriteInv, WritersExclusive, MarkersFindFailures, DownIsEmpty
    <2>3. CASE finPc[r] = "writing" /\ WriteTerminal(r, finOut[r])
      <3>1. /\ runStatus' = [runStatus EXCEPT ![r] = finOut[r]] /\ finOut[r] \in Terminal
            /\ runStatus[r] \in Active /\ finRun[r] = r
        BY <2>3, CallersApart DEF WriteTerminal, RewriteInv, WritersExclusive
      <3>2. /\ runStatus' \in [Runs -> {"unborn", "deleted"} \cup Active \cup Terminal]
            /\ \A q \in Runs \ {r} : runStatus'[q] = runStatus[q]
            /\ \A c \in Callers \ {r} : finPc[c] = "writing" => finRun[c] # r
        BY <2>3, <3>1, CallersApart DEF RewriteInv, WritersExclusive
      <3>. QED
        BY <2>1, <3>1, <3>2, CallersApart DEF RewriteInv, WritersExclusive, MarkersFindFailures, DownIsEmpty
    <2>. QED
      BY <1>9, <2>1, <2>2, <2>3 DEF TaskCancelledFinishing
  <1>. QED
    BY <1>1, <1>2, <1>3, <1>4, <1>5, <1>6, <1>7, <1>8, <1>9 DEF TaskStep

\* The steps of a _finish_* call.
LEMMA FinishKeepsRewrites ==
  ASSUME RewriteInv, NEW c \in Callers, FinishStep(c)
  PROVE  RewriteInv'
  <1>1. CASE FinishRead(c)
    BY <1>1, CallersApart DEF RewriteInv, WritersExclusive, MarkersFindFailures, DownIsEmpty,
       FinishRead, TerminalLockFree
  <1>2. CASE FinishWrite(c)
    BY <1>2, CallersApart DEF RewriteInv, WritersExclusive, MarkersFindFailures, DownIsEmpty,
       FinishWrite, WriteTerminal
  <1>. QED
    BY <1>1, <1>2 DEF FinishStep

\* stop_run and shutdown.
LEMMA CallersKeepRewrites ==
  ASSUME RewriteInv,
         \/ \E s \in Stoppers : StopStep(s) \/ \E r \in Runs : StopCheck(s, r)
         \/ ShutdownBegin \/ ShutdownStep \/ Crash
  PROVE  RewriteInv'
  <1>1. ASSUME NEW s \in Stoppers, NEW r \in Runs, StopCheck(s, r) PROVE RewriteInv'
    BY <1>1, CallersApart DEF RewriteInv, WritersExclusive, MarkersFindFailures, DownIsEmpty,
       StopCheck
  <1>2. ASSUME NEW s \in Stoppers, StopLookup(s) PROVE RewriteInv'
    <2>1. s \in Callers /\ stopRun[s] \in Runs /\ proc # "down" /\ "failed" \in Terminal
          /\ UNCHANGED <<runStatus, proc, starting, task, stopRun, todo>>
      BY <1>2, CallersApart DEF StopLookup, RewriteInv, DownIsEmpty
    <2>2. CASE stopPc' = [stopPc EXCEPT ![s] = "finishing"] /\ CallFinish(s, stopRun[s], "failed")
      <3>1. /\ finPc' = [finPc EXCEPT ![s] = "waiting"]
            /\ finRun' = [finRun EXCEPT ![s] = stopRun[s]]
            /\ finOut' = [finOut EXCEPT ![s] = "failed"]
        BY <2>2 DEF CallFinish
      <3>2. \A c \in Callers \ {s} : finPc'[c] = finPc[c] /\ finRun'[c] = finRun[c] /\ finOut'[c] = finOut[c]
        BY <2>1, <3>1 DEF RewriteInv
      <3>. QED
        BY <2>1, <2>2, <3>1, <3>2, CallersApart DEF RewriteInv, WritersExclusive, MarkersFindFailures, DownIsEmpty
    <2>3. CASE stopPc' = [stopPc EXCEPT ![s] = "waiting"] /\ UNCHANGED fin
      BY <2>1, <2>3, CallersApart DEF RewriteInv, WritersExclusive, MarkersFindFailures, DownIsEmpty
    <2>. QED
      BY <1>2, <2>2, <2>3 DEF StopLookup
  <1>3. ASSUME NEW s \in Stoppers, StopTaskEnded(s) PROVE RewriteInv'
    BY <1>3, CallersApart DEF RewriteInv, WritersExclusive, MarkersFindFailures, DownIsEmpty,
       StopTaskEnded, CallFinish
  <1>4. ASSUME NEW s \in Stoppers, StopTimesOut(s) PROVE RewriteInv'
    BY <1>4, CallersApart DEF RewriteInv, WritersExclusive, MarkersFindFailures, DownIsEmpty,
       StopTimesOut
  <1>5. ASSUME NEW s \in Stoppers, StopReturn(s) PROVE RewriteInv'
    BY <1>5, CallersApart DEF RewriteInv, WritersExclusive, MarkersFindFailures, DownIsEmpty,
       StopReturn, EndFinish
  <1>6. CASE ShutdownBegin
    BY <1>6, CallersApart DEF RewriteInv, WritersExclusive, MarkersFindFailures, DownIsEmpty,
       ShutdownBegin
  <1>7. CASE ShutdownCollect
    BY <1>7, CallersApart DEF RewriteInv, WritersExclusive, MarkersFindFailures, DownIsEmpty,
       ShutdownCollect
  <1>8. ASSUME NEW r \in Runs, ShutdownFinish(r) PROVE RewriteInv'
    BY <1>8, CallersApart DEF RewriteInv, WritersExclusive, MarkersFindFailures, DownIsEmpty,
       ShutdownFinish, CallFinish
  <1>9. CASE ShutdownFinished
    BY <1>9, CallersApart DEF RewriteInv, WritersExclusive, MarkersFindFailures, DownIsEmpty,
       ShutdownFinished, EndFinish
  <1>10. CASE ShutdownExit \/ Crash
    BY <1>10, CallersApart DEF RewriteInv, WritersExclusive, MarkersFindFailures, DownIsEmpty,
       ShutdownExit, Crash, Die, TaskPoints
  <1>. QED
    BY <1>1, <1>2, <1>3, <1>4, <1>5, <1>6, <1>7, <1>8, <1>9, <1>10 DEF StopStep, ShutdownStep

\* Every step.
LEMMA NextKeepsRewrites ==
  ASSUME RewriteInv, [Next]_vars
  PROVE  RewriteInv'
  <1>1. ASSUME NEW a \in Agents, NEW g \in Graphs, CreateAgent(a, g) \/ UpdateGraph(a, g) PROVE RewriteInv'
    BY <1>1, CallersApart DEF RewriteInv, WritersExclusive, MarkersFindFailures, DownIsEmpty,
       CreateAgent, UpdateGraph
  <1>2. ASSUME NEW a \in Agents, DeleteAgent(a) PROVE RewriteInv'
    BY <1>2, CallersApart DEF RewriteInv, WritersExclusive, MarkersFindFailures, DownIsEmpty,
       DeleteAgent, HasActive
  <1>3. ASSUME NEW a \in Agents, NEW r \in Runs, StartRun(a, r) PROVE RewriteInv'
    BY <1>3, CallersApart DEF RewriteInv, WritersExclusive, MarkersFindFailures, DownIsEmpty,
       StartRun, HasActive
  <1>4. ASSUME NEW r \in Runs, RegisterTask(r) PROVE RewriteInv'
    BY <1>4, CallersApart DEF RewriteInv, WritersExclusive, MarkersFindFailures, DownIsEmpty,
       RegisterTask, TaskPoints
  <1>5. CASE Restart
    BY <1>5, CallersApart DEF RewriteInv, WritersExclusive, MarkersFindFailures, DownIsEmpty,
       Restart, Stale
  <1>6. CASE UNCHANGED vars
    BY <1>6, CallersApart DEF RewriteInv, WritersExclusive, MarkersFindFailures, DownIsEmpty, vars
  <1>. QED
    BY <1>1, <1>2, <1>3, <1>4, <1>5, <1>6, TaskKeepsRewrites, FinishKeepsRewrites, CallersKeepRewrites
    DEF Next

\* Only a task that is about to mark its run running takes an outcome back, and
\* what it takes back is a failure.
LEMMA RewriteStep ==
  ASSUME RewriteInv, [Next]_vars, NEW r \in Runs, runStatus[r] \in Terminal
  PROVE  \/ runStatus'[r] \in {runStatus[r], "deleted"}
         \/ runStatus[r] = "failed" /\ runStatus'[r] = "running" /\ task[r] = "marking"
  <1>. Terminal \cap Active = {} /\ "unborn" \notin Terminal
    OBVIOUS
  <1>1. CASE UNCHANGED runStatus
    BY <1>1
  <1>2. ASSUME NEW q \in Runs, TaskStep(q), runStatus' # runStatus
        PROVE  \/ task[q] = "marking" /\ runStatus' = [runStatus EXCEPT ![q] = "running"]
               \/ finPc[q] = "writing" /\ runStatus' = [runStatus EXCEPT ![finRun[q]] = finOut[q]]
    <2>1. \/ UNCHANGED runStatus
          \/ task[q] = "marking" /\ WriteRunning(q)
          \/ finPc[q] = "writing" /\ WriteTerminal(q, finOut[q])
      BY <1>2 DEF TaskStep, TaskReadRun, TaskMarkRunning, TaskLoadGraph, TaskRuntimeReturns, TaskExit,
         TaskCancelledUnstarted, TaskCancelled, RuntimeSwallowsCancel, TaskCancelledFinishing,
         TaskAt
    <2>2. finPc[q] = "writing" => finRun[q] = q
      BY CallersApart DEF RewriteInv
    <2>. QED
      BY <1>2, <2>1, <2>2 DEF WriteRunning, WriteTerminal
  <1>3. ASSUME NEW c \in Callers, FinishStep(c), runStatus' # runStatus
        PROVE  finPc[c] = "writing" /\ runStatus' = [runStatus EXCEPT ![finRun[c]] = finOut[c]]
    BY <1>3 DEF FinishStep, FinishRead, FinishWrite, WriteTerminal
  <1>4. ASSUME NEW c \in Callers, finPc[c] = "writing", runStatus' = [runStatus EXCEPT ![finRun[c]] = finOut[c]]
        PROVE  runStatus'[r] = runStatus[r]
    BY <1>4 DEF RewriteInv, WritersExclusive
  <1>5. ASSUME NEW q \in Runs, task[q] = "marking", runStatus' = [runStatus EXCEPT ![q] = "running"]
        PROVE  \/ runStatus'[r] = runStatus[r]
               \/ runStatus[r] = "failed" /\ runStatus'[r] = "running" /\ task[r] = "marking"
    BY <1>5 DEF RewriteInv, MarkersFindFailures
  <1>6. ASSUME NEW a \in Agents, DeleteAgent(a) PROVE runStatus'[r] \in {runStatus[r], "deleted"}
    BY <1>6 DEF DeleteAgent
  <1>7. ASSUME NEW a \in Agents, NEW q \in Runs, StartRun(a, q) PROVE runStatus'[r] = runStatus[r]
    BY <1>7 DEF StartRun
  <1>8. CASE Restart
    BY <1>8 DEF Restart, Stale
  <1>9. ASSUME NEW a \in Agents, NEW g \in Graphs, CreateAgent(a, g) \/ UpdateGraph(a, g)
        PROVE  UNCHANGED runStatus
    BY <1>9 DEF CreateAgent, UpdateGraph
  <1>10. ASSUME NEW q \in Runs, RegisterTask(q) PROVE UNCHANGED runStatus
    BY <1>10 DEF RegisterTask
  <1>11. ASSUME NEW s \in Stoppers, StopStep(s) \/ \E q \in Runs : StopCheck(s, q)
         PROVE  UNCHANGED runStatus
    BY <1>11 DEF StopStep, StopCheck, StopLookup, StopTaskEnded, StopTimesOut, StopReturn
  <1>12. ShutdownBegin \/ ShutdownStep \/ Crash => UNCHANGED runStatus
    BY DEF ShutdownBegin, ShutdownStep, ShutdownCollect, ShutdownFinish, ShutdownFinished,
       ShutdownExit, Crash, Die
  <1>13. UNCHANGED vars => UNCHANGED runStatus
    BY DEF vars
  <1>. QED
    BY <1>1, <1>2, <1>3, <1>4, <1>5, <1>6, <1>7, <1>8, <1>9, <1>10, <1>11, <1>12, <1>13 DEF Next

\* What a run's row keeps however early its run is stopped: success and
\* cancellation stand for good, and only the pending write of _mark_running can
\* turn a failure back.
THEOREM OutcomesStand == Spec => OnlyFailedRunsRevive
  <1>1. Init => RewriteInv
    BY DEF Init, RewriteInv, WritersExclusive, MarkersFindFailures, DownIsEmpty, TaskPoints
  <1>2. RewriteInv /\ [Next]_vars => RewriteInv'
    BY NextKeepsRewrites
  <1>3. RewriteInv /\ [Next]_vars => [\A r \in Runs : runStatus[r] \in Terminal =>
            \/ runStatus'[r] \in {runStatus[r], "deleted"}
            \/ runStatus[r] = "failed" /\ runStatus'[r] = "running" /\ task[r] = "marking"]_vars
    BY RewriteStep
  <1>. QED
    BY <1>1, <1>2, <1>3, PTL DEF Spec, OnlyFailedRunsRevive

=============================================================================
