----------------------------- MODULE RunContract -----------------------------
(***************************************************************************)
(* What AgentManager promises about run rows, whatever tasks, stops,       *)
(* shutdowns and restarts do: a run moves queued -> running -> ended, only *)
(* a running run succeeds, the outcome is written once, and an agent has   *)
(* one active run at a time.                                               *)
(***************************************************************************)
CONSTANTS Agents, Runs, None

VARIABLES runStatus, owner

cvars == <<runStatus, owner>>

Live == {"queued", "running"}

Idle(a) == \A r \in Runs : owner[r] = a => runStatus[r] \notin Live

CInit ==
    /\ runStatus = [r \in Runs |-> "unborn"]
    /\ owner = [r \in Runs |-> None]

Queue(a, r) ==
    /\ runStatus[r] = "unborn" /\ Idle(a)
    /\ runStatus' = [runStatus EXCEPT ![r] = "queued"]
    /\ owner' = [owner EXCEPT ![r] = a]

Run(r) ==
    /\ runStatus[r] = "queued"
    /\ runStatus' = [runStatus EXCEPT ![r] = "running"]
    /\ UNCHANGED owner

Succeed(r) ==
    /\ runStatus[r] = "running"
    /\ runStatus' = [runStatus EXCEPT ![r] = "succeeded"]
    /\ UNCHANGED owner

GiveUp(r) ==
    /\ runStatus[r] \in Live
    /\ \E out \in {"failed", "cancelled"} : runStatus' = [runStatus EXCEPT ![r] = out]
    /\ UNCHANGED owner

\* A restart fails every active run at once.
Interrupt ==
    /\ runStatus' = [r \in Runs |-> IF runStatus[r] \in Live THEN "failed" ELSE runStatus[r]]
    /\ UNCHANGED owner

Forget(a) ==
    /\ Idle(a)
    /\ runStatus' = [r \in Runs |-> IF owner[r] = a THEN "deleted" ELSE runStatus[r]]
    /\ UNCHANGED owner

CNext ==
    \/ \E a \in Agents, r \in Runs : Queue(a, r)
    \/ \E r \in Runs : Run(r) \/ Succeed(r) \/ GiveUp(r)
    \/ Interrupt
    \/ \E a \in Agents : Forget(a)

CSpec == CInit /\ [][CNext]_cvars
=============================================================================
