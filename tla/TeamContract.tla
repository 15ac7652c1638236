----------------------------- MODULE TeamContract -----------------------------
(***************************************************************************)
(* What a team run promises to those who see only rows: a child run is     *)
(* born while the parent runs and after the runs of all the workers it     *)
(* depends on have succeeded; a child run runs at most once and its        *)
(* outcome stands, except that one that is failed while its start is under *)
(* way may run after all; and the parent ends once, with success only when *)
(* every worker has succeeded.  Waves, the semaphore, cancellation and     *)
(* timeouts are means to this end and do not show.                         *)
(***************************************************************************)
CONSTANTS Nodes

VARIABLES
    edges, status, child,
    due    \* child runs whose start is under way

tvars == <<edges, status, child, due>>

Live == {"queued", "running"}

TInit ==
    /\ edges \subseteq Nodes \X Nodes
    /\ status = "running"
    /\ child = [n \in Nodes |-> "unborn"]
    /\ due = {}

\* The graph may be another one until the first child run.
Adopt ==
    /\ status = "running" /\ \A n \in Nodes : child[n] = "unborn"
    /\ edges' \subseteq Nodes \X Nodes
    /\ UNCHANGED <<status, child, due>>

Delegate(n) ==
    /\ status = "running" /\ child[n] = "unborn"
    /\ \A m \in Nodes : <<m, n>> \in edges => child[m] = "succeeded"
    /\ child' = [child EXCEPT ![n] = "queued"]
    /\ UNCHANGED <<edges, status, due>>

Begin(n) ==
    /\ child[n] = "queued"
    /\ due' = due \cup {n}
    /\ UNCHANGED <<edges, status, child>>

\* The row may have been failed meanwhile.
Run(n) ==
    /\ n \in due /\ child[n] \in {"queued", "failed"}
    /\ child' = [child EXCEPT ![n] = "running"]
    /\ due' = due \ {n}
    /\ UNCHANGED <<edges, status>>

Succeed(n) ==
    /\ child[n] = "running"
    /\ child' = [child EXCEPT ![n] = "succeeded"]
    /\ UNCHANGED <<edges, status, due>>

\* The run ends otherwise, its start is given up, or both.
GiveUp(n) ==
    /\ \/ UNCHANGED child
       \/ child[n] \in Live /\ \E out \in {"failed", "cancelled"} : child' = [child EXCEPT ![n] = out]
    /\ due' \in {due, due \ {n}}
    /\ UNCHANGED <<edges, status>>

End ==
    /\ status = "running"
    /\ \/ status' \in {"failed", "cancelled"}
       \/ (\A n \in Nodes : child[n] = "succeeded") /\ status' = "succeeded"
    /\ UNCHANGED <<edges, child, due>>

TNext ==
    \/ Adopt \/ End
    \/ \E n \in Nodes : Delegate(n) \/ Begin(n) \/ Run(n) \/ Succeed(n) \/ GiveUp(n)

TSpec == TInit /\ [][TNext]_tvars
=============================================================================
