---------------------------- MODULE SessionContract ----------------------------
(***************************************************************************)
(* What NodeService promises to those who probe worker nodes: a node has   *)
(* at most one session, begun once by a connection and gone when its       *)
(* handler returns at the latest; a probe is entered into the session that *)
(* its node has, and is told in the same step when that session goes.      *)
(* Rows, queues, messages and the worker at the other end do not show.     *)
(***************************************************************************)
CONSTANTS Nodes, Sockets, Calls, None

VARIABLES present,  \* socket of the session of each node, or None
          handler,  \* "new" | "serving" | "returned": that of each socket
          asked,    \* session in which each probe waits, or None
          answer    \* "none" | "open" | "result" | "disconnected" | "over"

cvars == <<present, handler, asked, answer>>

CInit ==
    /\ present = [n \in Nodes |-> None]
    /\ handler = [s \in Sockets |-> "new"]
    /\ asked = [c \in Calls |-> None]
    /\ answer = [c \in Calls |-> "none"]

\* No probe waits in a session that is gone.
TellTheLost ==
    answer' = [c \in Calls |->
                 IF answer[c] = "open" /\ \A n \in Nodes : present'[n] # asked[c] THEN "disconnected" ELSE answer[c]]

\* A session replaces the one its node had.
Begin(n, s) ==
    /\ handler[s] = "new"
    /\ present' = [present EXCEPT ![n] = s]
    /\ handler' = [handler EXCEPT ![s] = "serving"]
    /\ TellTheLost
    /\ UNCHANGED asked

\* A hello is refused, or the limit of sessions is reached.
Refuse(s) ==
    /\ handler[s] = "new"
    /\ \E end \in {"serving", "returned"} : handler' = [handler EXCEPT ![s] = end]
    /\ UNCHANGED <<present, asked, answer>>

\* By a sweep or an administrator.
Drop(n) ==
    /\ present' = [present EXCEPT ![n] = None]
    /\ TellTheLost
    /\ UNCHANGED <<handler, asked>>

\* The session that goes may be one that has replaced the handler's own.
Return(s) ==
    /\ handler[s] = "serving"
    /\ handler' = [handler EXCEPT ![s] = "returned"]
    /\ \E n \in Nodes : present' = [present EXCEPT ![n] = None]
    /\ \A n \in Nodes : present'[n] # s
    /\ TellTheLost
    /\ UNCHANGED asked

Ask(c, n) ==
    /\ answer[c] = "none" /\ present[n] # None
    /\ asked' = [asked EXCEPT ![c] = present[n]]
    /\ answer' = [answer EXCEPT ![c] = "open"]
    /\ UNCHANGED <<present, handler>>

Answer(c) ==
    /\ answer[c] = "open"
    /\ answer' = [answer EXCEPT ![c] = "result"]
    /\ UNCHANGED <<present, handler, asked>>

\* With what it was told, with nothing to ask, or by a timeout.
End(c) ==
    /\ answer[c] # "over"
    /\ asked' = [asked EXCEPT ![c] = None]
    /\ answer' = [answer EXCEPT ![c] = "over"]
    /\ UNCHANGED <<present, handler>>

\* The Core comes back with nothing that was under way.
Restart ==
    /\ present' = [n \in Nodes |-> None] /\ asked' = [c \in Calls |-> None]
    /\ handler' \in [Sockets -> {"new", "returned"}]
    /\ \A s \in Sockets : handler[s] # "new" => handler'[s] = "returned"
    /\ answer' \in [Calls -> {"none", "over"}]
    /\ \A c \in Calls : answer[c] # "none" => answer'[c] = "over"

CNext ==
    \/ \E s \in Sockets : Refuse(s) \/ Return(s) \/ \E n \in Nodes : Begin(n, s)
    \/ \E n \in Nodes : Drop(n)
    \/ \E c \in Calls : Answer(c) \/ End(c) \/ \E n \in Nodes : Ask(c, n)
    \/ Restart

CSpec == CInit /\ [][CNext]_cvars
=============================================================================
