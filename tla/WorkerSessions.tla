--------------------------- MODULE WorkerSessions ---------------------------
(***************************************************************************)
(* Worker nodes seen from the Core: NodeService (services/nodes.py), the   *)
(* socket handler (api/workers.py) and the worker at the other end         *)
(* (worker.py).                                                            *)
(*                                                                         *)
(* A session is named by the socket that opened it.  The bodies under      *)
(* NodeService._lock do not suspend, so each is one step; every database   *)
(* transaction is one step.  _database_lock orders the writers of a node   *)
(* row except mark_stale_offline, which reads in one step and writes in    *)
(* another.  A call to the API is named like the task id it dispatches:    *)
(* the API always draws a new one, so _recent_tasks never refuses it.      *)
(* Rows are never deleted; names and capabilities are left out.  Nodes     *)
(* other than those in Nodes appear only as sessions they hold throughout. *)
(***************************************************************************)
EXTENDS Naturals, Sequences, FiniteSets

CONSTANTS Nodes,           \* worker node ids
          Sockets,         \* websocket connections, each used once
          Calls,           \* API calls that list, read or probe nodes
          Admins,          \* callers of set_enabled
          Loop,            \* _node_liveness_loop
          None,
          MaxConnections,  \* worker_max_connections
          MaxTasks,        \* worker_max_tasks
          MaxMessages,     \* worker_max_messages
          MaxRestarts      \* bound: restarts of the Core

ASSUME WorkerAssumption ==
    /\ IsFiniteSet(Nodes) /\ IsFiniteSet(Calls)
    /\ Sockets \cap Calls = {} /\ Admins \cap (Sockets \cup Calls) = {}
    /\ Loop \notin Sockets \cup Calls \cup Admins
    /\ None \notin Nodes \cup Sockets
    /\ {MaxConnections, MaxTasks, MaxMessages} \subseteq Nat \ {0}
    /\ MaxRestarts \in Nat

Sweepers == Calls \cup {Loop}             \* who calls mark_stale_offline
Leavers == Sockets \cup Sweepers \cup Admins   \* who calls disconnect

VARIABLES
    \* node rows
    status, enabled,
    fresh,      \* is last_seen_at within worker_heartbeat_timeout_seconds?
    \* NodeService
    conn,       \* _connections: the session of each node
    others,     \* how many entries it has for nodes not in Nodes
    queue,      \* outgoing messages of each session
    pending,    \* calls that wait in each session
    disabling,  \* node a set_enabled(False) still has to disconnect
    leaving,    \* node a disconnect still has to take offline
    \* sockets
    spc,        \* "unused" | "hello" | "enrolled" | "serving" | "closing" | "closed"
    node,       \* node id of the hello
    alive,      \* does the worker still hold its end?
    inbox,      \* requests on their way to the worker, or with it
    outbox,     \* results on their way back
    \* the liveness loop and API calls
    cpc,        \* "idle" | "listed" | "dropping" | "found" | "waiting" | "done"
    stale,      \* nodes mark_stale_offline has found and not dealt with
    dirty,      \* those of them whose row it will rewrite
    want,       \* node of a probe
    session,    \* session a probe was dispatched to
    future,     \* "none" | "open" | "result" | "disconnected"
    restarts    \* how often the Core was restarted

rows == <<status, enabled, fresh>>
service == <<conn, others, queue, pending, disabling, leaving>>
sockets == <<spc, node, alive, inbox, outbox>>
sweeps == <<stale, dirty>>
probes == <<want, session, future>>
calls == <<cpc, sweeps, probes>>
vars == <<rows, service, sockets, calls, restarts>>

Messages == [kind : {"request", "cancel"}, task : Calls]

TypeOK ==
    /\ status \in [Nodes -> {"none", "registered", "online", "offline", "disabled"}]
    /\ enabled \in [Nodes -> BOOLEAN] /\ fresh \in [Nodes -> BOOLEAN]
    /\ conn \in [Nodes -> Sockets \cup {None}] /\ others \in 0 .. MaxConnections
    /\ queue \in [Sockets -> Seq(Messages)] /\ \A s \in Sockets : Len(queue[s]) <= MaxMessages
    /\ pending \in [Sockets -> SUBSET Calls]
    /\ disabling \in [Admins -> Nodes \cup {None}] /\ leaving \in [Leavers -> Nodes \cup {None}]
    /\ spc \in [Sockets -> {"unused", "hello", "enrolled", "serving", "closing", "closed"}]
    /\ node \in [Sockets -> Nodes \cup {None}]
    /\ alive \in [Sockets -> BOOLEAN]
    /\ inbox \in [Sockets -> SUBSET Calls] /\ outbox \in [Sockets -> SUBSET Calls]
    /\ cpc \in [Sweepers -> {"idle", "listed", "dropping", "found", "waiting", "done"}]
    /\ stale \in [Sweepers -> SUBSET Nodes] /\ dirty \in [Sweepers -> SUBSET Nodes]
    /\ want \in [Calls -> Nodes \cup {None}] /\ session \in [Calls -> Sockets \cup {None}]
    /\ future \in [Calls -> {"none", "open", "result", "disconnected"}]
    /\ restarts \in 0 .. MaxRestarts

Init ==
    /\ status = [n \in Nodes |-> "none"]
    /\ enabled = [n \in Nodes |-> TRUE] /\ fresh = [n \in Nodes |-> FALSE]
    /\ conn = [n \in Nodes |-> None] /\ others \in 0 .. MaxConnections
    /\ queue = [s \in Sockets |-> <<>>] /\ pending = [s \in Sockets |-> {}]
    /\ disabling = [a \in Admins |-> None] /\ leaving = [d \in Leavers |-> None]
    /\ spc = [s \in Sockets |-> "unused"] /\ node = [s \in Sockets |-> None]
    /\ alive = [s \in Sockets |-> FALSE]
    /\ inbox = [s \in Sockets |-> {}] /\ outbox = [s \in Sockets |-> {}]
    /\ cpc = [c \in Sweepers |-> "idle"]
    /\ stale = [c \in Sweepers |-> {}] /\ dirty = [c \in Sweepers |-> {}]
    /\ want = [c \in Calls |-> None] /\ session = [c \in Calls |-> None]
    /\ future = [c \in Calls |-> "none"] /\ restarts = 0

-----------------------------------------------------------------------------
(* Sessions.                                                               *)

\* _fail_pending of the session of node n, if it has one.
FailPending(n) ==
    LET lost == IF conn[n] = None THEN {} ELSE pending[conn[n]] IN
    /\ future' = [c \in Calls |-> IF c \in lost /\ future[c] = "open" THEN "disconnected" ELSE future[c]]
    /\ pending' = [s \in Sockets |-> IF s = conn[n] THEN {} ELSE pending[s]]

\* Mutant: the session is dropped and its probes are forgotten.
PopSessionOnly(n) ==
    /\ conn' = [conn EXCEPT ![n] = None]
    /\ UNCHANGED <<future, pending>>

\* The first half of disconnect: whatever session the node has goes.
PopSession(n) ==
    /\ conn' = [conn EXCEPT ![n] = None]
    /\ FailPending(n)

\* The second half of disconnect, _set_status_if_enabled.
TakeOffline(d) ==
    /\ leaving[d] # None
    /\ LET n == leaving[d] IN
       status' = [status EXCEPT ![n] = IF enabled[n] THEN "offline" ELSE @]
    /\ leaving' = [leaving EXCEPT ![d] = None]
    /\ UNCHANGED <<others, enabled, fresh, conn, queue, pending, disabling, sockets, calls, restarts>>

-----------------------------------------------------------------------------
(* _serve_worker_socket, and the worker.                                   *)

\* WorkerClient holds one connection at a time and opens another when it has
\* lost the one before, whether or not the Core has noticed.  Unused sockets
\* are alike: the next one is taken.
Open(s, n) ==
    /\ spc[s] = "unused" /\ s = CHOOSE t \in Sockets : spc[t] = "unused"
    /\ \A t \in Sockets : node[t] = n => ~alive[t]
    /\ spc' = [spc EXCEPT ![s] = "hello"]
    /\ node' = [node EXCEPT ![s] = n]
    /\ alive' = [alive EXCEPT ![s] = TRUE]
    /\ UNCHANGED <<rows, service, inbox, outbox, calls, restarts>>

\* A hello without a valid proof, or of a disabled node, is refused: the
\* socket is closed before there is anything to disconnect.
Enroll(s) ==
    /\ spc[s] = "hello"
    /\ LET n == node[s] IN
       \/ /\ enabled[n]
          /\ status' = [status EXCEPT ![n] = "online"]
          /\ fresh' = [fresh EXCEPT ![n] = TRUE]
          /\ spc' = [spc EXCEPT ![s] = "enrolled"]
          /\ UNCHANGED <<alive, node>>
       \/ /\ spc' = [spc EXCEPT ![s] = "closed"]
          /\ alive' = [alive EXCEPT ![s] = FALSE] /\ node' = [node EXCEPT ![s] = None]
          /\ UNCHANGED <<status, fresh>>
    /\ UNCHANGED <<enabled, service, inbox, outbox, calls, restarts>>

\* The handler reads and sends no more; what was on its way is lost.
HangUp(s) ==
    /\ spc' = [spc EXCEPT ![s] = "closing"]
    /\ alive' = [alive EXCEPT ![s] = FALSE]
    /\ inbox' = [inbox EXCEPT ![s] = {}] /\ outbox' = [outbox EXCEPT ![s] = {}]

Sessions == others + Cardinality({n \in Nodes : conn[n] # None})

LimitReached(n) == conn[n] = None /\ Sessions >= MaxConnections

Connect(s) ==
    /\ spc[s] = "enrolled"
    /\ LET n == node[s] IN
       \/ /\ LimitReached(n)
          /\ HangUp(s)
          /\ UNCHANGED <<conn, pending, future>>
       \/ /\ ~LimitReached(n)
          /\ conn' = [conn EXCEPT ![n] = s]
          /\ FailPending(n)
          /\ spc' = [spc EXCEPT ![s] = "serving"]
          /\ UNCHANGED <<alive, inbox, outbox>>
    /\ UNCHANGED <<others, rows, queue, disabling, leaving, node, cpc, sweeps, want, session, restarts>>

\* Mutant: the heartbeat of a disabled node is ignored.
HeartbeatIgnored(s) ==
    /\ spc[s] = "serving" /\ enabled[node[s]]
    /\ status' = [status EXCEPT ![node[s]] = "online"]
    /\ fresh' = [fresh EXCEPT ![node[s]] = TRUE]
    /\ UNCHANGED <<enabled, service, sockets, calls, restarts>>

\* A heartbeat, or new capabilities; a disabled node is sent away.  A frame
\* may still be buffered when its worker is gone.
Heartbeat(s) ==
    /\ spc[s] = "serving"
    /\ LET n == node[s] IN
       \/ /\ enabled[n]
          /\ status' = [status EXCEPT ![n] = "online"]
          /\ fresh' = [fresh EXCEPT ![n] = TRUE]
          /\ UNCHANGED <<spc, alive, inbox, outbox>>
       \/ /\ ~enabled[n]
          /\ HangUp(s)
          /\ UNCHANGED <<status, fresh>>
    /\ UNCHANGED <<enabled, service, node, calls, restarts>>

\* The handler forwards requests and drops cancellations.
Send(s) ==
    /\ spc[s] = "serving" /\ queue[s] # <<>>
    /\ queue' = [queue EXCEPT ![s] = Tail(@)]
    /\ inbox' = [inbox EXCEPT ![s] =
                    IF Head(queue[s]).kind = "request" /\ alive[s] THEN @ \cup {Head(queue[s]).task} ELSE @]
    /\ UNCHANGED <<others, rows, conn, pending, disabling, leaving, spc, node, alive, outbox, calls, restarts>>

WorkerAnswers(s, c) ==
    /\ alive[s] /\ c \in inbox[s]
    /\ inbox' = [inbox EXCEPT ![s] = @ \ {c}]
    /\ outbox' = [outbox EXCEPT ![s] = @ \cup {c}]
    /\ UNCHANGED <<rows, service, spc, node, alive, calls, restarts>>

\* The result is looked up in the present session of the node.
ReceiveResult(s, c) ==
    /\ spc[s] = "serving" /\ c \in outbox[s]
    /\ outbox' = [outbox EXCEPT ![s] = @ \ {c}]
    /\ LET t == conn[node[s]] IN
       IF t # None /\ c \in pending[t]
         THEN /\ pending' = [pending EXCEPT ![t] = @ \ {c}]
              /\ future' = [future EXCEPT ![c] = IF @ = "open" THEN "result" ELSE @]
         ELSE UNCHANGED <<pending, future>>
    /\ UNCHANGED <<others, rows, conn, queue, disabling, leaving, spc, node, alive, inbox, cpc, sweeps, want, session, restarts>>

\* The network breaks or the worker stops.
WorkerLost(s) ==
    /\ alive[s]
    /\ alive' = [alive EXCEPT ![s] = FALSE]
    /\ inbox' = [inbox EXCEPT ![s] = {}]
    /\ UNCHANGED <<rows, service, spc, node, outbox, calls, restarts>>

\* The Core notices.  What the worker sent before may still be unread.
LossNoticed(s) ==
    /\ spc[s] = "serving" /\ ~alive[s]
    /\ HangUp(s)
    /\ UNCHANGED <<rows, service, node, calls, restarts>>

\* Mutant: the handler returns without its finally clause.
CloseWithoutCleanup(s) ==
    /\ spc[s] = "closing"
    /\ spc' = [spc EXCEPT ![s] = "closed"]
    /\ leaving' = [leaving EXCEPT ![s] = node[s]]
    /\ UNCHANGED <<others, rows, conn, queue, pending, disabling, node, alive, inbox, outbox, calls, restarts>>

\* The finally clause: disconnect by node id.  The handler's locals are gone.
Close(s) ==
    /\ spc[s] = "closing"
    /\ spc' = [spc EXCEPT ![s] = "closed"]
    /\ PopSession(node[s])
    /\ leaving' = [leaving EXCEPT ![s] = node[s]]
    /\ node' = [node EXCEPT ![s] = None] /\ queue' = [queue EXCEPT ![s] = <<>>]
    /\ UNCHANGED <<others, rows, disabling, alive, inbox, outbox, cpc, sweeps, want, session, restarts>>

-----------------------------------------------------------------------------
(* mark_stale_offline: the liveness loop, and the beginning of list, get   *)
(* and probe.                                                              *)

\* Mutant: only nodes with a session are looked at.
ExpiredConnected(n) == status[n] # "none" /\ enabled[n] /\ ~fresh[n] /\ conn[n] # None

Expired(n) == status[n] # "none" /\ enabled[n] /\ ~fresh[n]

\* A sweep that finds nothing commits nothing; the loop then sleeps again.
\* Setting an attribute to the value it has writes nothing either.
SweepRead(c) ==
    /\ cpc[c] = "idle"
    /\ \/ (\E m \in Nodes : Expired(m)) /\ cpc' = [cpc EXCEPT ![c] = "listed"]
       \/ c # Loop /\ (\A m \in Nodes : ~Expired(m)) /\ cpc' = [cpc EXCEPT ![c] = "dropping"]
    /\ stale' = [stale EXCEPT ![c] = {m \in Nodes : Expired(m)}]
    /\ dirty' = [dirty EXCEPT ![c] = {m \in Nodes : Expired(m) /\ status[m] # "offline"}]
    /\ UNCHANGED <<rows, service, sockets, probes, restarts>>

SweepWrite(c) ==
    /\ cpc[c] = "listed"
    /\ status' = [m \in Nodes |-> IF m \in dirty[c] THEN "offline" ELSE status[m]]
    /\ cpc' = [cpc EXCEPT ![c] = "dropping"]
    /\ dirty' = [dirty EXCEPT ![c] = {}]
    /\ UNCHANGED <<enabled, fresh, service, sockets, stale, probes, restarts>>

SweepDrop(c, m) ==
    /\ cpc[c] = "dropping" /\ leaving[c] = None /\ m \in stale[c]
    /\ PopSession(m)
    /\ leaving' = [leaving EXCEPT ![c] = m]
    /\ stale' = [stale EXCEPT ![c] = @ \ {m}]
    /\ UNCHANGED <<others, rows, queue, disabling, sockets, cpc, dirty, want, session, restarts>>

Swept(c) == cpc[c] = "dropping" /\ leaving[c] = None /\ stale[c] = {}

LoopSleeps ==
    /\ Swept(Loop)
    /\ cpc' = [cpc EXCEPT ![Loop] = "idle"]
    /\ UNCHANGED <<rows, service, sockets, sweeps, probes, restarts>>

-----------------------------------------------------------------------------
(* probe; list and get end where it goes on.                               *)

ReadNode(c, n) ==
    /\ Swept(c)
    /\ \/ /\ enabled[n] /\ status[n] = "online"
          /\ want' = [want EXCEPT ![c] = n]
          /\ cpc' = [cpc EXCEPT ![c] = "found"]
       \/ cpc' = [cpc EXCEPT ![c] = "done"] /\ UNCHANGED want
    /\ UNCHANGED <<rows, service, sockets, sweeps, session, future, restarts>>

HasRoom(s) == Cardinality(pending[s]) < MaxTasks /\ Len(queue[s]) < MaxMessages

\* A call that is over keeps nothing.
EndProbe(c) ==
    /\ cpc' = [cpc EXCEPT ![c] = "done"]
    /\ want' = [want EXCEPT ![c] = None] /\ session' = [session EXCEPT ![c] = None]
    /\ future' = [future EXCEPT ![c] = "none"]

Dispatch(c) ==
    /\ cpc[c] = "found"
    /\ LET s == conn[want[c]] IN
       IF s # None /\ HasRoom(s)
         THEN /\ pending' = [pending EXCEPT ![s] = @ \cup {c}]
              /\ queue' = [queue EXCEPT ![s] = Append(@, [kind |-> "request", task |-> c])]
              /\ session' = [session EXCEPT ![c] = s]
              /\ future' = [future EXCEPT ![c] = "open"]
              /\ cpc' = [cpc EXCEPT ![c] = "waiting"]
              /\ want' = [want EXCEPT ![c] = None]
         ELSE EndProbe(c) /\ UNCHANGED <<pending, queue>>
    /\ UNCHANGED <<others, rows, conn, disabling, leaving, sockets, sweeps, restarts>>

ProbeReturns(c) ==
    /\ cpc[c] = "waiting" /\ future[c] # "open"
    /\ EndProbe(c)
    /\ UNCHANGED <<rows, service, sockets, sweeps, restarts>>

\* The timer may also win against an answer the call has not seen.  The queue
\* of a handler that has returned is nobody's.
ProbeTimesOut(c) ==
    /\ cpc[c] = "waiting"
    /\ LET s == session[c] IN
       /\ pending' = [pending EXCEPT ![s] = @ \ {c}]
       /\ queue' = [queue EXCEPT ![s] =
                       IF Len(@) < MaxMessages /\ spc[s] # "closed"
                         THEN Append(@, [kind |-> "cancel", task |-> c]) ELSE @]
    /\ EndProbe(c)
    /\ UNCHANGED <<others, rows, conn, disabling, leaving, sockets, sweeps, restarts>>

-----------------------------------------------------------------------------
(* set_enabled, time and restarts of the Core.                             *)

MayManage(a, n) == disabling[a] = None /\ leaving[a] = None

\* set_enabled(n, False) commits; its disconnect comes next.
Disable(a, n) ==
    /\ MayManage(a, n) /\ status[n] # "none"
    /\ enabled' = [enabled EXCEPT ![n] = FALSE]
    /\ status' = [status EXCEPT ![n] = "disabled"]
    /\ disabling' = [disabling EXCEPT ![a] = n]
    /\ UNCHANGED <<others, fresh, conn, queue, pending, leaving, sockets, calls, restarts>>

DropDisabled(a) ==
    /\ disabling[a] # None
    /\ PopSession(disabling[a])
    /\ leaving' = [leaving EXCEPT ![a] = disabling[a]]
    /\ disabling' = [disabling EXCEPT ![a] = None]
    /\ UNCHANGED <<others, rows, queue, sockets, cpc, sweeps, want, session, restarts>>

Enable(a, n) ==
    /\ MayManage(a, n) /\ status[n] # "none"
    /\ enabled' = [enabled EXCEPT ![n] = TRUE]
    /\ status' = [status EXCEPT ![n] = "registered"]
    /\ UNCHANGED <<fresh, service, sockets, calls, restarts>>

\* worker_heartbeat_timeout_seconds pass.
Age(n) ==
    /\ fresh[n]
    /\ fresh' = [fresh EXCEPT ![n] = FALSE]
    /\ UNCHANGED <<status, enabled, service, sockets, calls, restarts>>

\* The Core ends and starts again: the rows are what remains.
RestartCore ==
    /\ restarts < MaxRestarts /\ restarts' = restarts + 1
    /\ conn' = [n \in Nodes |-> None] /\ UNCHANGED others
    /\ queue' = [s \in Sockets |-> <<>>] /\ pending' = [s \in Sockets |-> {}]
    /\ disabling' = [a \in Admins |-> None] /\ leaving' = [d \in Leavers |-> None]
    /\ spc' = [s \in Sockets |-> IF spc[s] = "unused" THEN "unused" ELSE "closed"]
    /\ alive' = [s \in Sockets |-> FALSE] /\ node' = [s \in Sockets |-> None]
    /\ inbox' = [s \in Sockets |-> {}] /\ outbox' = [s \in Sockets |-> {}]
    /\ cpc' = [c \in Sweepers |-> IF c = Loop \/ cpc[c] = "idle" THEN "idle" ELSE "done"]
    /\ stale' = [c \in Sweepers |-> {}] /\ dirty' = [c \in Sweepers |-> {}]
    /\ want' = [c \in Calls |-> None] /\ session' = [c \in Calls |-> None]
    /\ future' = [c \in Calls |-> "none"]
    /\ UNCHANGED rows

-----------------------------------------------------------------------------
Core ==
    \/ \E d \in Leavers : TakeOffline(d)
    \/ \E s \in Sockets : Enroll(s) \/ Connect(s) \/ Send(s) \/ Close(s)
    \/ \E s \in Sockets, c \in Calls : ReceiveResult(s, c)
    \/ \E c \in Sweepers : SweepRead(c) \/ SweepWrite(c) \/ \E m \in Nodes : SweepDrop(c, m)
    \/ LoopSleeps
    \/ \E c \in Calls : (\E n \in Nodes : ReadNode(c, n)) \/ Dispatch(c) \/ ProbeReturns(c) \/ ProbeTimesOut(c)
    \/ \E a \in Admins : DropDisabled(a) \/ \E n \in Nodes : Disable(a, n) \/ Enable(a, n)
    \/ RestartCore

Workers ==
    \/ \E s \in Sockets, n \in Nodes : Open(s, n)
    \/ \E s \in Sockets : Heartbeat(s) \/ WorkerLost(s) \/ LossNoticed(s)
    \/ \E s \in Sockets, c \in Calls : WorkerAnswers(s, c)
    \/ \E n \in Nodes : Age(n)

Next == Core \/ Workers

Spec == Init /\ [][Next]_vars

\* What a handler, a call or the loop does by itself, one step after the other.
\* A worker that is connected sends heartbeats, and keepalive tells the Core when
\* one is gone; no worker need answer or reconnect, and no client need call.
SocketStep(s) == (alive[s] /\ Heartbeat(s)) \/ LossNoticed(s) \/ Close(s) \/ TakeOffline(s)

SweepStep(c) == SweepWrite(c) \/ (\E m \in Nodes : SweepDrop(c, m)) \/ TakeOffline(c)

CallStep(c) ==
    \/ SweepStep(c) \/ \E n \in Nodes : ReadNode(c, n)
    \/ Dispatch(c) \/ ProbeReturns(c) \/ ProbeTimesOut(c)

\* The event loop runs every task that can run, and timers fire.
Fairness ==
    /\ \A s \in Sockets : WF_vars(SocketStep(s))
    /\ WF_vars(SweepRead(Loop) \/ SweepStep(Loop) \/ LoopSleeps)
    /\ \A c \in Calls : WF_vars(CallStep(c))
    /\ \A a \in Admins : WF_vars(DropDisabled(a) \/ TakeOffline(a))

FairSpec == Spec /\ Fairness

-----------------------------------------------------------------------------
(* Properties.                                                             *)

\* The calls whose futures are held in a session are exactly the probes that
\* wait there for an answer, and only the present session of a node holds any:
\* replacing, disconnecting, sweeping and disabling lose no caller, and no
\* answer or timeout leaves an entry that would count against worker_max_tasks.
PendingIsExact ==
    \A s \in Sockets :
        /\ pending[s] = {c \in Calls : cpc[c] = "waiting" /\ session[c] = s /\ future[c] = "open"}
        /\ pending[s] # {} => node[s] # None /\ conn[node[s]] = s

\* A session belongs to a socket whose handler is still there to end it; a
\* handler that returned has left no session behind that would fill the limit.
NoGhostSession ==
    \A n \in Nodes : conn[n] # None => node[conn[n]] = n /\ spc[conn[n]] \in {"serving", "closing"}

\* What shows of a handler and of a probe.
Phase(point) == CASE point \in {"unused", "hello", "enrolled"} -> "new"
                  [] point \in {"serving", "closing"} -> "serving"
                  [] point = "closed" -> "returned"

Handlers == [s \in Sockets |-> Phase(spc[s])]
Answers == [c \in Calls |-> IF cpc[c] = "done" THEN "over" ELSE future[c]]

Contract == INSTANCE SessionContract WITH
    present <- conn, handler <- Handlers, asked <- session, answer <- Answers

\* However sockets come and go, nodes are replaced, swept and disabled, and the Core
\* restarts, sessions and the probes in them change only as SessionContract says: no
\* session outlives its handler, and no caller is left waiting in one that is gone.
ImplementsSessionContract == Contract!CSpec

\* A probe is answered only with what came back through the socket it was sent
\* through, although finish looks the task up in whatever session the node of the
\* answering socket has by then.
AnswersAreOwn ==
    [][\A c \in Calls : future[c] = "open" /\ future'[c] = "result" => c \in outbox[session[c]]]_vars

\* A disabled node loses its session, even one it opened while it was being
\* disabled, unless it is enabled again.
DisabledLosesSession == \A n \in Nodes : ~enabled[n] ~> enabled[n] \/ conn[n] = None

\* A node whose worker has fallen silent does not stay online: the liveness loop
\* takes it offline, unless a heartbeat arrives or an administrator steps in.
SilentGoesOffline == \A n \in Nodes : status[n] = "online" /\ ~fresh[n] ~> fresh[n] \/ status[n] # "online"

\* Does not hold, and no run checks it.  A node that is shown online because its
\* worker is connected has a session, so that it can be probed; one that is disabled
\* and enabled between two heartbeats has none (heartbeat creates no session).
OnlineIsConnected ==
    \A s \in Sockets :
        /\ spc[s] = "serving" /\ alive[s]
        /\ enabled[node[s]] /\ status[node[s]] = "online"
        /\ \A d \in Leavers : leaving[d] # node[s]
        /\ \A a \in Admins : disabling[a] # node[s]
        => conn[node[s]] # None
-----------------------------------------------------------------------------
(* The inductive invariant: what WorkerSessionsProofs proves the            *)
(* properties from.                                                         *)

\* A handler has the node id of its hello for as long as it runs.
HandlersKnowTheirNode ==
    \A s \in Sockets : node[s] # None <=> spc[s] \in {"hello", "enrolled", "serving", "closing"}

\* A probe that has found its node, or waits in a session, remembers which.
ProbesKnowTheirSession ==
    \A c \in Calls :
        /\ cpc[c] = "found" => want[c] # None
        /\ cpc[c] = "waiting" => session[c] # None

\* worker_max_connections and worker_max_tasks hold without a margin: the test
\* and the entry it admits are one step.
LimitsHold ==
    /\ Sessions <= MaxConnections
    /\ \A s \in Sockets : Cardinality(pending[s]) <= MaxTasks

SessionsInv ==
    /\ HandlersKnowTheirNode /\ ProbesKnowTheirSession
    /\ NoGhostSession /\ PendingIsExact

IInv == TypeOK /\ SessionsInv /\ LimitsHold

\* On top of IInv: a call has a session and a future exactly while its probe waits,
\* and a request, and the answer to it, are of the call that waits in that very
\* session, unless the call is over.
Underway(s, c) ==
    \/ c \in inbox[s] \cup outbox[s]
    \/ \E i \in DOMAIN queue[s] : queue[s][i] = [kind |-> "request", task |-> c]

ProbesHaveFutures ==
    \A c \in Calls : /\ cpc[c] = "waiting" <=> future[c] # "none"
                     /\ cpc[c] = "waiting" <=> session[c] # None

MessagesKnowTheirCall ==
    \A s \in Sockets, c \in Calls :
        Underway(s, c) => cpc[c] = "done" \/ (cpc[c] = "waiting" /\ session[c] = s)

AnswersInv == ProbesHaveFutures /\ MessagesKnowTheirCall
=============================================================================
