------------------------- MODULE WorkerSessionsProofs -------------------------
(***************************************************************************)
(* IInv is an inductive invariant of WorkerSessions, for any nodes,        *)
(* sockets, calls and administrators and any limits.  Of the actions, few  *)
(* touch what SessionsInv is about: the steps that drop a session, those   *)
(* of a probe, and the beginning and end of a handler.                     *)
(***************************************************************************)
EXTENDS WorkerSessions, FiniteSetTheorems, SequenceTheorems, TLAPS

USE DEF rows, service, sockets, sweeps, probes, calls

-----------------------------------------------------------------------------
(* Types.                                                                  *)

\* The constants that bound the counters are numbers.
LEMMA Numbers ==
    /\ MaxConnections \in Nat /\ MaxTasks \in Nat /\ MaxMessages \in Nat /\ MaxRestarts \in Nat
    /\ MaxConnections >= 1 /\ MaxTasks >= 1 /\ MaxMessages >= 1
<1>1. MaxConnections \in Nat \ {0} /\ MaxTasks \in Nat \ {0} /\ MaxMessages \in Nat \ {0}
  BY WorkerAssumption
<1> QED BY <1>1, WorkerAssumption

\* Dropping the session of a node.
LEMMA PopSessionTypes ==
    ASSUME TypeOK, NEW n, FailPending(n)
    PROVE  /\ future' \in [Calls -> {"none", "open", "result", "disconnected"}]
           /\ pending' \in [Sockets -> SUBSET Calls]
<1>1. \A c \in Calls : future[c] \in {"none", "open", "result", "disconnected"}
  BY DEF TypeOK
<1>2. \A s \in Sockets : pending[s] \in SUBSET Calls
  BY DEF TypeOK
<1>3. future' \in [Calls -> {"none", "open", "result", "disconnected"}]
  BY <1>1 DEF FailPending
<1>4. pending' \in [Sockets -> SUBSET Calls]
  BY <1>2 DEF FailPending
<1> QED BY <1>3, <1>4

\* A message more in a queue that has room.
LEMMA QueueTypes ==
    ASSUME TypeOK, NEW s \in Sockets, NEW m \in Messages, Len(queue[s]) < MaxMessages
    PROVE  LET q == [queue EXCEPT ![s] = Append(queue[s], m)] IN
           q \in [Sockets -> Seq(Messages)] /\ \A t \in Sockets : Len(q[t]) <= MaxMessages
<1> PICK q : q = [queue EXCEPT ![s] = Append(queue[s], m)]
  OBVIOUS
<1>1. queue \in [Sockets -> Seq(Messages)] /\ queue[s] \in Seq(Messages)
      /\ \A t \in Sockets : Len(queue[t]) <= MaxMessages
  BY DEF TypeOK
<1>2. Append(queue[s], m) \in Seq(Messages) /\ Len(Append(queue[s], m)) = Len(queue[s]) + 1
      /\ Len(queue[s]) \in Nat
  BY <1>1, AppendProperties
<1>3. q[s] = Append(queue[s], m) /\ \A t \in Sockets : t # s => q[t] = queue[t]
  BY <1>1
<1>4. q \in [Sockets -> Seq(Messages)]
  BY <1>1, <1>2
<1>5. Len(q[s]) <= MaxMessages
  BY <1>2, <1>3, Numbers
<1> QED BY <1>1, <1>3, <1>4, <1>5

\* Every step of a handler or of a worker preserves the types.
LEMMA SocketTypes ==
    ASSUME TypeOK, NEW s \in Sockets,
           \/ Enroll(s) \/ Connect(s) \/ Send(s) \/ Close(s) \/ Heartbeat(s) \/ WorkerLost(s) \/ LossNoticed(s)
           \/ \E n \in Nodes : Open(s, n)
           \/ \E c \in Calls : ReceiveResult(s, c) \/ WorkerAnswers(s, c)
    PROVE  TypeOK'
<1>1. CASE Enroll(s)
  BY <1>1 DEF Enroll, TypeOK
<1>2. CASE Connect(s)
  <2>1. CASE HangUp(s) /\ UNCHANGED <<conn, pending, future>>
    BY <1>2, <2>1 DEF Connect, HangUp, TypeOK
  <2>2. CASE FailPending(node[s]) /\ conn' = [conn EXCEPT ![node[s]] = s]
             /\ spc' = [spc EXCEPT ![s] = "serving"] /\ UNCHANGED <<alive, inbox, outbox>>
    <3>1. /\ future' \in [Calls -> {"none", "open", "result", "disconnected"}]
          /\ pending' \in [Sockets -> SUBSET Calls]
      BY <2>2, PopSessionTypes
    <3> QED BY <1>2, <2>2, <3>1 DEF Connect, TypeOK
  <2> QED BY <1>2, <2>1, <2>2 DEF Connect
<1>3. CASE Send(s)
  <2>1. queue[s] # <<>> /\ queue[s] \in Seq(Messages) /\ queue \in [Sockets -> Seq(Messages)]
        /\ \A t \in Sockets : Len(queue[t]) <= MaxMessages
    BY <1>3 DEF Send, TypeOK
  <2>2. /\ Tail(queue[s]) \in Seq(Messages) /\ Len(Tail(queue[s])) = Len(queue[s]) - 1
        /\ Head(queue[s]) \in Messages /\ Len(queue[s]) \in Nat
    BY <2>1, HeadTailProperties
  <2>3. queue' = [queue EXCEPT ![s] = Tail(queue[s])]
    BY <1>3 DEF Send
  <2>4. queue' \in [Sockets -> Seq(Messages)]
    BY <2>1, <2>2, <2>3
  <2>5. \A t \in Sockets : Len(queue'[t]) <= MaxMessages
    <3>1. Len(Tail(queue[s])) <= MaxMessages
      BY <2>1, <2>2, Numbers
    <3> QED BY <2>1, <2>3, <3>1
  <2>6. Head(queue[s]).task \in Calls
    BY <2>2 DEF Messages
  <2>7. inbox' \in [Sockets -> SUBSET Calls]
    <3>1. inbox \in [Sockets -> SUBSET Calls]
      BY DEF TypeOK
    <3>2. inbox' \in {[inbox EXCEPT ![s] = inbox[s] \cup {Head(queue[s]).task}], inbox}
      BY <1>3, <3>1 DEF Send
    <3> QED BY <2>6, <3>1, <3>2
  <2> QED BY <1>3, <2>4, <2>5, <2>7 DEF Send, TypeOK
<1>4. CASE Close(s)
  <2>1. FailPending(node[s]) /\ conn' = [conn EXCEPT ![node[s]] = None]
    BY <1>4 DEF Close, PopSession
  <2>2. /\ future' \in [Calls -> {"none", "open", "result", "disconnected"}]
        /\ pending' \in [Sockets -> SUBSET Calls]
    BY <2>1, PopSessionTypes
  <2>3. conn' \in [Nodes -> Sockets \cup {None}]
    BY <2>1 DEF TypeOK
  <2>4. queue' \in [Sockets -> Seq(Messages)] /\ \A t \in Sockets : Len(queue'[t]) <= MaxMessages
    <3>1. <<>> \in Seq(Messages) /\ Len(<<>>) <= MaxMessages
      BY Numbers
    <3>2. queue' = [queue EXCEPT ![s] = <<>>]
      BY <1>4 DEF Close
    <3> QED BY <3>1, <3>2 DEF TypeOK
  <2>5. /\ leaving' \in [Leavers -> Nodes \cup {None}] /\ node' \in [Sockets -> Nodes \cup {None}]
        /\ spc' \in [Sockets -> {"unused", "hello", "enrolled", "serving", "closing", "closed"}]
    BY <1>4 DEF Close, TypeOK
  <2> QED BY <1>4, <2>2, <2>3, <2>4, <2>5 DEF Close, TypeOK
<1>5. CASE Heartbeat(s)
  <2>1. CASE HangUp(s) /\ UNCHANGED <<status, fresh>>
    BY <1>5, <2>1 DEF Heartbeat, HangUp, TypeOK
  <2>2. CASE /\ status' = [status EXCEPT ![node[s]] = "online"]
             /\ fresh' = [fresh EXCEPT ![node[s]] = TRUE]
             /\ UNCHANGED <<spc, alive, inbox, outbox>>
    BY <1>5, <2>2 DEF Heartbeat, TypeOK
  <2> QED BY <1>5, <2>1, <2>2 DEF Heartbeat
<1>6. CASE WorkerLost(s)
  BY <1>6 DEF WorkerLost, TypeOK
<1>7. CASE LossNoticed(s)
  BY <1>7 DEF LossNoticed, HangUp, TypeOK
<1>8. ASSUME NEW n \in Nodes, Open(s, n)
      PROVE  TypeOK'
  BY <1>8 DEF Open, TypeOK
<1>9. ASSUME NEW c \in Calls, ReceiveResult(s, c)
      PROVE  TypeOK'
  <2>1. pending' \in [Sockets -> SUBSET Calls] /\ future' \in [Calls -> {"none", "open", "result", "disconnected"}]
    <3>1. /\ pending \in [Sockets -> SUBSET Calls]
          /\ future \in [Calls -> {"none", "open", "result", "disconnected"}]
      BY DEF TypeOK
    <3>2. \/ UNCHANGED <<pending, future>>
          \/ /\ pending' = [pending EXCEPT ![conn[node[s]]] = @ \ {c}]
             /\ future' = [future EXCEPT ![c] = IF @ = "open" THEN "result" ELSE @]
      BY <1>9 DEF ReceiveResult
    <3>3. pending' \in [Sockets -> SUBSET Calls]
      BY <3>1, <3>2
    <3>4. future' \in [Calls -> {"none", "open", "result", "disconnected"}]
      BY <3>1, <3>2
    <3> QED BY <3>3, <3>4
  <2>2. outbox' \in [Sockets -> SUBSET Calls]
    BY <1>9 DEF ReceiveResult, TypeOK
  <2> QED BY <1>9, <2>1, <2>2 DEF ReceiveResult, TypeOK
<1>10. ASSUME NEW c \in Calls, WorkerAnswers(s, c)
       PROVE  TypeOK'
  BY <1>10 DEF WorkerAnswers, TypeOK
<1> QED BY <1>1, <1>2, <1>3, <1>4, <1>5, <1>6, <1>7, <1>8, <1>9, <1>10

\* Every step of a sweep, a call or an administrator, time and restarts.
LEMMA ServiceTypes ==
    ASSUME TypeOK, ProbesKnowTheirSession,
           \/ \E d \in Leavers : TakeOffline(d)
           \/ \E c \in Sweepers : SweepRead(c) \/ SweepWrite(c) \/ \E m \in Nodes : SweepDrop(c, m)
           \/ LoopSleeps
           \/ \E c \in Calls : (\E n \in Nodes : ReadNode(c, n)) \/ Dispatch(c) \/ ProbeReturns(c) \/ ProbeTimesOut(c)
           \/ \E a \in Admins : DropDisabled(a) \/ \E n \in Nodes : Disable(a, n) \/ Enable(a, n)
           \/ RestartCore
           \/ \E n \in Nodes : Age(n)
    PROVE  TypeOK'
<1>1. ASSUME NEW d \in Leavers, TakeOffline(d) PROVE TypeOK'
  BY <1>1 DEF TakeOffline, TypeOK
<1>2. ASSUME NEW c \in Sweepers, SweepRead(c) PROVE TypeOK'
  BY <1>2 DEF SweepRead, TypeOK
<1>3. ASSUME NEW c \in Sweepers, SweepWrite(c) PROVE TypeOK'
  BY <1>3 DEF SweepWrite, TypeOK
<1>4. ASSUME NEW c \in Sweepers, NEW m \in Nodes, SweepDrop(c, m) PROVE TypeOK'
  <2>1. FailPending(m) /\ conn' = [conn EXCEPT ![m] = None]
    BY <1>4 DEF SweepDrop, PopSession
  <2>2. /\ future' \in [Calls -> {"none", "open", "result", "disconnected"}]
        /\ pending' \in [Sockets -> SUBSET Calls]
    BY <2>1, PopSessionTypes
  <2>3. /\ conn' \in [Nodes -> Sockets \cup {None}] /\ leaving' \in [Leavers -> Nodes \cup {None}]
        /\ stale' \in [Sweepers -> SUBSET Nodes]
    BY <1>4, <2>1 DEF SweepDrop, TypeOK
  <2> QED BY <1>4, <2>2, <2>3 DEF SweepDrop, TypeOK
<1>5. CASE LoopSleeps
  BY <1>5 DEF LoopSleeps, TypeOK
<1>6. ASSUME NEW c \in Calls, NEW n \in Nodes, ReadNode(c, n) PROVE TypeOK'
  <2>1. c \in Sweepers
    BY DEF Sweepers
  <2>2. cpc' \in {[cpc EXCEPT ![c] = "found"], [cpc EXCEPT ![c] = "done"]} /\ want' \in {[want EXCEPT ![c] = n], want}
    BY <1>6 DEF ReadNode
  <2>3. cpc' \in [Sweepers -> {"idle", "listed", "dropping", "found", "waiting", "done"}]
        /\ want' \in [Calls -> Nodes \cup {None}]
    BY <2>1, <2>2 DEF TypeOK
  <2> QED BY <1>6, <2>3 DEF ReadNode, TypeOK
<1>7. ASSUME NEW c \in Calls, Dispatch(c) PROVE TypeOK'
  <2>1. c \in Sweepers
    BY DEF Sweepers
  <2>2. CASE EndProbe(c) /\ UNCHANGED <<pending, queue>>
    BY <1>7, <2>1, <2>2 DEF Dispatch, EndProbe, TypeOK
  <2>3. CASE ~(EndProbe(c) /\ UNCHANGED <<pending, queue>>)
    <3> PICK s : s = conn[want[c]]
      OBVIOUS
    <3>1. /\ s # None /\ HasRoom(s)
          /\ pending' = [pending EXCEPT ![s] = @ \cup {c}]
          /\ queue' = [queue EXCEPT ![s] = Append(@, [kind |-> "request", task |-> c])]
          /\ session' = [session EXCEPT ![c] = s]
          /\ future' = [future EXCEPT ![c] = "open"]
          /\ cpc' = [cpc EXCEPT ![c] = "waiting"]
          /\ want' = [want EXCEPT ![c] = None]
      BY <1>7, <2>3 DEF Dispatch
    <3>2. s \in Sockets
      BY <1>7, <3>1 DEF Dispatch, TypeOK, ProbesKnowTheirSession
    <3>3. [kind |-> "request", task |-> c] \in Messages /\ Len(queue[s]) < MaxMessages
      BY <3>1 DEF Messages, HasRoom
    <3>4. queue' \in [Sockets -> Seq(Messages)] /\ \A t \in Sockets : Len(queue'[t]) <= MaxMessages
      BY <3>1, <3>2, <3>3, QueueTypes
    <3>5. /\ pending' \in [Sockets -> SUBSET Calls] /\ session' \in [Calls -> Sockets \cup {None}]
          /\ future' \in [Calls -> {"none", "open", "result", "disconnected"}]
          /\ cpc' \in [Sweepers -> {"idle", "listed", "dropping", "found", "waiting", "done"}]
          /\ want' \in [Calls -> Nodes \cup {None}]
      BY <2>1, <3>1, <3>2 DEF TypeOK
    <3> QED BY <1>7, <3>4, <3>5 DEF Dispatch, TypeOK
  <2> QED BY <2>2, <2>3
<1>8. ASSUME NEW c \in Calls, ProbeReturns(c) PROVE TypeOK'
  BY <1>8 DEF ProbeReturns, EndProbe, TypeOK
<1>9. ASSUME NEW c \in Calls, ProbeTimesOut(c) PROVE TypeOK'
  <2> PICK s : s = session[c]
    OBVIOUS
  <2>1. /\ pending' = [pending EXCEPT ![s] = @ \ {c}]
        /\ queue' = [queue EXCEPT ![s] = IF Len(@) < MaxMessages /\ spc[s] # "closed"
                                           THEN Append(@, [kind |-> "cancel", task |-> c]) ELSE @]
        /\ EndProbe(c)
    BY <1>9 DEF ProbeTimesOut
  <2>2. s \in Sockets
    BY <1>9 DEF ProbeTimesOut, TypeOK, ProbesKnowTheirSession
  <2>3. queue' \in [Sockets -> Seq(Messages)] /\ \A t \in Sockets : Len(queue'[t]) <= MaxMessages
    <3>1. CASE Len(queue[s]) < MaxMessages /\ spc[s] # "closed"
      <4>1. queue' = [queue EXCEPT ![s] = Append(queue[s], [kind |-> "cancel", task |-> c])]
        BY <2>1, <3>1
      <4>2. [kind |-> "cancel", task |-> c] \in Messages
        BY DEF Messages
      <4> QED BY <2>2, <3>1, <4>1, <4>2, QueueTypes
    <3>2. CASE ~(Len(queue[s]) < MaxMessages /\ spc[s] # "closed")
      <4>1. queue' = queue
        BY <2>1, <3>2 DEF TypeOK
      <4> QED BY <4>1 DEF TypeOK
    <3> QED BY <3>1, <3>2
  <2>4. pending' \in [Sockets -> SUBSET Calls]
    BY <2>1 DEF TypeOK
  <2>5. c \in Sweepers
    BY DEF Sweepers
  <2>6. /\ cpc' \in [Sweepers -> {"idle", "listed", "dropping", "found", "waiting", "done"}]
        /\ want' \in [Calls -> Nodes \cup {None}] /\ session' \in [Calls -> Sockets \cup {None}]
        /\ future' \in [Calls -> {"none", "open", "result", "disconnected"}]
    BY <2>1, <2>5 DEF EndProbe, TypeOK
  <2> QED BY <1>9, <2>3, <2>4, <2>6 DEF ProbeTimesOut, TypeOK
<1>10. ASSUME NEW a \in Admins, DropDisabled(a) PROVE TypeOK'
  <2>1. FailPending(disabling[a]) /\ conn' = [conn EXCEPT ![disabling[a]] = None]
    BY <1>10 DEF DropDisabled, PopSession
  <2>2. /\ future' \in [Calls -> {"none", "open", "result", "disconnected"}]
        /\ pending' \in [Sockets -> SUBSET Calls]
    BY <2>1, PopSessionTypes
  <2>3. /\ conn' \in [Nodes -> Sockets \cup {None}] /\ leaving' \in [Leavers -> Nodes \cup {None}]
        /\ disabling' \in [Admins -> Nodes \cup {None}]
    BY <1>10, <2>1 DEF DropDisabled, TypeOK
  <2> QED BY <1>10, <2>2, <2>3 DEF DropDisabled, TypeOK
<1>11. ASSUME NEW a \in Admins, NEW n \in Nodes, Disable(a, n) \/ Enable(a, n) PROVE TypeOK'
  <2>1. CASE Disable(a, n)
    BY <2>1 DEF Disable, TypeOK
  <2>2. CASE Enable(a, n)
    BY <2>2 DEF Enable, TypeOK
  <2> QED BY <1>11, <2>1, <2>2
<1>12. CASE RestartCore
  <2>1. restarts' \in 0..MaxRestarts
    BY <1>12, Numbers DEF RestartCore, TypeOK
  <2>2. queue' \in [Sockets -> Seq(Messages)] /\ \A t \in Sockets : Len(queue'[t]) <= MaxMessages
    <3>1. <<>> \in Seq(Messages) /\ Len(<<>>) <= MaxMessages
      BY Numbers
    <3> QED BY <1>12, <3>1 DEF RestartCore
  <2>3. /\ spc' \in [Sockets -> {"unused", "hello", "enrolled", "serving", "closing", "closed"}]
        /\ cpc' \in [Sweepers -> {"idle", "listed", "dropping", "found", "waiting", "done"}]
    BY <1>12 DEF RestartCore
  <2>4. /\ conn' \in [Nodes -> Sockets \cup {None}] /\ pending' \in [Sockets -> SUBSET Calls]
        /\ disabling' \in [Admins -> Nodes \cup {None}] /\ leaving' \in [Leavers -> Nodes \cup {None}]
        /\ node' \in [Sockets -> Nodes \cup {None}] /\ alive' \in [Sockets -> BOOLEAN]
    BY <1>12 DEF RestartCore
  <2>5. /\ inbox' \in [Sockets -> SUBSET Calls] /\ outbox' \in [Sockets -> SUBSET Calls]
        /\ stale' \in [Sweepers -> SUBSET Nodes] /\ dirty' \in [Sweepers -> SUBSET Nodes]
        /\ want' \in [Calls -> Nodes \cup {None}] /\ session' \in [Calls -> Sockets \cup {None}]
        /\ future' \in [Calls -> {"none", "open", "result", "disconnected"}]
    BY <1>12 DEF RestartCore
  <2> QED BY <1>12, <2>1, <2>2, <2>3, <2>4, <2>5 DEF RestartCore, TypeOK
<1>13. ASSUME NEW n \in Nodes, Age(n) PROVE TypeOK'
  BY <1>13 DEF Age, TypeOK
<1> QED BY <1>1, <1>2, <1>3, <1>4, <1>5, <1>6, <1>7, <1>8, <1>9, <1>10, <1>11, <1>12, <1>13

-----------------------------------------------------------------------------
(* Sessions and probes.                                                    *)

\* A step that leaves sessions and probes alone, except that a handler begins
\* to close, or has enrolled, and that a call goes on before its dispatch.
LEMMA SessionsFrame ==
    ASSUME SessionsInv, UNCHANGED <<conn, pending, session, future, node>>,
           TypeOK,
           \A s \in Sockets : \/ spc'[s] = spc[s]
                              \/ spc[s] \in {"enrolled", "serving"} /\ spc'[s] = "closing"
                              \/ spc[s] = "hello" /\ spc'[s] = "enrolled",
           \A c \in Calls : /\ cpc'[c] = "waiting" <=> cpc[c] = "waiting"
                            /\ cpc'[c] = "found" => want'[c] # None
    PROVE  SessionsInv'
<1>1. HandlersKnowTheirNode'
  BY DEF SessionsInv, HandlersKnowTheirNode
<1>2. ProbesKnowTheirSession'
  BY DEF SessionsInv, ProbesKnowTheirSession
<1>3. NoGhostSession'
  <2> SUFFICES ASSUME NEW n \in Nodes, conn[n] # None
               PROVE  node[conn[n]] = n /\ spc'[conn[n]] \in {"serving", "closing"}
    BY DEF NoGhostSession
  <2>1. conn[n] \in Sockets /\ node[conn[n]] = n /\ spc[conn[n]] \in {"serving", "closing"}
    BY DEF SessionsInv, NoGhostSession, TypeOK
  <2> QED BY <2>1
<1>4. PendingIsExact'
  BY DEF SessionsInv, PendingIsExact
<1> QED BY <1>1, <1>2, <1>3, <1>4 DEF SessionsInv


\* FailPending: no caller of the session stays behind, and none of another one
\* is touched.
LEMMA Popped ==
    ASSUME TypeOK, SessionsInv, NEW n \in Nodes, FailPending(n), UNCHANGED <<cpc, session>>
    PROVE  \A s \in Sockets :
             /\ pending'[s] \subseteq pending[s]
             /\ pending'[s] = {c \in Calls : cpc'[c] = "waiting" /\ session'[c] = s /\ future'[c] = "open"}
             /\ pending'[s] # {} => s # conn[n] /\ node[s] # None /\ conn[node[s]] = s
<1> PICK lost : lost = IF conn[n] = None THEN {} ELSE pending[conn[n]]
  OBVIOUS
<1>1. /\ \A c \in Calls : future'[c] = "open" <=> future[c] = "open" /\ c \notin lost
      /\ \A s \in Sockets : pending'[s] = IF s = conn[n] THEN {} ELSE pending[s]
  BY DEF FailPending
<1>2. \A s \in Sockets :
        /\ pending[s] = {c \in Calls : cpc[c] = "waiting" /\ session[c] = s /\ future[c] = "open"}
        /\ pending[s] # {} => node[s] # None /\ conn[node[s]] = s
  BY DEF SessionsInv, PendingIsExact
<1> SUFFICES ASSUME NEW s \in Sockets
             PROVE  /\ pending'[s] \subseteq pending[s]
                    /\ pending'[s] = {c \in Calls : cpc[c] = "waiting" /\ session[c] = s /\ future'[c] = "open"}
                    /\ pending'[s] # {} => s # conn[n] /\ node[s] # None /\ conn[node[s]] = s
  OBVIOUS
<1>3. s # None
  BY WorkerAssumption
<1>4. CASE s = conn[n]
  <2>1. pending'[s] = {} /\ lost = pending[s]
    BY <1>1, <1>3, <1>4
  <2>2. ASSUME NEW c \in Calls, cpc[c] = "waiting", session[c] = s, future'[c] = "open"
        PROVE  FALSE
    BY <1>1, <1>2, <2>1, <2>2
  <2> QED BY <2>1, <2>2
<1>5. CASE s # conn[n]
  <2>1. pending'[s] = pending[s]
    BY <1>1, <1>5
  <2>2. ASSUME NEW c \in Calls, session[c] = s, future[c] = "open", cpc[c] = "waiting"
        PROVE  c \notin lost
    <3>1. CASE conn[n] \in Sockets
      BY <1>2, <1>5, <2>2, <3>1
    <3>2. CASE conn[n] \notin Sockets
      BY <3>2 DEF TypeOK
    <3> QED BY <3>1, <3>2
  <2> QED BY <1>1, <1>2, <1>5, <2>1, <2>2
<1> QED BY <1>4, <1>5

\* PopSession, by a sweep or an administrator, or by a handler that returns.
LEMMA SessionDropped ==
    ASSUME TypeOK, SessionsInv, NEW n \in Nodes, PopSession(n), UNCHANGED <<cpc, session, want>>,
           \/ UNCHANGED <<spc, node>>
           \/ \E s \in Sockets : /\ node[s] = n /\ node' = [node EXCEPT ![s] = None]
                                 /\ spc' = [spc EXCEPT ![s] = "closed"]
    PROVE  SessionsInv'
<1>1. FailPending(n) /\ conn' = [conn EXCEPT ![n] = None] /\ conn \in [Nodes -> Sockets \cup {None}]
  BY DEF PopSession, TypeOK
<1>2. /\ conn'[n] = None /\ \A m \in Nodes : m # n => conn'[m] = conn[m]
      /\ \A s \in Sockets : node[s] \in Nodes \cup {None}
  BY <1>1 DEF TypeOK
<1>3. /\ HandlersKnowTheirNode'
      /\ \A s \in Sockets : node[s] # n => node'[s] = node[s] /\ spc'[s] = spc[s]
  <2>1. CASE UNCHANGED <<spc, node>>
    BY <2>1 DEF SessionsInv, HandlersKnowTheirNode
  <2>2. ASSUME NEW s \in Sockets, node[s] = n, node' = [node EXCEPT ![s] = None],
               spc' = [spc EXCEPT ![s] = "closed"]
        PROVE  /\ HandlersKnowTheirNode'
               /\ \A t \in Sockets : node[t] # n => node'[t] = node[t] /\ spc'[t] = spc[t]
    <3>1. /\ node'[s] = None /\ spc'[s] = "closed"
          /\ \A t \in Sockets : t # s => node'[t] = node[t] /\ spc'[t] = spc[t]
      BY <2>2 DEF TypeOK
    <3> QED BY <2>2, <3>1 DEF SessionsInv, HandlersKnowTheirNode
  <2> QED BY <2>1, <2>2
<1>4. ProbesKnowTheirSession'
  BY DEF SessionsInv, ProbesKnowTheirSession
<1>5. NoGhostSession'
  <2> SUFFICES ASSUME NEW m \in Nodes, conn'[m] # None
               PROVE  node'[conn'[m]] = m /\ spc'[conn'[m]] \in {"serving", "closing"}
    BY DEF NoGhostSession
  <2>1. m # n /\ conn'[m] = conn[m] /\ conn[m] \in Sockets
    BY <1>1, <1>2
  <2>2. node[conn[m]] = m /\ spc[conn[m]] \in {"serving", "closing"}
    BY <2>1 DEF SessionsInv, NoGhostSession
  <2> QED BY <1>3, <2>1, <2>2
<1>6. PendingIsExact'
  <2>1. ASSUME NEW s \in Sockets, pending'[s] # {}
        PROVE  node'[s] # None /\ conn'[node'[s]] = s
    <3>1. s # conn[n] /\ node[s] # None /\ conn[node[s]] = s
      BY <1>1, <2>1, Popped
    <3> QED BY <1>2, <1>3, <3>1
  <2>2. \A s \in Sockets :
          pending'[s] = {c \in Calls : cpc'[c] = "waiting" /\ session'[c] = s /\ future'[c] = "open"}
    BY <1>1, Popped
  <2> QED BY <2>1, <2>2 DEF PendingIsExact
<1> QED BY <1>3, <1>4, <1>5, <1>6 DEF SessionsInv

\* Connect: the session replaces that of the node, or the limit is reached.
LEMMA ConnectI ==
    ASSUME TypeOK, SessionsInv, NEW s \in Sockets, Connect(s)
    PROVE  SessionsInv'
<1> PICK n : n = node[s]
  OBVIOUS
<1>1. spc[s] = "enrolled" /\ n \in Nodes /\ UNCHANGED <<node, cpc, session, want>>
  BY DEF Connect, SessionsInv, HandlersKnowTheirNode, TypeOK
<1>2. CASE HangUp(s) /\ UNCHANGED <<conn, pending, future>>
  <2>1. \A t \in Sockets : spc'[t] = spc[t] \/ (spc[t] \in {"enrolled", "serving"} /\ spc'[t] = "closing")
    BY <1>1, <1>2 DEF HangUp, TypeOK
  <2>2. \A c \in Calls : cpc[c] = "found" => want[c] # None
    BY DEF SessionsInv, ProbesKnowTheirSession
  <2> QED BY <1>1, <1>2, <2>1, <2>2, SessionsFrame
<1>3. CASE FailPending(n) /\ conn' = [conn EXCEPT ![n] = s] /\ spc' = [spc EXCEPT ![s] = "serving"]
  <2>1. /\ conn'[n] = s /\ \A m \in Nodes : m # n => conn'[m] = conn[m]
        /\ spc'[s] = "serving" /\ \A t \in Sockets : t # s => spc'[t] = spc[t]
        /\ \A t \in Sockets : node[t] \in Nodes \cup {None}
    BY <1>1, <1>3 DEF TypeOK
  <2>2. HandlersKnowTheirNode' /\ ProbesKnowTheirSession'
    BY <1>1, <2>1 DEF SessionsInv, HandlersKnowTheirNode, ProbesKnowTheirSession
  <2>3. NoGhostSession'
    <3> SUFFICES ASSUME NEW m \in Nodes, conn'[m] # None
                 PROVE  node'[conn'[m]] = m /\ spc'[conn'[m]] \in {"serving", "closing"}
      BY DEF NoGhostSession
    <3>1. CASE m = n
      BY <1>1, <2>1, <3>1
    <3>2. CASE m # n
      <4>1. conn[m] \in Sockets /\ node[conn[m]] = m /\ spc[conn[m]] \in {"serving", "closing"}
        BY <2>1, <3>2 DEF SessionsInv, NoGhostSession, TypeOK
      <4> QED BY <1>1, <2>1, <3>2, <4>1
    <3> QED BY <3>1, <3>2
  <2>4. PendingIsExact'
    <3>1. ASSUME NEW t \in Sockets, pending'[t] # {}
          PROVE  node'[t] # None /\ conn'[node'[t]] = t
      <4>1. t # conn[n] /\ node[t] # None /\ conn[node[t]] = t
        BY <1>1, <1>3, <3>1, Popped
      <4> QED BY <1>1, <2>1, <4>1
    <3>2. \A t \in Sockets :
            pending'[t] = {c \in Calls : cpc'[c] = "waiting" /\ session'[c] = t /\ future'[c] = "open"}
      BY <1>1, <1>3, Popped
    <3> QED BY <3>1, <3>2 DEF PendingIsExact
  <2> QED BY <2>2, <2>3, <2>4 DEF SessionsInv
<1> QED BY <1>2, <1>3 DEF Connect

\* Open, and a hello that is refused: there is no session yet.
LEMMA HelloI ==
    ASSUME TypeOK, SessionsInv, NEW s \in Sockets, spc[s] \in {"unused", "hello"},
           NEW m \in Nodes \cup {None}, NEW pc \in {"hello", "closed"}, m # None <=> pc = "hello",
           node' = [node EXCEPT ![s] = m], spc' = [spc EXCEPT ![s] = pc],
           UNCHANGED <<conn, pending, cpc, session, want, future>>
    PROVE  SessionsInv'
<1>1. /\ node'[s] = m /\ spc'[s] = pc
      /\ \A t \in Sockets : t # s => node'[t] = node[t] /\ spc'[t] = spc[t]
      /\ \A t \in Sockets : node[t] \in Nodes \cup {None}
  BY DEF TypeOK
<1>2. HandlersKnowTheirNode' /\ ProbesKnowTheirSession'
  BY <1>1 DEF SessionsInv, HandlersKnowTheirNode, ProbesKnowTheirSession
<1>3. NoGhostSession'
  <2> SUFFICES ASSUME NEW n \in Nodes, conn[n] # None
               PROVE  node'[conn[n]] = n /\ spc'[conn[n]] \in {"serving", "closing"}
    BY DEF NoGhostSession
  <2>1. conn[n] \in Sockets /\ node[conn[n]] = n /\ spc[conn[n]] \in {"serving", "closing"}
    BY DEF SessionsInv, NoGhostSession, TypeOK
  <2> QED BY <1>1, <2>1
<1>4. \A t \in Sockets : pending[t] # {} => t # s
  BY <1>1, WorkerAssumption DEF SessionsInv, PendingIsExact, NoGhostSession
<1>5. PendingIsExact'
  BY <1>1, <1>4 DEF SessionsInv, PendingIsExact
<1> QED BY <1>2, <1>3, <1>5 DEF SessionsInv

\* A probe ends and leaves nothing in its session.
LEMMA ProbeEnds ==
    ASSUME TypeOK, SessionsInv, NEW c \in Calls, EndProbe(c),
           \A s \in Sockets : pending'[s] = pending[s] \ {c},
           UNCHANGED <<conn, spc, node>>
    PROVE  SessionsInv'
<1>1. /\ cpc' = [cpc EXCEPT ![c] = "done"] /\ c \in Sweepers
      /\ want' = [want EXCEPT ![c] = None] /\ session' = [session EXCEPT ![c] = None]
      /\ future' = [future EXCEPT ![c] = "none"]
  BY DEF EndProbe, Sweepers
<1>2. /\ cpc'[c] = "done"
      /\ \A d \in Calls : d # c => /\ cpc'[d] = cpc[d] /\ want'[d] = want[d]
                                   /\ session'[d] = session[d] /\ future'[d] = future[d]
  BY <1>1 DEF TypeOK, Sweepers
<1>3. HandlersKnowTheirNode' /\ NoGhostSession'
  BY DEF SessionsInv, HandlersKnowTheirNode, NoGhostSession
<1>4. ProbesKnowTheirSession'
  BY <1>2 DEF SessionsInv, ProbesKnowTheirSession
<1>5. PendingIsExact'
  <2> SUFFICES ASSUME NEW s \in Sockets
               PROVE  /\ pending'[s] = {d \in Calls : cpc'[d] = "waiting" /\ session'[d] = s /\ future'[d] = "open"}
                      /\ pending'[s] # {} => node[s] # None /\ conn[node[s]] = s
    BY DEF PendingIsExact
  <2>1. /\ pending[s] = {d \in Calls : cpc[d] = "waiting" /\ session[d] = s /\ future[d] = "open"}
        /\ pending[s] # {} => node[s] # None /\ conn[node[s]] = s
    BY DEF SessionsInv, PendingIsExact
  <2>2. pending'[s] = {d \in Calls : cpc'[d] = "waiting" /\ session'[d] = s /\ future'[d] = "open"}
    BY <1>2, <2>1
  <2> QED BY <2>1, <2>2
<1> QED BY <1>3, <1>4, <1>5 DEF SessionsInv

\* PendingIsExact, call by call.
LEMMA PendingKnown ==
    ASSUME SessionsInv
    PROVE  \A s \in Sockets :
             /\ pending[s] \subseteq Calls
             /\ \A c \in Calls : c \in pending[s] <=> cpc[c] = "waiting" /\ session[c] = s /\ future[c] = "open"
             /\ pending[s] # {} => node[s] # None /\ conn[node[s]] = s
BY DEF SessionsInv, PendingIsExact

\* Dispatch: the probe is entered into the present session of its node, or ends.
LEMMA DispatchI ==
    ASSUME TypeOK, SessionsInv, NEW c \in Calls, Dispatch(c)
    PROVE  SessionsInv'
<1> PICK s : s = conn[want[c]]
  OBVIOUS
<1>1. /\ cpc[c] = "found" /\ want[c] \in Nodes /\ s \in Sockets \cup {None} /\ c \in Sweepers
      /\ UNCHANGED <<conn, spc, node>>
  BY DEF Dispatch, SessionsInv, ProbesKnowTheirSession, TypeOK, Sweepers
<1>2. \A t \in Sockets :
        /\ pending[t] \subseteq Calls
        /\ \A d \in Calls : d \in pending[t] <=> cpc[d] = "waiting" /\ session[d] = t /\ future[d] = "open"
        /\ pending[t] # {} => node[t] # None /\ conn[node[t]] = t
  BY PendingKnown
<1>3. CASE EndProbe(c) /\ UNCHANGED <<pending, queue>>
  <2>1. \A t \in Sockets : pending'[t] = pending[t] \ {c}
    BY <1>1, <1>2, <1>3
  <2> QED BY <1>1, <1>3, <2>1, ProbeEnds
<1>4. CASE ~(EndProbe(c) /\ UNCHANGED <<pending, queue>>)
  <2>1. /\ s # None /\ s \in Sockets
        /\ pending' = [pending EXCEPT ![s] = @ \cup {c}] /\ session' = [session EXCEPT ![c] = s]
        /\ future' = [future EXCEPT ![c] = "open"] /\ cpc' = [cpc EXCEPT ![c] = "waiting"]
        /\ want' = [want EXCEPT ![c] = None]
    BY <1>1, <1>4 DEF Dispatch
  <2>2. /\ cpc'[c] = "waiting" /\ session'[c] = s /\ future'[c] = "open"
        /\ \A d \in Calls : d # c => /\ cpc'[d] = cpc[d] /\ want'[d] = want[d]
                                     /\ session'[d] = session[d] /\ future'[d] = future[d]
        /\ \A t \in Sockets : pending'[t] = IF t = s THEN pending[t] \cup {c} ELSE pending[t]
    BY <1>1, <2>1 DEF TypeOK, Sweepers
  <2>3. node[s] = want[c]
    BY <1>1, <2>1 DEF SessionsInv, NoGhostSession
  <2>4. HandlersKnowTheirNode' /\ NoGhostSession'
    BY <1>1 DEF SessionsInv, HandlersKnowTheirNode, NoGhostSession
  <2>5. ProbesKnowTheirSession'
    BY <2>1, <2>2 DEF SessionsInv, ProbesKnowTheirSession
  <2>6. PendingIsExact'
    <3> SUFFICES ASSUME NEW t \in Sockets
                 PROVE  /\ pending'[t] = {d \in Calls : cpc'[d] = "waiting" /\ session'[d] = t /\ future'[d] = "open"}
                        /\ pending'[t] # {} => node[t] # None /\ conn[node[t]] = t
      BY <1>1 DEF PendingIsExact
    <3>1. pending'[t] = {d \in Calls : cpc'[d] = "waiting" /\ session'[d] = t /\ future'[d] = "open"}
      <4>1. /\ pending[t] \subseteq Calls
            /\ \A d \in Calls : d \in pending[t] <=> cpc[d] = "waiting" /\ session[d] = t /\ future[d] = "open"
        BY <1>2
      <4>2. CASE t = s
        <5>1. pending'[t] = pending[t] \cup {c}
          BY <2>2, <4>2
        <5> QED BY <2>2, <4>1, <4>2, <5>1
      <4>3. CASE t # s
        <5>1. pending'[t] = pending[t]
          BY <2>2, <4>3
        <5> QED BY <1>1, <2>2, <4>1, <4>3, <5>1
      <4> QED BY <4>2, <4>3
    <3>2. pending'[t] # {} => node[t] # None /\ conn[node[t]] = t
      <4>1. CASE t = s
        BY <1>1, <2>3, <4>1, WorkerAssumption
      <4>2. CASE t # s
        BY <1>2, <2>2, <4>2
      <4> QED BY <4>1, <4>2
    <3> QED BY <3>1, <3>2
  <2> QED BY <2>4, <2>5, <2>6 DEF SessionsInv
<1> QED BY <1>3, <1>4

\* ReceiveResult: the call is found in the present session, or the answer is
\* nobody's.
LEMMA ReceiveResultI ==
    ASSUME TypeOK, SessionsInv, NEW s \in Sockets, NEW c \in Calls, ReceiveResult(s, c)
    PROVE  SessionsInv'
<1> PICK t : t = conn[node[s]]
  OBVIOUS
<1>1. /\ node[s] \in Nodes /\ t \in Sockets \cup {None}
      /\ UNCHANGED <<conn, spc, node, cpc, want, session>>
  BY DEF ReceiveResult, SessionsInv, HandlersKnowTheirNode, TypeOK
<1>2. \A u \in Sockets :
        /\ pending[u] \subseteq Calls
        /\ \A d \in Calls : d \in pending[u] <=> cpc[d] = "waiting" /\ session[d] = u /\ future[d] = "open"
        /\ pending[u] # {} => node[u] # None /\ conn[node[u]] = u
  BY PendingKnown
<1>3. HandlersKnowTheirNode' /\ NoGhostSession' /\ ProbesKnowTheirSession'
  BY <1>1 DEF SessionsInv, HandlersKnowTheirNode, NoGhostSession, ProbesKnowTheirSession
<1>4. CASE UNCHANGED <<pending, future>>
  BY <1>1, <1>3, <1>4 DEF SessionsInv, PendingIsExact
<1>5. CASE /\ t # None /\ c \in pending[t]
           /\ pending' = [pending EXCEPT ![t] = @ \ {c}]
           /\ future' = [future EXCEPT ![c] = IF @ = "open" THEN "result" ELSE @]
  <2>1. t \in Sockets /\ session[c] = t /\ future[c] = "open"
    BY <1>1, <1>2, <1>5
  <2>2. /\ future'[c] = "result" /\ \A d \in Calls : d # c => future'[d] = future[d]
        /\ \A u \in Sockets : pending'[u] = IF u = t THEN pending[u] \ {c} ELSE pending[u]
    BY <1>5, <2>1 DEF TypeOK
  <2>3. ASSUME NEW u \in Sockets
        PROVE  /\ pending'[u] = {d \in Calls : cpc[d] = "waiting" /\ session[d] = u /\ future'[d] = "open"}
               /\ pending'[u] # {} => node[u] # None /\ conn[node[u]] = u
    <3>1. /\ pending[u] \subseteq Calls
          /\ \A d \in Calls : d \in pending[u] <=> cpc[d] = "waiting" /\ session[d] = u /\ future[d] = "open"
          /\ pending[u] # {} => node[u] # None /\ conn[node[u]] = u
      BY <1>2
    <3>2. CASE u = t
      <4>1. pending'[u] = pending[u] \ {c}
        BY <2>2, <3>2
      <4> QED BY <2>2, <3>1, <4>1
    <3>3. CASE u # t
      <4>1. pending'[u] = pending[u]
        BY <2>2, <3>3
      <4> QED BY <2>1, <2>2, <3>1, <3>3, <4>1
    <3> QED BY <3>2, <3>3
  <2> QED BY <1>1, <1>3, <2>3 DEF SessionsInv, PendingIsExact
<1> QED BY <1>4, <1>5 DEF ReceiveResult

\* RestartCore: no handler, session or probe is left.
LEMMA RestartI ==
    ASSUME SessionsInv, RestartCore
    PROVE  SessionsInv'
<1>1. /\ \A n \in Nodes : conn'[n] = None
      /\ \A s \in Sockets : pending'[s] = {} /\ node'[s] = None /\ spc'[s] \in {"unused", "closed"}
  BY DEF RestartCore
<1>2. \A c \in Calls : cpc'[c] \in {"idle", "done"}
  BY DEF RestartCore, Sweepers
<1> QED BY <1>1, <1>2 DEF SessionsInv, HandlersKnowTheirNode, ProbesKnowTheirSession, NoGhostSession, PendingIsExact

\* Every step preserves the half about sessions and probes.
LEMMA SessionsI ==
    ASSUME TypeOK, SessionsInv, [Next]_vars
    PROVE  SessionsInv'
<1>1. ASSUME UNCHANGED <<conn, pending, session, future, node, spc, cpc, want>>
      PROVE  SessionsInv'
  <2>1. \A c \in Calls : cpc'[c] = "found" => want'[c] # None
    BY <1>1 DEF SessionsInv, ProbesKnowTheirSession
  <2> QED BY <1>1, <2>1, SessionsFrame
<1>2. ASSUME NEW s \in Sockets, HangUp(s), spc[s] = "serving",
             UNCHANGED <<conn, pending, session, future, node, cpc, want>>
      PROVE  SessionsInv'
  <2>1. \A c \in Calls : cpc'[c] = "found" => want'[c] # None
    BY <1>2 DEF SessionsInv, ProbesKnowTheirSession
  <2>2. \A t \in Sockets : spc'[t] = spc[t] \/ (spc[t] = "serving" /\ spc'[t] = "closing")
    BY <1>2 DEF HangUp, TypeOK
  <2> QED BY <1>2, <2>1, <2>2, SessionsFrame
<1>3. ASSUME NEW d \in Leavers, TakeOffline(d) PROVE SessionsInv'
  BY <1>1, <1>3 DEF TakeOffline
<1>4. ASSUME NEW s \in Sockets, Enroll(s) PROVE SessionsInv'
  <2>1. spc[s] = "hello" /\ UNCHANGED <<conn, pending, session, future, cpc, want>>
    BY <1>4 DEF Enroll
  <2>2. CASE spc' = [spc EXCEPT ![s] = "enrolled"] /\ UNCHANGED node
    <3>1. \A c \in Calls : cpc'[c] = "found" => want'[c] # None
      BY <2>1 DEF SessionsInv, ProbesKnowTheirSession
    <3>2. \A t \in Sockets : spc'[t] = spc[t] \/ (spc[t] = "hello" /\ spc'[t] = "enrolled")
      BY <2>1, <2>2 DEF TypeOK
    <3> QED BY <2>1, <2>2, <3>1, <3>2, SessionsFrame
  <2>3. CASE spc' = [spc EXCEPT ![s] = "closed"] /\ node' = [node EXCEPT ![s] = None]
    BY <2>1, <2>3, HelloI
  <2> QED BY <1>4, <2>2, <2>3 DEF Enroll
<1>5. ASSUME NEW s \in Sockets, NEW n \in Nodes, Open(s, n) PROVE SessionsInv'
  <2>1. n # None
    BY WorkerAssumption
  <2> QED BY <1>5, <2>1, HelloI DEF Open
<1>6. ASSUME NEW s \in Sockets, Close(s) PROVE SessionsInv'
  <2>1. node[s] \in Nodes
    BY <1>6 DEF Close, SessionsInv, HandlersKnowTheirNode, TypeOK
  <2> QED BY <1>6, <2>1, SessionDropped DEF Close
<1>7. ASSUME NEW s \in Sockets, Send(s) PROVE SessionsInv'
  BY <1>1, <1>7 DEF Send
<1>8. ASSUME NEW s \in Sockets, Heartbeat(s) PROVE SessionsInv'
  <2>1. /\ spc[s] = "serving" /\ UNCHANGED <<conn, pending, session, future, node, cpc, want>>
        /\ UNCHANGED spc \/ HangUp(s)
    BY <1>8 DEF Heartbeat
  <2> QED BY <1>1, <1>2, <2>1
<1>9. ASSUME NEW s \in Sockets, LossNoticed(s) PROVE SessionsInv'
  BY <1>2, <1>9 DEF LossNoticed
<1>10. ASSUME NEW s \in Sockets, WorkerLost(s) \/ \E c \in Calls : WorkerAnswers(s, c) PROVE SessionsInv'
  BY <1>1, <1>10 DEF WorkerLost, WorkerAnswers
<1>11. ASSUME NEW c \in Sweepers, SweepRead(c) \/ SweepWrite(c) PROVE SessionsInv'
  <2>1. UNCHANGED <<conn, pending, session, future, node, spc, want>>
    BY <1>11 DEF SweepRead, SweepWrite
  <2>2. \A d \in Calls : cpc'[d] = cpc[d] \/ (cpc[d] \in {"idle", "listed"} /\ cpc'[d] \in {"listed", "dropping"})
    BY <1>11 DEF SweepRead, SweepWrite, TypeOK, Sweepers
  <2>3. \A d \in Calls : cpc'[d] = "found" => want'[d] # None
    BY <2>1, <2>2 DEF SessionsInv, ProbesKnowTheirSession
  <2> QED BY <2>1, <2>2, <2>3, SessionsFrame
<1>12. CASE LoopSleeps
  <2>1. UNCHANGED <<conn, pending, session, future, node, spc, want>>
    BY <1>12 DEF LoopSleeps
  <2>2. \A d \in Calls : cpc'[d] = cpc[d]
    BY <1>12, WorkerAssumption DEF LoopSleeps, TypeOK, Sweepers
  <2>3. \A d \in Calls : cpc'[d] = "found" => want'[d] # None
    BY <2>1, <2>2 DEF SessionsInv, ProbesKnowTheirSession
  <2> QED BY <2>1, <2>2, <2>3, SessionsFrame
<1>13. ASSUME NEW c \in Sweepers, NEW m \in Nodes, SweepDrop(c, m) PROVE SessionsInv'
  BY <1>13, SessionDropped DEF SweepDrop
<1>14. ASSUME NEW c \in Calls, NEW n \in Nodes, ReadNode(c, n) PROVE SessionsInv'
  <2>1. UNCHANGED <<conn, pending, session, future, node, spc>> /\ cpc[c] = "dropping"
    BY <1>14 DEF ReadNode, Swept
  <2>2. /\ \A d \in Calls : d # c => cpc'[d] = cpc[d] /\ want'[d] = want[d]
        /\ cpc'[c] \in {"found", "done"} /\ (cpc'[c] = "found" => want'[c] = n)
    <3>1. \/ cpc' = [cpc EXCEPT ![c] = "found"] /\ want' = [want EXCEPT ![c] = n]
          \/ cpc' = [cpc EXCEPT ![c] = "done"] /\ want' = want
      BY <1>14 DEF ReadNode
    <3> QED BY <3>1 DEF TypeOK, Sweepers
  <2>3. \A d \in Calls : cpc'[d] = "found" => want'[d] # None
    BY <2>2, WorkerAssumption DEF SessionsInv, ProbesKnowTheirSession
  <2> QED BY <2>1, <2>2, <2>3, SessionsFrame
<1>15. ASSUME NEW c \in Calls, ProbeReturns(c) \/ ProbeTimesOut(c) PROVE SessionsInv'
  <2>1. cpc[c] = "waiting" /\ EndProbe(c) /\ UNCHANGED <<conn, spc, node>>
    BY <1>15 DEF ProbeReturns, ProbeTimesOut
  <2>2. \A s \in Sockets : pending'[s] = pending[s] \ {c}
    <3> SUFFICES ASSUME NEW s \in Sockets PROVE pending'[s] = pending[s] \ {c}
      OBVIOUS
    <3>1. c \in pending[s] <=> session[c] = s /\ future[c] = "open"
      BY <2>1, PendingKnown
    <3>2. CASE ProbeReturns(c)
      BY <3>1, <3>2 DEF ProbeReturns
    <3>3. CASE ProbeTimesOut(c)
      <4>1. pending' = [pending EXCEPT ![session[c]] = pending[session[c]] \ {c}]
        BY <3>3 DEF ProbeTimesOut
      <4>2. CASE s = session[c]
        BY <4>1, <4>2 DEF TypeOK
      <4>3. CASE s # session[c]
        BY <3>1, <4>1, <4>3 DEF TypeOK
      <4> QED BY <4>2, <4>3
    <3> QED BY <1>15, <3>2, <3>3
  <2> QED BY <2>1, <2>2, ProbeEnds
<1>16. ASSUME NEW a \in Admins, DropDisabled(a) PROVE SessionsInv'
  <2>1. disabling[a] \in Nodes
    BY <1>16 DEF DropDisabled, TypeOK
  <2> QED BY <1>16, <2>1, SessionDropped DEF DropDisabled
<1>17. ASSUME NEW n \in Nodes, Age(n) \/ \E a \in Admins : Disable(a, n) \/ Enable(a, n) PROVE SessionsInv'
  BY <1>1, <1>17 DEF Age, Disable, Enable
<1>18. CASE UNCHANGED vars
  BY <1>1, <1>18 DEF vars
<1> QED BY <1>3, <1>4, <1>5, <1>6, <1>7, <1>8, <1>9, <1>10, <1>11, <1>12, <1>13, <1>14, <1>15, <1>16, <1>17, <1>18,
           ConnectI, ReceiveResultI, DispatchI, RestartI
        DEF Next, Core, Workers

-----------------------------------------------------------------------------
(* Requests and answers.                                                   *)

\* A call goes on, ends, or is dispatched.
CallEnds(c) == cpc'[c] = "done" /\ session'[c] = None /\ future'[c] = "none"

CallAsks(c) == cpc[c] = "found" /\ cpc'[c] = "waiting" /\ session'[c] # None /\ future'[c] = "open"

CallGoesOn(c) ==
    /\ session'[c] = session[c] /\ (future'[c] = "none" <=> future[c] = "none")
    /\ cpc'[c] = cpc[c] \/ (cpc[c] \notin {"waiting", "done"} /\ cpc'[c] # "waiting")

\* The steps of one call, and the restart of the Core.
LEMMA OneCallMoves ==
    ASSUME TypeOK, SessionsInv, ProbesHaveFutures, NEW c \in Calls,
           Dispatch(c) \/ ProbeReturns(c) \/ ProbeTimesOut(c) \/ RestartCore
    PROVE  \A d \in Calls : CallEnds(d) \/ CallAsks(d) \/ CallGoesOn(d)
<1>0. /\ cpc \in [Sweepers -> {"idle", "listed", "dropping", "found", "waiting", "done"}]
      /\ want \in [Calls -> Nodes \cup {None}] /\ session \in [Calls -> Sockets \cup {None}]
      /\ future \in [Calls -> {"none", "open", "result", "disconnected"}]
      /\ Calls \subseteq Sweepers
  BY DEF TypeOK, Sweepers
<1>1. CASE EndProbe(c)
  BY <1>0, <1>1 DEF EndProbe, CallEnds, CallGoesOn
<1>2. CASE Dispatch(c) /\ ~EndProbe(c)
  <2>1. /\ cpc[c] = "found" /\ conn[want[c]] # None
        /\ session' = [session EXCEPT ![c] = conn[want[c]]]
        /\ future' = [future EXCEPT ![c] = "open"] /\ cpc' = [cpc EXCEPT ![c] = "waiting"]
    BY <1>2 DEF Dispatch
  <2> QED BY <1>0, <2>1 DEF CallAsks, CallGoesOn
<1>3. CASE RestartCore
  <2>1. \A d \in Calls : /\ session'[d] = None /\ future'[d] = "none"
                         /\ cpc'[d] = "done" \/ (cpc'[d] = "idle" /\ cpc[d] = "idle")
    BY <1>0, <1>3, WorkerAssumption DEF RestartCore
  <2>2. \A d \in Calls : cpc[d] = "idle" => session[d] = None /\ future[d] = "none"
    BY DEF ProbesHaveFutures
  <2> QED BY <2>1, <2>2 DEF CallEnds, CallGoesOn
<1> QED BY <1>1, <1>2, <1>3 DEF ProbeReturns, ProbeTimesOut

\* So does every step.
LEMMA CallsMove ==
    ASSUME TypeOK, SessionsInv, ProbesHaveFutures, [Next]_vars
    PROVE  \A c \in Calls : CallEnds(c) \/ CallAsks(c) \/ CallGoesOn(c)
<1>0. /\ cpc \in [Sweepers -> {"idle", "listed", "dropping", "found", "waiting", "done"}]
      /\ future \in [Calls -> {"none", "open", "result", "disconnected"}]
      /\ Calls \subseteq Sweepers /\ Loop \notin Calls
  BY WorkerAssumption DEF TypeOK, Sweepers
<1> DEFINE Moves == \A c \in Calls : CallEnds(c) \/ CallAsks(c) \/ CallGoesOn(c)
<1>1. CASE UNCHANGED <<cpc, session, future>>
  BY <1>1 DEF CallGoesOn
<1>2. ASSUME NEW n, FailPending(n), UNCHANGED <<cpc, session>> PROVE Moves
  BY <1>0, <1>2 DEF FailPending, CallGoesOn
<1>3. ASSUME NEW s \in Sockets, Connect(s) \/ Close(s) PROVE Moves
  BY <1>1, <1>2, <1>3 DEF Connect, Close, PopSession
<1>4. ASSUME NEW s \in Sockets, NEW c \in Calls, ReceiveResult(s, c) PROVE Moves
  <2>1. /\ UNCHANGED <<cpc, session>>
        /\ \/ UNCHANGED future
           \/ future' = [future EXCEPT ![c] = IF @ = "open" THEN "result" ELSE @]
    BY <1>4 DEF ReceiveResult
  <2>2. CASE future' = [future EXCEPT ![c] = IF @ = "open" THEN "result" ELSE @]
    BY <1>0, <2>1, <2>2 DEF CallGoesOn
  <2> QED BY <1>1, <2>1, <2>2
<1>5. ASSUME NEW c \in Sweepers, \/ SweepRead(c) \/ SweepWrite(c)
                                 \/ \E m \in Nodes : SweepDrop(c, m)
      PROVE  Moves
  <2>1. CASE SweepRead(c) \/ SweepWrite(c)
    BY <1>0, <2>1 DEF SweepRead, SweepWrite, CallGoesOn
  <2> QED BY <1>2, <1>5, <2>1 DEF SweepDrop, PopSession
<1>6. CASE LoopSleeps
  BY <1>0, <1>6 DEF LoopSleeps, CallGoesOn
<1>7. ASSUME NEW c \in Calls, NEW n \in Nodes, ReadNode(c, n) PROVE Moves
  <2>1. /\ cpc[c] = "dropping" /\ UNCHANGED <<session, future>>
        /\ cpc' \in {[cpc EXCEPT ![c] = "found"], [cpc EXCEPT ![c] = "done"]}
    BY <1>7 DEF ReadNode, Swept
  <2> QED BY <1>0, <2>1 DEF CallGoesOn
<1>8. ASSUME NEW c \in Calls, Dispatch(c) \/ ProbeReturns(c) \/ ProbeTimesOut(c) PROVE Moves
  BY <1>8, OneCallMoves
<1>9. CASE RestartCore
  BY <1>9, OneCallMoves
<1>10. ASSUME NEW a \in Admins, DropDisabled(a) PROVE Moves
  BY <1>2, <1>10 DEF DropDisabled, PopSession
<1>11. ASSUME NEW n \in Nodes, Age(n) \/ \E a \in Admins : Disable(a, n) \/ Enable(a, n) PROVE Moves
  BY <1>1, <1>11 DEF Age, Disable, Enable
<1>12. ASSUME NEW s \in Sockets, \/ Enroll(s) \/ Send(s) \/ Heartbeat(s) \/ WorkerLost(s) \/ LossNoticed(s)
                                 \/ (\E n \in Nodes : Open(s, n)) \/ \E c \in Calls : WorkerAnswers(s, c)
       PROVE  Moves
  BY <1>1, <1>12 DEF Enroll, Send, Heartbeat, WorkerLost, LossNoticed, Open, WorkerAnswers
<1>13. ASSUME NEW d \in Leavers, TakeOffline(d) PROVE Moves
  BY <1>1, <1>13 DEF TakeOffline
<1>14. CASE UNCHANGED vars
  BY <1>1, <1>14 DEF vars
<1>15. CASE Core
  BY <1>3, <1>4, <1>5, <1>6, <1>7, <1>8, <1>9, <1>10, <1>11, <1>12, <1>13, <1>15 DEF Core
<1>16. CASE Workers
  BY <1>11, <1>12, <1>16 DEF Workers
<1>17. Moves
  BY <1>14, <1>15, <1>16 DEF Next
<1> QED BY <1>17 DEF Moves

\* What a handler forwards was in its queue.
LEMMA SendMessages ==
    ASSUME TypeOK, NEW s \in Sockets, Send(s), NEW t \in Sockets, NEW c \in Calls, Underway(t, c)'
    PROVE  Underway(t, c)
<1> DEFINE request == [kind |-> "request", task |-> c]
<1>0. /\ queue \in [Sockets -> Seq(Messages)] /\ queue[s] \in Seq(Messages) /\ queue[s] # <<>>
      /\ inbox \in [Sockets -> SUBSET Calls]
      /\ queue' = [queue EXCEPT ![s] = Tail(queue[s])] /\ UNCHANGED outbox
  BY DEF Send, TypeOK
<1>1. CASE t # s
  <2>1. inbox'[t] = inbox[t] /\ queue'[t] = queue[t] /\ outbox'[t] = outbox[t]
    BY <1>0, <1>1 DEF Send
  <2> QED BY <2>1 DEF Underway
<1>2. CASE t = s
  <2>1. /\ Head(queue[s]) = queue[s][1] /\ Head(queue[s]) \in Messages
        /\ 1 \in DOMAIN queue[s]
    BY <1>0, HeadTailProperties, EmptySeq, LenProperties
  <2>2. CASE c \in inbox'[s] \ inbox[s]
    <3>1. Head(queue[s]).kind = "request" /\ Head(queue[s]).task = c
      BY <1>0, <2>2 DEF Send
    <3>2. Head(queue[s]) = request
      BY <2>1, <3>1 DEF Messages
    <3> QED BY <1>2, <2>1, <3>2 DEF Underway
  <2>3. CASE c \in inbox[s] \cup outbox[s]
    BY <1>2, <2>3 DEF Underway
  <2>4. CASE \E i \in DOMAIN queue'[s] : queue'[s][i] = request
    <3>1. queue'[s] = Tail(queue[s])
      BY <1>0
    <3>2. PICK i \in DOMAIN Tail(queue[s]) : Tail(queue[s])[i] = request
      BY <2>4, <3>1
    <3>3. /\ Tail(queue[s]) \in Seq(Messages) /\ Len(Tail(queue[s])) = Len(queue[s]) - 1
          /\ Len(queue[s]) \in Nat
          /\ \A k \in 1 .. Len(Tail(queue[s])) : Tail(queue[s])[k] = queue[s][k + 1]
      BY <1>0, HeadTailProperties, LenProperties
    <3>4. i \in 1 .. Len(queue[s]) - 1
      BY <3>2, <3>3, LenProperties
    <3>5. i + 1 \in DOMAIN queue[s] /\ queue[s][i + 1] = request
      BY <1>0, <3>2, <3>3, <3>4, LenProperties
    <3> QED BY <1>2, <3>5 DEF Underway
  <2> QED BY <1>0, <1>2, <2>2, <2>3, <2>4 DEF Underway
<1> QED BY <1>1, <1>2

\* A message that joins a queue is underway; the others were.
LEMMA Appended ==
    ASSUME TypeOK, NEW s \in Sockets, NEW m \in Messages, queue' = [queue EXCEPT ![s] = Append(queue[s], m)],
           UNCHANGED <<inbox, outbox>>, NEW t \in Sockets, NEW c \in Calls, Underway(t, c)'
    PROVE  Underway(t, c) \/ (t = s /\ m = [kind |-> "request", task |-> c])
<1>0. queue \in [Sockets -> Seq(Messages)] /\ queue[s] \in Seq(Messages)
  BY DEF TypeOK
<1>1. CASE t # s
  <2>1. queue'[t] = queue[t]
    BY <1>0, <1>1
  <2> QED BY <2>1 DEF Underway
<1>2. CASE t = s
  <2>1. queue'[s] = Append(queue[s], m)
    BY <1>0
  <2>2. ASSUME NEW i \in DOMAIN Append(queue[s], m)
        PROVE  Append(queue[s], m)[i] = m \/ (i \in DOMAIN queue[s] /\ Append(queue[s], m)[i] = queue[s][i])
    BY <1>0, <2>2, AppendProperties, LenProperties
  <2> QED BY <1>2, <2>1, <2>2 DEF Underway
<1> QED BY <1>1, <1>2

\* Only a dispatch brings a message of its own.
LEMMA MessagesMove ==
    ASSUME TypeOK, SessionsInv, [Next]_vars
    PROVE  \A s \in Sockets, c \in Calls :
               Underway(s, c)' => Underway(s, c) \/ (CallAsks(c) /\ session'[c] = s)
<1>0. /\ inbox \in [Sockets -> SUBSET Calls] /\ outbox \in [Sockets -> SUBSET Calls]
      /\ queue \in [Sockets -> Seq(Messages)]
      /\ cpc \in [Sweepers -> {"idle", "listed", "dropping", "found", "waiting", "done"}]
      /\ session \in [Calls -> Sockets \cup {None}]
      /\ future \in [Calls -> {"none", "open", "result", "disconnected"}]
      /\ Calls \subseteq Sweepers
  BY DEF TypeOK, Sweepers
<1> DEFINE Known == \A s \in Sockets, c \in Calls :
                        Underway(s, c)' => Underway(s, c) \/ (CallAsks(c) /\ session'[c] = s)
<1>1. CASE UNCHANGED <<inbox, outbox, queue>>
  BY <1>1 DEF Underway
<1>2. ASSUME NEW s \in Sockets, HangUp(s), UNCHANGED queue PROVE Known
  BY <1>0, <1>2 DEF HangUp, Underway
<1>3. ASSUME NEW s \in Sockets, NEW c \in Calls, WorkerAnswers(s, c) \/ ReceiveResult(s, c) PROVE Known
  <2>1. CASE WorkerAnswers(s, c)
    BY <1>0, <2>1 DEF WorkerAnswers, Underway
  <2>2. CASE ReceiveResult(s, c)
    BY <1>0, <2>2 DEF ReceiveResult, Underway
  <2> QED BY <1>3, <2>1, <2>2
<1>4. ASSUME NEW s \in Sockets, WorkerLost(s) PROVE Known
  BY <1>0, <1>4 DEF WorkerLost, Underway
<1>5. ASSUME NEW s \in Sockets, Close(s) PROVE Known
  <2>1. UNCHANGED <<inbox, outbox>> /\ queue' = [queue EXCEPT ![s] = <<>>]
    BY <1>5 DEF Close
  <2>2. DOMAIN <<>> = {}
    OBVIOUS
  <2>3. \A t \in Sockets : queue'[t] = IF t = s THEN <<>> ELSE queue[t]
    BY <1>0, <2>1
  <2> QED BY <2>1, <2>2, <2>3 DEF Underway
<1>6. CASE RestartCore
  <2>1. \A t \in Sockets : inbox'[t] = {} /\ outbox'[t] = {} /\ queue'[t] = <<>>
    BY <1>6 DEF RestartCore
  <2>2. DOMAIN <<>> = {}
    OBVIOUS
  <2> QED BY <2>1, <2>2 DEF Underway
<1>7. ASSUME NEW s \in Sockets, Send(s) PROVE Known
  BY <1>7, SendMessages
<1>8. ASSUME NEW d \in Calls, Dispatch(d) PROVE Known
  <2>1. CASE UNCHANGED queue
    BY <1>1, <1>8, <2>1 DEF Dispatch
  <2>2. CASE ~UNCHANGED queue
    <3> DEFINE m == [kind |-> "request", task |-> d]
    <3> PICK s : s = conn[want[d]]
      OBVIOUS
    <3>1. /\ cpc[d] = "found" /\ s # None /\ UNCHANGED <<inbox, outbox>>
          /\ queue' = [queue EXCEPT ![s] = Append(queue[s], m)]
          /\ session' = [session EXCEPT ![d] = s]
          /\ future' = [future EXCEPT ![d] = "open"] /\ cpc' = [cpc EXCEPT ![d] = "waiting"]
      BY <1>8, <2>2 DEF Dispatch
    <3>2. s \in Sockets /\ m \in Messages
      BY <3>1 DEF Messages, SessionsInv, ProbesKnowTheirSession, TypeOK
    <3>3. CallAsks(d) /\ session'[d] = s
      BY <1>0, <3>1 DEF CallAsks
    <3>4. ASSUME NEW t \in Sockets, NEW c \in Calls, Underway(t, c)'
          PROVE  Underway(t, c) \/ (CallAsks(c) /\ session'[c] = t)
      <4>1. Underway(t, c) \/ (t = s /\ m = [kind |-> "request", task |-> c])
        BY <3>1, <3>2, <3>4, Appended
      <4>2. ASSUME m = [kind |-> "request", task |-> c]
            PROVE  c = d
        <5>1. m.task = d /\ [kind |-> "request", task |-> c].task = c
          OBVIOUS
        <5> QED BY <4>2, <5>1
      <4> QED BY <3>3, <4>1, <4>2
    <3> QED BY <3>4
  <2> QED BY <2>1, <2>2
<1>9. ASSUME NEW d \in Calls, ProbeTimesOut(d) PROVE Known
  <2> DEFINE m == [kind |-> "cancel", task |-> d]
  <2> PICK s : s = session[d]
    OBVIOUS
  <2>1. s \in Sockets /\ m \in Messages /\ UNCHANGED <<inbox, outbox>>
    BY <1>0, <1>9 DEF Messages, SessionsInv, ProbesKnowTheirSession, ProbeTimesOut
  <2>2. queue' = [queue EXCEPT ![s] = Append(queue[s], m)] \/ queue' = queue
    <3>1. \/ queue' = [queue EXCEPT ![s] = Append(queue[s], m)]
          \/ queue' = [queue EXCEPT ![s] = queue[s]]
      BY <1>9 DEF ProbeTimesOut
    <3> QED BY <1>0, <3>1
  <2>3. \A c : m # [kind |-> "request", task |-> c]
    <3>1. m.kind = "cancel" /\ \A c : [kind |-> "request", task |-> c].kind = "request"
      OBVIOUS
    <3> QED BY <3>1
  <2>4. CASE queue' = [queue EXCEPT ![s] = Append(queue[s], m)]
    BY <2>1, <2>3, <2>4, Appended
  <2> QED BY <1>1, <2>1, <2>2, <2>4
<1>10. ASSUME NEW s \in Sockets, Connect(s) \/ Heartbeat(s) \/ LossNoticed(s) PROVE Known
  <2>1. UNCHANGED queue /\ (HangUp(s) \/ UNCHANGED <<inbox, outbox>>)
    BY <1>10 DEF Connect, Heartbeat, LossNoticed
  <2> QED BY <1>1, <1>2, <2>1
<1>11. ASSUME NEW s \in Sockets, Enroll(s) \/ \E n \in Nodes : Open(s, n) PROVE Known
  BY <1>1, <1>11 DEF Enroll, Open
<1>12. ASSUME NEW c \in Sweepers, \/ SweepRead(c) \/ SweepWrite(c)
                                  \/ \E m \in Nodes : SweepDrop(c, m)
       PROVE  Known
  BY <1>1, <1>12 DEF SweepRead, SweepWrite, SweepDrop
<1>13. ASSUME NEW c \in Calls, ProbeReturns(c) \/ \E n \in Nodes : ReadNode(c, n) PROVE Known
  BY <1>1, <1>13 DEF ProbeReturns, ReadNode
<1>14. ASSUME NEW a \in Admins, DropDisabled(a) PROVE Known
  BY <1>1, <1>14 DEF DropDisabled
<1>15. ASSUME NEW n \in Nodes, Age(n) \/ \E a \in Admins : Disable(a, n) \/ Enable(a, n) PROVE Known
  BY <1>1, <1>15 DEF Age, Disable, Enable
<1>16. ASSUME NEW d \in Leavers, TakeOffline(d) PROVE Known
  BY <1>1, <1>16 DEF TakeOffline
<1>17. CASE LoopSleeps
  BY <1>1, <1>17 DEF LoopSleeps
<1>18. CASE UNCHANGED vars
  BY <1>1, <1>18 DEF vars
<1>19. CASE Core
  BY <1>3, <1>5, <1>6, <1>7, <1>8, <1>9, <1>10, <1>11, <1>12, <1>13, <1>14, <1>15, <1>16, <1>17, <1>19 DEF Core
<1>20. CASE Workers
  BY <1>3, <1>4, <1>10, <1>11, <1>15, <1>20 DEF Workers
<1>21. Known
  BY <1>18, <1>19, <1>20 DEF Next
<1> QED BY <1>21 DEF Known

\* Calls, their futures and their messages stay together.
LEMMA AnswersI ==
    ASSUME IInv, AnswersInv, [Next]_vars
    PROVE  AnswersInv'
<1>1. \A c \in Calls : CallEnds(c) \/ CallAsks(c) \/ CallGoesOn(c)
  BY CallsMove DEF IInv, AnswersInv
<1>2. ProbesHaveFutures'
  BY <1>1 DEF AnswersInv, ProbesHaveFutures, CallEnds, CallAsks, CallGoesOn
<1>3. MessagesKnowTheirCall'
  <2>1. SUFFICES ASSUME NEW s \in Sockets, NEW c \in Calls, Underway(s, c)'
                 PROVE  cpc'[c] = "done" \/ (cpc'[c] = "waiting" /\ session'[c] = s)
    BY DEF MessagesKnowTheirCall
  <2>2. Underway(s, c) \/ (CallAsks(c) /\ session'[c] = s)
    BY <2>1, MessagesMove DEF IInv
  <2>3. Underway(s, c) => cpc[c] = "done" \/ (cpc[c] = "waiting" /\ session[c] = s)
    BY DEF AnswersInv, MessagesKnowTheirCall
  <2> QED BY <1>1, <2>2, <2>3 DEF CallEnds, CallAsks, CallGoesOn
<1> QED BY <1>2, <1>3 DEF AnswersInv

-----------------------------------------------------------------------------
(* Limits.                                                                 *)

\* The nodes with a session, and the calls of a session, are finite sets.
LEMMA Countable ==
    ASSUME TypeOK
    PROVE  /\ IsFiniteSet({n \in Nodes : conn[n] # None}) /\ Cardinality({n \in Nodes : conn[n] # None}) \in Nat
           /\ \A s \in Sockets : IsFiniteSet(pending[s]) /\ Cardinality(pending[s]) \in Nat
           /\ others \in Nat
<1>1. IsFiniteSet({n \in Nodes : conn[n] # None})
  BY FS_Subset, WorkerAssumption
<1>2. \A s \in Sockets : IsFiniteSet(pending[s])
  <2> SUFFICES ASSUME NEW s \in Sockets PROVE IsFiniteSet(pending[s])
    OBVIOUS
  <2>1. pending[s] \in SUBSET Calls /\ IsFiniteSet(Calls)
    BY WorkerAssumption DEF TypeOK
  <2> QED BY <2>1, FS_Subset
<1> QED BY <1>1, <1>2, FS_CardinalityType, Numbers DEF TypeOK

\* No session is opened and no probe dispatched.
LEMMA LimitsFrame ==
    ASSUME TypeOK, LimitsHold, UNCHANGED others,
           \A n \in Nodes : conn'[n] # None => conn[n] # None,
           \A s \in Sockets : pending'[s] \subseteq pending[s]
    PROVE  LimitsHold'
<1>1. Sessions' <= MaxConnections
  <2> PICK N : N = {n \in Nodes : conn[n] # None}
    OBVIOUS
  <2> PICK M : M = {n \in Nodes : conn'[n] # None}
    OBVIOUS
  <2>1. M \in SUBSET N /\ IsFiniteSet(N) /\ Cardinality(N) \in Nat /\ others \in Nat
    BY Countable
  <2>2. IsFiniteSet(M) /\ Cardinality(M) <= Cardinality(N)
    BY <2>1, FS_Subset
  <2>3. Cardinality(M) \in Nat
    BY <2>2, FS_CardinalityType
  <2>4. Sessions = others + Cardinality(N) /\ Sessions' = others + Cardinality(M)
    BY DEF Sessions
  <2> QED BY <2>1, <2>2, <2>3, <2>4, Numbers DEF LimitsHold
<1>2. \A s \in Sockets : Cardinality(pending'[s]) <= MaxTasks
  <2> SUFFICES ASSUME NEW s \in Sockets PROVE Cardinality(pending'[s]) <= MaxTasks
    OBVIOUS
  <2>1. /\ pending'[s] \in SUBSET pending[s] /\ IsFiniteSet(pending[s])
        /\ Cardinality(pending[s]) \in Nat /\ Cardinality(pending[s]) <= MaxTasks
    BY Countable DEF LimitsHold
  <2>2. IsFiniteSet(pending'[s]) /\ Cardinality(pending'[s]) <= Cardinality(pending[s])
    BY <2>1, FS_Subset
  <2>3. Cardinality(pending'[s]) \in Nat
    BY <2>2, FS_CardinalityType
  <2> QED BY <2>1, <2>2, <2>3, Numbers
<1> QED BY <1>1, <1>2 DEF LimitsHold

\* Connect: a session more only where there is room for it.
LEMMA ConnectLimits ==
    ASSUME TypeOK, SessionsInv, LimitsHold, NEW s \in Sockets, Connect(s)
    PROVE  LimitsHold'
<1> PICK n : n = node[s]
  OBVIOUS
<1>1. n \in Nodes /\ s # None /\ UNCHANGED others
  BY WorkerAssumption DEF Connect, SessionsInv, HandlersKnowTheirNode, TypeOK
<1>2. CASE UNCHANGED <<conn, pending>>
  BY <1>1, <1>2, LimitsFrame
<1>3. CASE ~LimitReached(n) /\ conn' = [conn EXCEPT ![n] = s] /\ FailPending(n) /\ UNCHANGED <<cpc, session>>
  <2>1. /\ conn'[n] = s /\ \A m \in Nodes : m # n => conn'[m] = conn[m]
        /\ \A t \in Sockets : pending'[t] \subseteq pending[t]
    BY <1>1, <1>3, Popped DEF TypeOK
  <2>2. CASE conn[n] # None
    BY <1>1, <2>1, <2>2, LimitsFrame
  <2>3. CASE conn[n] = None
    <3> PICK N : N = {m \in Nodes : conn[m] # None}
      OBVIOUS
    <3>1. IsFiniteSet(N) /\ Cardinality(N) \in Nat /\ others \in Nat
      BY Countable
    <3>2. {m \in Nodes : conn'[m] # None} = N \cup {n} /\ n \notin N
      BY <1>1, <2>1, <2>3
    <3>3. Cardinality(N \cup {n}) = Cardinality(N) + 1
      BY <3>1, <3>2, FS_AddElement
    <3>4. others + Cardinality(N) < MaxConnections
      BY <1>3, <2>3, <3>1, Numbers DEF LimitReached, Sessions
    <3>5. Sessions' <= MaxConnections
      BY <1>1, <3>1, <3>2, <3>3, <3>4, Numbers DEF Sessions
    <3>6. ASSUME NEW t \in Sockets
          PROVE  Cardinality(pending'[t]) <= MaxTasks
      <4>1. /\ pending'[t] \in SUBSET pending[t] /\ IsFiniteSet(pending[t])
            /\ Cardinality(pending[t]) \in Nat /\ Cardinality(pending[t]) <= MaxTasks
        BY <2>1, Countable DEF LimitsHold
      <4>2. IsFiniteSet(pending'[t]) /\ Cardinality(pending'[t]) <= Cardinality(pending[t])
        BY <4>1, FS_Subset
      <4>3. Cardinality(pending'[t]) \in Nat
        BY <4>2, FS_CardinalityType
      <4> QED BY <4>1, <4>2, <4>3, Numbers
    <3> QED BY <3>5, <3>6 DEF LimitsHold
  <2> QED BY <2>2, <2>3
<1> QED BY <1>2, <1>3 DEF Connect

\* Dispatch: a call more only in a session with room for it.
LEMMA DispatchLimits ==
    ASSUME TypeOK, LimitsHold, NEW c \in Calls, Dispatch(c)
    PROVE  LimitsHold'
<1> PICK s : s = conn[want[c]]
  OBVIOUS
<1>1. UNCHANGED <<others, conn>>
  BY DEF Dispatch
<1>2. CASE UNCHANGED pending
  BY <1>1, <1>2, LimitsFrame
<1>3. CASE HasRoom(s) /\ pending' = [pending EXCEPT ![s] = @ \cup {c}]
  <2>1. Sessions' <= MaxConnections
    BY <1>1 DEF Sessions, LimitsHold
  <2>2. ASSUME NEW t \in Sockets
        PROVE  Cardinality(pending'[t]) <= MaxTasks
    <3>1. CASE t = s
      <4>1. pending'[t] = pending[t] \cup {c} /\ Cardinality(pending[t]) < MaxTasks
        BY <1>3, <3>1 DEF HasRoom, TypeOK
      <4>2. IsFiniteSet(pending[t]) /\ Cardinality(pending[t]) \in Nat
        BY Countable
      <4> PICK k : k = Cardinality(pending[t])
        OBVIOUS
      <4>3. Cardinality(pending[t] \cup {c}) = IF c \in pending[t] THEN k ELSE k + 1
        BY <4>2, FS_AddElement
      <4>4. k \in Nat /\ k < MaxTasks
        BY <4>1, <4>2
      <4>5. Cardinality(pending'[t]) \in {k, k + 1}
        BY <4>1, <4>3
      <4> QED BY <4>4, <4>5, Numbers
    <3>2. CASE t # s
      BY <1>3, <3>2 DEF TypeOK, LimitsHold
    <3> QED BY <3>1, <3>2
  <2> QED BY <2>1, <2>2 DEF LimitsHold
<1> QED BY <1>2, <1>3 DEF Dispatch

\* Every step keeps the limits.
LEMMA LimitsI ==
    ASSUME TypeOK, SessionsInv, LimitsHold, [Next]_vars
    PROVE  LimitsHold'
<1>1. CASE UNCHANGED <<conn, others, pending>>
  BY <1>1, LimitsFrame
<1>2. ASSUME NEW n \in Nodes, PopSession(n), UNCHANGED <<others, cpc, session>>
      PROVE  LimitsHold'
  <2>1. \A m \in Nodes : conn'[m] # None => conn[m] # None
    BY <1>2 DEF PopSession, TypeOK
  <2>2. \A s \in Sockets : pending'[s] \subseteq pending[s]
    BY <1>2, Popped DEF PopSession
  <2> QED BY <1>2, <2>1, <2>2, LimitsFrame
<1>3. ASSUME NEW s \in Sockets, Close(s) PROVE LimitsHold'
  <2>1. node[s] \in Nodes
    BY <1>3 DEF Close, SessionsInv, HandlersKnowTheirNode, TypeOK
  <2> QED BY <1>2, <1>3, <2>1 DEF Close
<1>4. ASSUME NEW c \in Sweepers, NEW m \in Nodes, SweepDrop(c, m) PROVE LimitsHold'
  BY <1>2, <1>4 DEF SweepDrop
<1>5. ASSUME NEW a \in Admins, DropDisabled(a) PROVE LimitsHold'
  <2>1. disabling[a] \in Nodes
    BY <1>5 DEF DropDisabled, TypeOK
  <2> QED BY <1>2, <1>5, <2>1 DEF DropDisabled
<1>6. ASSUME NEW s \in Sockets, NEW c \in Calls, ReceiveResult(s, c) PROVE LimitsHold'
  <2>1. UNCHANGED <<conn, others>> /\ pending' \in {[pending EXCEPT ![conn[node[s]]] = @ \ {c}], pending}
    BY <1>6 DEF ReceiveResult
  <2>2. \A t \in Sockets : pending'[t] \subseteq pending[t]
    BY <2>1 DEF TypeOK
  <2> QED BY <2>1, <2>2, LimitsFrame
<1>7. ASSUME NEW c \in Calls, ProbeTimesOut(c) PROVE LimitsHold'
  <2>1. UNCHANGED <<conn, others>> /\ pending' = [pending EXCEPT ![session[c]] = pending[session[c]] \ {c}]
    BY <1>7 DEF ProbeTimesOut
  <2>2. \A t \in Sockets : pending'[t] \subseteq pending[t]
    BY <2>1 DEF TypeOK
  <2> QED BY <2>1, <2>2, LimitsFrame
<1>8. CASE RestartCore
  <2>1. UNCHANGED others /\ (\A n \in Nodes : conn'[n] = None) /\ \A s \in Sockets : pending'[s] = {}
    BY <1>8 DEF RestartCore
  <2> QED BY <2>1, LimitsFrame
<1>9. ASSUME NEW s \in Sockets, \/ Enroll(s) \/ Send(s) \/ Heartbeat(s) \/ WorkerLost(s) \/ LossNoticed(s)
                                \/ (\E n \in Nodes : Open(s, n)) \/ \E c \in Calls : WorkerAnswers(s, c)
      PROVE  UNCHANGED <<conn, others, pending>>
  BY <1>9 DEF Enroll, Send, Heartbeat, WorkerLost, LossNoticed, Open, WorkerAnswers
<1>10. ASSUME \/ LoopSleeps \/ (\E d \in Leavers : TakeOffline(d)) \/ (\E n \in Nodes : Age(n))
              \/ (\E c \in Sweepers : SweepRead(c) \/ SweepWrite(c))
              \/ (\E c \in Calls : ProbeReturns(c) \/ \E n \in Nodes : ReadNode(c, n))
              \/ (\E a \in Admins, n \in Nodes : Disable(a, n) \/ Enable(a, n)) \/ UNCHANGED vars
       PROVE  UNCHANGED <<conn, others, pending>>
  BY <1>10 DEF LoopSleeps, TakeOffline, Age, SweepRead, SweepWrite, ProbeReturns, ReadNode, Disable, Enable, vars
<1> QED BY <1>1, <1>3, <1>4, <1>5, <1>6, <1>7, <1>8, <1>9, <1>10, ConnectLimits, DispatchLimits
        DEF Next, Core, Workers

-----------------------------------------------------------------------------
(* The invariant and the properties.                                       *)

\* The Core starts without sessions and within its limits.
LEMMA InitI == Init => IInv
<1> SUFFICES ASSUME Init PROVE IInv
  OBVIOUS
<1>1. TypeOK
  <2>1. <<>> \in Seq(Messages) /\ Len(<<>>) <= MaxMessages /\ 0 \in 0..MaxRestarts
    BY Numbers
  <2>2. queue \in [Sockets -> Seq(Messages)] /\ \A s \in Sockets : Len(queue[s]) <= MaxMessages
    BY <2>1 DEF Init
  <2> QED BY <2>1, <2>2 DEF Init, TypeOK
<1>2. /\ \A n \in Nodes : conn[n] = None
      /\ \A s \in Sockets : pending[s] = {} /\ spc[s] = "unused" /\ node[s] = None
      /\ \A c \in Calls : cpc[c] = "idle"
  BY DEF Init, Sweepers
<1>3. SessionsInv
  BY <1>2 DEF SessionsInv, HandlersKnowTheirNode, ProbesKnowTheirSession, NoGhostSession, PendingIsExact
<1>4. LimitsHold
  <2>1. {n \in Nodes : conn[n] # None} = {}
    BY <1>2
  <2>2. Cardinality({}) = 0
    BY FS_EmptySet
  <2>3. others \in 0..MaxConnections
    BY DEF Init
  <2>4. Sessions = others + 0
    BY <2>1, <2>2 DEF Sessions
  <2>5. Sessions <= MaxConnections
    BY <2>3, <2>4, Numbers
  <2>6. \A s \in Sockets : Cardinality(pending[s]) <= MaxTasks
    BY <1>2, <2>2, Numbers
  <2> QED BY <2>5, <2>6 DEF LimitsHold
<1> QED BY <1>1, <1>3, <1>4 DEF IInv

\* Every step preserves the invariant.
LEMMA NextI == IInv /\ [Next]_vars => IInv'
<1> SUFFICES ASSUME TypeOK, SessionsInv, LimitsHold, [Next]_vars PROVE IInv'
  BY DEF IInv
<1>1. TypeOK'
  <2>1. CASE Core
    BY <2>1, SocketTypes, ServiceTypes DEF Core, SessionsInv
  <2>2. CASE Workers
    BY <2>2, SocketTypes, ServiceTypes DEF Workers, SessionsInv
  <2>3. CASE UNCHANGED vars
    BY <2>3 DEF vars, TypeOK
  <2> QED BY <2>1, <2>2, <2>3 DEF Next
<1>2. SessionsInv' /\ LimitsHold'
  BY SessionsI, LimitsI
<1> QED BY <1>1, <1>2 DEF IInv

\* Handlers, sessions, probes and limits agree in every state.
THEOREM Invariance == Spec => []IInv
<1> QED BY InitI, NextI, PTL DEF Spec

\* The types of the variables, worker_max_messages among them.
THEOREM TypeCorrect == Spec => []TypeOK
<1>1. IInv => TypeOK
  BY DEF IInv
<1> QED BY <1>1, Invariance, PTL

\* probe, disconnect, connect and finish: no caller is forgotten in a session,
\* and no entry stays behind.
THEOREM NoProbeForgotten == Spec => []PendingIsExact
<1>1. IInv => PendingIsExact
  BY DEF IInv, SessionsInv
<1> QED BY <1>1, Invariance, PTL

\* A session has a handler that will end it.
THEOREM SessionsHaveHandlers == Spec => []NoGhostSession
<1>1. IInv => NoGhostSession
  BY DEF IInv, SessionsInv
<1> QED BY <1>1, Invariance, PTL

\* worker_max_connections and worker_max_tasks are never exceeded.
THEOREM LimitsAreKept == Spec => []LimitsHold
<1>1. IInv => LimitsHold
  BY DEF IInv
<1> QED BY <1>1, Invariance, PTL

-----------------------------------------------------------------------------
(* Answers, and the refinement of SessionContract.                         *)

\* IInv and what is known of requests and answers, together.
LEMMA AnswersInvariance == Spec => [](IInv /\ AnswersInv)
<1>1. Init => AnswersInv
  <2> SUFFICES ASSUME Init PROVE AnswersInv
    OBVIOUS
  <2>1. \A c \in Calls : cpc[c] = "idle" /\ future[c] = "none" /\ session[c] = None
    BY DEF Init, Sweepers
  <2>2. \A s \in Sockets : inbox[s] = {} /\ outbox[s] = {} /\ queue[s] = <<>>
    BY DEF Init
  <2>3. DOMAIN <<>> = {}
    OBVIOUS
  <2> QED BY <2>1, <2>2, <2>3 DEF AnswersInv, ProbesHaveFutures, MessagesKnowTheirCall, Underway
<1>2. IInv /\ AnswersInv /\ [Next]_vars => AnswersInv'
  BY AnswersI
<1> QED BY <1>1, <1>2, Invariance, PTL DEF Spec

\* Only the handler of a socket brings an answer.
LEMMA AnswerArrives ==
    ASSUME TypeOK, [Next]_vars, NEW c \in Calls, future[c] = "open", future'[c] = "result"
    PROVE  \E s \in Sockets : ReceiveResult(s, c)
<1>0. future \in [Calls -> {"none", "open", "result", "disconnected"}]
  BY DEF TypeOK
<1>1. future' # future
  OBVIOUS
<1>2. ASSUME NEW n, FailPending(n) PROVE FALSE
  BY <1>2 DEF FailPending
<1>3. ASSUME NEW d \in Calls, EndProbe(d) PROVE FALSE
  BY <1>0, <1>3 DEF EndProbe
<1>4. ASSUME NEW s \in Sockets, NEW d \in Calls, ReceiveResult(s, d) PROVE d = c
  BY <1>0, <1>4 DEF ReceiveResult
<1>5. ~RestartCore
  BY DEF RestartCore
<1>6. ASSUME NEW d \in Calls, Dispatch(d) PROVE FALSE
  <2>1. future' = [future EXCEPT ![d] = "open"]
    BY <1>3, <1>6 DEF Dispatch
  <2> QED BY <1>0, <2>1
<1>7. ASSUME NEW s \in Sockets, \/ Enroll(s) \/ Connect(s) \/ Send(s) \/ Close(s) \/ Heartbeat(s)
                                \/ WorkerLost(s) \/ LossNoticed(s)
                                \/ (\E n \in Nodes : Open(s, n)) \/ \E d \in Calls : WorkerAnswers(s, d)
      PROVE  FALSE
  BY <1>1, <1>2, <1>7 DEF Enroll, Connect, Send, Close, PopSession, Heartbeat, WorkerLost, LossNoticed, Open,
     WorkerAnswers
<1>8. ASSUME NEW d \in Sweepers, \/ SweepRead(d) \/ SweepWrite(d)
                                 \/ \E m \in Nodes : SweepDrop(d, m)
      PROVE  FALSE
  BY <1>1, <1>2, <1>8 DEF SweepRead, SweepWrite, SweepDrop, PopSession
<1>9. ASSUME NEW d \in Calls, \/ ProbeReturns(d) \/ ProbeTimesOut(d)
                              \/ \E n \in Nodes : ReadNode(d, n)
      PROVE  FALSE
  BY <1>1, <1>3, <1>9 DEF ProbeReturns, ProbeTimesOut, ReadNode
<1>10. ASSUME NEW a \in Admins, \/ DropDisabled(a)
                                \/ \E n \in Nodes : Disable(a, n) \/ Enable(a, n)
       PROVE  FALSE
  BY <1>1, <1>2, <1>10 DEF DropDisabled, PopSession, Disable, Enable
<1>11. ASSUME NEW d \in Leavers, TakeOffline(d) PROVE FALSE
  BY <1>1, <1>11 DEF TakeOffline
<1>12. ~LoopSleeps /\ (\A n \in Nodes : ~Age(n)) /\ ~UNCHANGED vars
  BY <1>1 DEF LoopSleeps, Age, vars
<1> QED BY <1>4, <1>5, <1>6, <1>7, <1>8, <1>9, <1>10, <1>11, <1>12 DEF Next, Core, Workers

\* A probe is answered only through the socket that it was sent through: the handler of
\* an old socket may still read answers when its node has another session, but never
\* finds one of that session's calls among them.
THEOREM AnswersComeBack == Spec => AnswersAreOwn
<1>1. ASSUME IInv, AnswersInv, [Next]_vars, NEW c \in Calls, future[c] = "open", future'[c] = "result"
      PROVE  c \in outbox[session[c]]
  <2>1. PICK s \in Sockets : ReceiveResult(s, c)
    BY <1>1, AnswerArrives DEF IInv
  <2>2. c \in outbox[s]
    BY <2>1 DEF ReceiveResult
  <2>3. cpc[c] = "waiting"
    BY <1>1 DEF AnswersInv, ProbesHaveFutures
  <2>4. session[c] = s
    BY <1>1, <2>2, <2>3 DEF AnswersInv, MessagesKnowTheirCall, Underway
  <2> QED BY <2>2, <2>4
<1>2. IInv /\ AnswersInv /\ [Next]_vars
        => [\A c \in Calls : future[c] = "open" /\ future'[c] = "result" => c \in outbox[session[c]]]_vars
  BY <1>1
<1> QED BY <1>2, AnswersInvariance, PTL DEF Spec, AnswersAreOwn

\* What shows of the handlers stays when no handler changes phase.
LEMMA HandlersStay ==
    ASSUME \A s \in Sockets : Phase(spc'[s]) = Phase(spc[s])
    PROVE  Handlers' = Handlers
BY DEF Handlers

\* And moves with one handler.
LEMMA HandlerMoves ==
    ASSUME TypeOK, NEW s \in Sockets, NEW point, spc' = [spc EXCEPT ![s] = point]
    PROVE  Handlers' = [Handlers EXCEPT ![s] = Phase(point)]
BY DEF Handlers, TypeOK

\* The phases of a handler.
LEMMA Phases ==
    /\ Phase("unused") = "new" /\ Phase("hello") = "new" /\ Phase("enrolled") = "new"
    /\ Phase("serving") = "serving" /\ Phase("closing") = "serving" /\ Phase("closed") = "returned"
BY DEF Phase

\* Dropping a session tells exactly its callers.
LEMMA LostAreTold ==
    ASSUME TypeOK, SessionsInv, ProbesHaveFutures, NEW n \in Nodes, NEW s \in Sockets \cup {None},
           FailPending(n), conn' = [conn EXCEPT ![n] = s], UNCHANGED <<cpc, session>>,
           s # None => spc[s] = "enrolled"
    PROVE  Contract!TellTheLost
<1>1. ASSUME NEW c \in Calls
      PROVE  Answers'[c] = IF Answers[c] = "open" /\ \A m \in Nodes : conn'[m] # session[c]
                           THEN "disconnected" ELSE Answers[c]
  <2>0. /\ Answers[c] = (IF cpc[c] = "done" THEN "over" ELSE future[c])
        /\ Answers'[c] = (IF cpc[c] = "done" THEN "over" ELSE future'[c])
        /\ conn'[n] = s /\ \A m \in Nodes : m # n => conn'[m] = conn[m]
    BY DEF Answers, TypeOK
  <2>1. CASE cpc[c] = "done"
    BY <2>0, <2>1
  <2>2. CASE future[c] # "open"
    <3>1. future'[c] = future[c]
      BY <2>2 DEF FailPending
    <3> QED BY <2>0, <2>2, <3>1
  <2>3. CASE cpc[c] # "done" /\ future[c] = "open"
    <3> DEFINE t == session[c]
    <3>1. cpc[c] = "waiting" /\ t \in Sockets
      BY <2>3 DEF ProbesHaveFutures, TypeOK
    <3>2. c \in pending[t] /\ node[t] # None /\ conn[node[t]] = t
      BY <2>3, <3>1, PendingKnown
    <3>3. node[t] \in Nodes /\ t # None
      BY <3>1, <3>2, WorkerAssumption DEF TypeOK
    <3>4. \A m \in Nodes : conn[m] = t => node[t] = m /\ spc[t] \in {"serving", "closing"}
      BY <3>3 DEF SessionsInv, NoGhostSession
    <3>5. CASE conn[n] = t
      <4>1. future'[c] = "disconnected"
        BY <2>3, <3>2, <3>3, <3>5 DEF FailPending
      <4>2. s # t
        BY <3>3, <3>4, <3>5
      <4>3. \A m \in Nodes : conn'[m] # t
        BY <2>0, <3>4, <3>5, <4>2
      <4> QED BY <2>0, <2>3, <4>1, <4>3
    <3>6. CASE conn[n] # t
      <4>1. future'[c] = "open"
        <5>1. conn[n] \in Sockets => c \notin pending[conn[n]]
          BY <3>6, PendingKnown
        <5>2. conn[n] \in Sockets \cup {None}
          BY DEF TypeOK
        <5> QED BY <2>3, <5>1, <5>2 DEF FailPending
      <4>2. conn'[node[t]] = t
        BY <2>0, <3>2, <3>3, <3>6
      <4> QED BY <2>0, <2>3, <3>3, <4>1, <4>2
    <3> QED BY <3>5, <3>6
  <2> QED BY <2>1, <2>2, <2>3
<1>2. Answers' = [c \in Calls |-> Answers'[c]]
  BY DEF Answers
<1> QED BY <1>1, <1>2 DEF Contract!TellTheLost

\* What shows of the calls stays, or moves with one call.
LEMMA AnswersStay ==
    ASSUME \A c \in Calls : /\ cpc'[c] = "done" <=> cpc[c] = "done"
                            /\ cpc[c] # "done" => future'[c] = future[c]
    PROVE  Answers' = Answers
<1>1. \A c \in Calls : (IF cpc'[c] = "done" THEN "over" ELSE future'[c]) = IF cpc[c] = "done" THEN "over" ELSE future[c]
  OBVIOUS
<1> QED BY <1>1 DEF Answers

\* The end of a call.
LEMMA CallEndIsContract ==
    ASSUME TypeOK, ProbesHaveFutures, NEW c \in Calls,
           cpc[c] # "done", cpc' = [cpc EXCEPT ![c] = "done"], UNCHANGED <<conn, spc>>,
           \/ cpc[c] # "waiting" /\ UNCHANGED <<session, future>>
           \/ /\ session' = [session EXCEPT ![c] = None]
              /\ future' = [future EXCEPT ![c] = "none"]
    PROVE  Contract!End(c)
<1>0. /\ cpc \in [Sweepers -> {"idle", "listed", "dropping", "found", "waiting", "done"}]
      /\ session \in [Calls -> Sockets \cup {None}]
      /\ future \in [Calls -> {"none", "open", "result", "disconnected"}] /\ Calls \subseteq Sweepers
  BY DEF TypeOK, Sweepers
<1>1. Answers[c] # "over"
  BY <1>0 DEF Answers
<1>2. session' = [session EXCEPT ![c] = None]
  <2>1. CASE cpc[c] # "waiting" /\ UNCHANGED <<session, future>>
    <3>1. session[c] = None
      BY <2>1 DEF ProbesHaveFutures
    <3> QED BY <1>0, <2>1, <3>1
  <2> QED BY <2>1
<1>3. Answers' = [Answers EXCEPT ![c] = "over"]
  <2>1. cpc'[c] = "done" /\ \A d \in Calls : d # c => cpc'[d] = cpc[d] /\ future'[d] = future[d]
    BY <1>0
  <2> QED BY <2>1 DEF Answers
<1>4. Handlers' = Handlers
  BY HandlersStay
<1> QED BY <1>1, <1>2, <1>3, <1>4 DEF Contract!End

\* A dispatch asks in the present session of the node, or ends the call.
LEMMA DispatchIsContract ==
    ASSUME TypeOK, SessionsInv, ProbesHaveFutures, NEW c \in Calls, Dispatch(c)
    PROVE  Contract!CNext
<1>0. /\ cpc \in [Sweepers -> {"idle", "listed", "dropping", "found", "waiting", "done"}]
      /\ future \in [Calls -> {"none", "open", "result", "disconnected"}] /\ Calls \subseteq Sweepers
  BY DEF TypeOK, Sweepers
<1>1. cpc[c] = "found" /\ UNCHANGED <<conn, spc>>
  BY DEF Dispatch
<1>2. CASE EndProbe(c)
  <2>1. Contract!End(c)
    BY <1>1, <1>2, CallEndIsContract DEF EndProbe
  <2> QED BY <2>1 DEF Contract!CNext
<1>3. CASE ~EndProbe(c)
  <2> PICK n : n = want[c]
    OBVIOUS
  <2>1. n \in Nodes
    BY <1>1 DEF SessionsInv, ProbesKnowTheirSession, TypeOK
  <2>2. /\ conn[n] # None /\ session' = [session EXCEPT ![c] = conn[n]]
        /\ future' = [future EXCEPT ![c] = "open"] /\ cpc' = [cpc EXCEPT ![c] = "waiting"]
    BY <1>3 DEF Dispatch
  <2>3. Answers[c] = "none"
    BY <1>1 DEF Answers, ProbesHaveFutures
  <2>4. Answers' = [Answers EXCEPT ![c] = "open"]
    <3>1. /\ cpc'[c] = "waiting" /\ future'[c] = "open"
          /\ \A d \in Calls : d # c => cpc'[d] = cpc[d] /\ future'[d] = future[d]
      BY <1>0, <2>2
    <3> QED BY <3>1 DEF Answers
  <2>5. Handlers' = Handlers
    BY <1>1, HandlersStay
  <2>6. Contract!Ask(c, n)
    BY <1>1, <2>2, <2>3, <2>4, <2>5 DEF Contract!Ask
  <2> QED BY <2>1, <2>6 DEF Contract!CNext
<1> QED BY <1>2, <1>3

\* What the contract sees stays as it is.
Unseen == UNCHANGED <<conn, Handlers, session, Answers>>

\* An answer, if it is anybody's.
LEMMA ResultIsContract ==
    ASSUME TypeOK, SessionsInv, NEW s \in Sockets, NEW c \in Calls, ReceiveResult(s, c)
    PROVE  Contract!CNext \/ Unseen
<1>0. /\ future \in [Calls -> {"none", "open", "result", "disconnected"}]
      /\ conn \in [Nodes -> Sockets \cup {None}] /\ node[s] \in Nodes
  BY DEF ReceiveResult, SessionsInv, HandlersKnowTheirNode, TypeOK
<1>1. UNCHANGED <<conn, spc, cpc, session>>
  BY DEF ReceiveResult
<1>2. Handlers' = Handlers
  BY <1>1, HandlersStay
<1>3. CASE UNCHANGED future
  BY <1>1, <1>2, <1>3, AnswersStay DEF Unseen
<1>4. CASE ~UNCHANGED future
  <2>1. /\ conn[node[s]] \in Sockets /\ c \in pending[conn[node[s]]]
        /\ future' = [future EXCEPT ![c] = IF @ = "open" THEN "result" ELSE @]
    BY <1>0, <1>4 DEF ReceiveResult
  <2>2. cpc[c] = "waiting" /\ future[c] = "open"
    BY <2>1, PendingKnown
  <2>3. future' = [future EXCEPT ![c] = "result"]
    BY <2>1, <2>2
  <2>4. Answers[c] = "open"
    BY <2>2 DEF Answers
  <2>5. Answers' = [Answers EXCEPT ![c] = "result"]
    BY <1>0, <1>1, <2>2, <2>3 DEF Answers
  <2>6. Contract!Answer(c)
    BY <1>1, <1>2, <2>4, <2>5 DEF Contract!Answer
  <2> QED BY <2>6 DEF Contract!CNext
<1> QED BY <1>3, <1>4

\* The beginning and the end of a handler.
LEMMA HandlerIsContract ==
    ASSUME TypeOK, SessionsInv, ProbesHaveFutures, NEW s \in Sockets,
           \/ Enroll(s) \/ Connect(s) \/ Close(s)
           \/ \E n \in Nodes : Open(s, n)
    PROVE  Contract!CNext \/ Unseen
<1>0. spc \in [Sockets -> {"unused", "hello", "enrolled", "serving", "closing", "closed"}]
  BY DEF TypeOK
<1>1. CASE Enroll(s) \/ \E n \in Nodes : Open(s, n)
  <2>1. UNCHANGED <<conn, cpc, session, future>>
    BY <1>1 DEF Enroll, Open
  <2>2. Answers' = Answers
    BY <2>1, AnswersStay
  <2>3. CASE \E p \in {"hello", "enrolled"} : spc' = [spc EXCEPT ![s] = p] /\ spc[s] \in {"unused", "hello"}
    <3>1. Handlers' = Handlers
      BY <1>0, <2>3, HandlersStay, Phases
    <3> QED BY <2>1, <2>2, <3>1 DEF Unseen
  <2>4. CASE spc' = [spc EXCEPT ![s] = "closed"] /\ spc[s] = "hello"
    <3>1. Handlers' = [Handlers EXCEPT ![s] = "returned"]
      BY <2>4, HandlerMoves, Phases
    <3>2. Handlers[s] = "new"
      BY <2>4, Phases DEF Handlers
    <3>3. Contract!Refuse(s)
      BY <2>1, <2>2, <3>1, <3>2 DEF Contract!Refuse
    <3> QED BY <3>3 DEF Contract!CNext
  <2> QED BY <1>1, <2>3, <2>4 DEF Enroll, Open
<1>2. CASE Connect(s)
  <2> PICK n : n = node[s]
    OBVIOUS
  <2>1. spc[s] = "enrolled" /\ n \in Nodes /\ UNCHANGED <<cpc, session>>
    BY <1>2 DEF Connect, SessionsInv, HandlersKnowTheirNode, TypeOK
  <2>2. Handlers[s] = "new"
    BY <2>1, Phases DEF Handlers
  <2>3. Handlers' = [Handlers EXCEPT ![s] = "serving"]
    <3>1. \E p \in {"serving", "closing"} : spc' = [spc EXCEPT ![s] = p]
      BY <1>2 DEF Connect, HangUp
    <3>2. PICK p \in {"serving", "closing"} : spc' = [spc EXCEPT ![s] = p]
      BY <3>1
    <3>3. Handlers' = [Handlers EXCEPT ![s] = Phase(p)]
      BY <3>2, HandlerMoves
    <3>4. Phase(p) = "serving"
      BY Phases
    <3> QED BY <3>3, <3>4
  <2>4. CASE UNCHANGED <<conn, future>>
    <3>1. Answers' = Answers
      BY <2>1, <2>4, AnswersStay
    <3>2. Contract!Refuse(s)
      BY <2>1, <2>2, <2>3, <2>4, <3>1 DEF Contract!Refuse
    <3> QED BY <3>2 DEF Contract!CNext
  <2>5. CASE conn' = [conn EXCEPT ![n] = s] /\ FailPending(n)
    <3>1. Contract!TellTheLost
      BY <2>1, <2>5, LostAreTold
    <3>2. Contract!Begin(n, s)
      BY <2>1, <2>2, <2>3, <2>5, <3>1 DEF Contract!Begin
    <3> QED BY <2>1, <3>2 DEF Contract!CNext
  <2> QED BY <1>2, <2>4, <2>5 DEF Connect
<1>3. CASE Close(s)
  <2> PICK n : n = node[s]
    OBVIOUS
  <2>1. /\ spc[s] = "closing" /\ n \in Nodes /\ UNCHANGED <<cpc, session>>
        /\ FailPending(n) /\ conn' = [conn EXCEPT ![n] = None]
        /\ spc' = [spc EXCEPT ![s] = "closed"]
    BY <1>3 DEF Close, PopSession, SessionsInv, HandlersKnowTheirNode, TypeOK
  <2>2. Handlers[s] = "serving" /\ Handlers' = [Handlers EXCEPT ![s] = "returned"]
    <3>1. Handlers[s] = "serving"
      BY <2>1, Phases DEF Handlers
    <3>2. Handlers' = [Handlers EXCEPT ![s] = Phase("closed")]
      BY <2>1, HandlerMoves
    <3> QED BY <3>1, <3>2, Phases
  <2>3. Contract!TellTheLost
    BY <2>1, LostAreTold
  <2>4. \A m \in Nodes : conn'[m] # s
    <3>1. s # None
      BY WorkerAssumption
    <3> QED BY <2>1, <3>1 DEF SessionsInv, NoGhostSession, TypeOK
  <2>5. Contract!Return(s)
    BY <2>1, <2>2, <2>3, <2>4 DEF Contract!Return
  <2> QED BY <2>5 DEF Contract!CNext
<1> QED BY <1>1, <1>2, <1>3

\* A session dropped by a sweep or an administrator.
LEMMA DropIsContract ==
    ASSUME TypeOK, SessionsInv, ProbesHaveFutures, NEW n \in Nodes, PopSession(n),
           UNCHANGED <<spc, cpc, session>>
    PROVE  Contract!CNext
<1>1. FailPending(n) /\ conn' = [conn EXCEPT ![n] = None]
  BY DEF PopSession
<1>2. Contract!TellTheLost
  BY <1>1, LostAreTold
<1>3. Handlers' = Handlers
  BY HandlersStay
<1>4. Contract!Drop(n)
  BY <1>1, <1>2, <1>3 DEF Contract!Drop
<1> QED BY <1>4 DEF Contract!CNext

\* The restart.
LEMMA RestartIsContract ==
    ASSUME TypeOK, ProbesHaveFutures, RestartCore
    PROVE  Contract!CNext
<1>0. cpc \in [Sweepers -> {"idle", "listed", "dropping", "found", "waiting", "done"}]
      /\ Calls \subseteq Sweepers /\ Loop \notin Calls
  BY WorkerAssumption DEF TypeOK, Sweepers
<1>1. /\ \A s \in Sockets : Phase(spc'[s]) \in {"new", "returned"} /\ (Phase(spc[s]) # "new" => Phase(spc'[s]) = "returned")
      /\ \A s \in Sockets : spc'[s] = IF spc[s] = "unused" THEN "unused" ELSE "closed"
  <2>1. \A s \in Sockets : spc'[s] = IF spc[s] = "unused" THEN "unused" ELSE "closed"
    BY DEF RestartCore
  <2> QED BY <2>1, Phases
<1>2. /\ Handlers' \in [Sockets -> {"new", "returned"}]
      /\ \A s \in Sockets : Handlers[s] # "new" => Handlers'[s] = "returned"
  BY <1>1 DEF Handlers
<1>3. \A c \in Calls : /\ future'[c] = "none"
                       /\ cpc'[c] = IF cpc[c] = "idle" THEN "idle" ELSE "done"
  BY <1>0 DEF RestartCore
<1>4. /\ Answers' \in [Calls -> {"none", "over"}]
      /\ \A c \in Calls : Answers[c] # "none" => Answers'[c] = "over"
  <2>1. \A c \in Calls : cpc[c] = "idle" => Answers[c] = "none"
    BY DEF Answers, ProbesHaveFutures
  <2> QED BY <1>3, <2>1 DEF Answers
<1>5. Contract!Restart
  BY <1>2, <1>4 DEF RestartCore, Contract!Restart
<1> QED BY <1>5 DEF Contract!CNext

\* Every step is one of the contract's, or does not show.
LEMMA NextIsContract ==
    ASSUME IInv, AnswersInv, [Next]_vars
    PROVE  [Contract!CNext]_(Contract!cvars)
<1>0. /\ TypeOK /\ SessionsInv /\ ProbesHaveFutures
      /\ cpc \in [Sweepers -> {"idle", "listed", "dropping", "found", "waiting", "done"}]
      /\ spc \in [Sockets -> {"unused", "hello", "enrolled", "serving", "closing", "closed"}]
      /\ Calls \subseteq Sweepers /\ Loop \notin Calls
  BY WorkerAssumption DEF IInv, AnswersInv, TypeOK, Sweepers
<1> SUFFICES Contract!CNext \/ Unseen
  BY DEF Unseen, Contract!cvars
<1>1. ASSUME UNCHANGED <<conn, session, future>>,
             \A s \in Sockets : Phase(spc'[s]) = Phase(spc[s]),
             \A c \in Calls : cpc'[c] = "done" <=> cpc[c] = "done"
      PROVE  Unseen
  BY <1>1, HandlersStay, AnswersStay DEF Unseen
<1>2. ASSUME UNCHANGED <<conn, session, future, spc, cpc>> PROVE Unseen
  BY <1>1, <1>2
<1>3. ASSUME NEW s \in Sockets, HangUp(s), spc[s] = "serving", UNCHANGED <<conn, session, future, cpc>>
      PROVE  Unseen
  <2>1. \A t \in Sockets : Phase(spc'[t]) = Phase(spc[t])
    BY <1>0, <1>3, Phases DEF HangUp
  <2> QED BY <1>1, <1>3, <2>1
<1>4. ASSUME NEW s \in Sockets, Heartbeat(s) \/ LossNoticed(s) PROVE Unseen
  <2>1. spc[s] = "serving" /\ UNCHANGED <<conn, session, future, cpc>> /\ (UNCHANGED spc \/ HangUp(s))
    BY <1>4 DEF Heartbeat, LossNoticed
  <2> QED BY <1>2, <1>3, <2>1
<1>5. ASSUME NEW s \in Sockets, Send(s) \/ WorkerLost(s) \/ \E c \in Calls : WorkerAnswers(s, c) PROVE Unseen
  BY <1>2, <1>5 DEF Send, WorkerLost, WorkerAnswers
<1>6. ASSUME NEW d \in Leavers, TakeOffline(d) PROVE Unseen
  BY <1>2, <1>6 DEF TakeOffline
<1>7. ASSUME NEW n \in Nodes, Age(n) \/ \E a \in Admins : Disable(a, n) \/ Enable(a, n) PROVE Unseen
  BY <1>2, <1>7 DEF Age, Disable, Enable
<1>8. ASSUME NEW c \in Sweepers, SweepRead(c) \/ SweepWrite(c) PROVE Unseen
  <2>1. /\ UNCHANGED <<conn, session, future, spc>>
        /\ \A d \in Calls : cpc'[d] = "done" <=> cpc[d] = "done"
    BY <1>0, <1>8 DEF SweepRead, SweepWrite
  <2> QED BY <1>1, <2>1
<1>9. ASSUME LoopSleeps PROVE Unseen
  <2>1. /\ UNCHANGED <<conn, session, future, spc>>
        /\ \A d \in Calls : cpc'[d] = "done" <=> cpc[d] = "done"
    BY <1>0, <1>9 DEF LoopSleeps
  <2> QED BY <1>1, <2>1
<1>10. ASSUME NEW c \in Calls, NEW n \in Nodes, ReadNode(c, n) PROVE Contract!CNext \/ Unseen
  <2>1. UNCHANGED <<conn, session, future, spc>> /\ cpc[c] = "dropping"
    BY <1>10 DEF ReadNode, Swept
  <2>2. CASE cpc' = [cpc EXCEPT ![c] = "found"]
    <3>1. \A d \in Calls : cpc'[d] = "done" <=> cpc[d] = "done"
      BY <1>0, <2>1, <2>2
    <3> QED BY <1>1, <2>1, <3>1
  <2>3. CASE cpc' = [cpc EXCEPT ![c] = "done"]
    <3>1. Contract!End(c)
      BY <1>0, <2>1, <2>3, CallEndIsContract
    <3> QED BY <3>1 DEF Contract!CNext
  <2> QED BY <1>10, <2>2, <2>3 DEF ReadNode
<1>11. ASSUME NEW c \in Calls, ProbeReturns(c) \/ ProbeTimesOut(c) PROVE Contract!CNext
  <2>1. cpc[c] = "waiting" /\ EndProbe(c) /\ UNCHANGED <<conn, spc>>
    BY <1>11 DEF ProbeReturns, ProbeTimesOut
  <2>2. Contract!End(c)
    BY <1>0, <2>1, CallEndIsContract DEF EndProbe
  <2> QED BY <2>2 DEF Contract!CNext
<1>12. ASSUME NEW c \in Sweepers, NEW m \in Nodes, SweepDrop(c, m) PROVE Contract!CNext
  BY <1>0, <1>12, DropIsContract DEF SweepDrop
<1>13. ASSUME NEW a \in Admins, DropDisabled(a) PROVE Contract!CNext
  <2> PICK n : n = disabling[a]
    OBVIOUS
  <2>1. n \in Nodes /\ PopSession(n) /\ UNCHANGED <<spc, cpc, session>>
    BY <1>0, <1>13 DEF DropDisabled, TypeOK
  <2> QED BY <1>0, <2>1, DropIsContract
<1>14. CASE UNCHANGED vars
  BY <1>2, <1>14 DEF vars
<1>15. ASSUME NEW s \in Sockets, \/ Enroll(s) \/ Connect(s) \/ Close(s)
                                 \/ \E n \in Nodes : Open(s, n)
       PROVE  Contract!CNext \/ Unseen
  BY <1>0, <1>15, HandlerIsContract
<1>16. ASSUME NEW s \in Sockets, NEW c \in Calls, ReceiveResult(s, c) PROVE Contract!CNext \/ Unseen
  BY <1>0, <1>16, ResultIsContract
<1>17. ASSUME NEW c \in Calls, Dispatch(c) PROVE Contract!CNext
  BY <1>0, <1>17, DispatchIsContract
<1>18. CASE RestartCore
  BY <1>0, <1>18, RestartIsContract
<1>19. CASE Core
  BY <1>5, <1>6, <1>7, <1>8, <1>9, <1>10, <1>11, <1>12, <1>13, <1>15, <1>16, <1>17, <1>18, <1>19 DEF Core
<1>20. CASE Workers
  BY <1>4, <1>5, <1>7, <1>15, <1>20 DEF Workers
<1> QED BY <1>14, <1>19, <1>20 DEF Next

\* Sessions and the probes in them change only as SessionContract says, whatever sockets,
\* sweeps, administrators, timeouts and restarts do to them: what the callers of probe
\* may rely on, for any number of nodes, sockets and calls and any limits.
THEOREM Refinement == Spec => ImplementsSessionContract
<1>1. Init => Contract!CInit
  <2>1. SUFFICES ASSUME Init PROVE Contract!CInit
    OBVIOUS
  <2>2. Handlers = [s \in Sockets |-> "new"]
    BY <2>1, Phases DEF Init, Handlers
  <2>3. Answers = [c \in Calls |-> "none"]
    <3>1. \A c \in Calls : cpc[c] = "idle" /\ future[c] = "none"
      BY <2>1 DEF Init, Sweepers
    <3> QED BY <3>1 DEF Answers
  <2> QED BY <2>1, <2>2, <2>3 DEF Init, Contract!CInit
<1>2. IInv /\ AnswersInv /\ [Next]_vars => [Contract!CNext]_(Contract!cvars)
  BY NextIsContract
<1> QED BY <1>1, <1>2, AnswersInvariance, PTL DEF Spec, ImplementsSessionContract, Contract!CSpec

=============================================================================
