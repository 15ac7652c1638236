-------------------------- MODULE AgentCatalogProofs --------------------------
(***************************************************************************)
(* IInv is an inductive invariant of AgentCatalog, for any number of       *)
(* agents, requests and memories: one lemma per action, and under it one   *)
(* step per part of the invariant, then the theorems that follow.          *)
(***************************************************************************)
EXTENDS AgentCatalog, SequenceTheorems, TLAPS

-----------------------------------------------------------------------------
(* Parts of the invariant that a step leaves alone.                        *)

\* A step that changes no agent, no graph and no run.
LEMMA CatalogFrame ==
    ASSUME IInv, UNCHANGED <<status, graph, raced, run, revived>>
    PROVE  DanglingNeedsARace' /\ OnlyRevivedRunsLoseAgents'
BY DEF IInv, DanglingNeedsARace, OnlyRevivedRunsLoseAgents, There

\* Usage keeps its meaning while no memory changes hands or comes back to life.
LEMMA MemoriesKeep ==
    ASSUME IInv, UNCHANGED <<run, shown>>,
           \A a \in Agents : UNCHANGED links[a] \/ (links'[a] = {} /\ \A m \in shown[a] : memories'[m].state # "live"),
           DOMAIN memories \subseteq DOMAIN memories',
           \A m \in DOMAIN memories :
              /\ memories'[m].agent = memories[m].agent
              /\ memories[m].state # "live" => memories'[m].state # "live"
    PROVE  ShownIsOwned' /\ UsageIsComplete'
<1>1. ShownIsOwned'
  BY DEF IInv, ShownIsOwned
<1>2. UsageIsComplete'
  BY DEF IInv, ShownIsOwned, UsageIsComplete
<1> QED BY <1>1, <1>2

\* The requests when none of them steps: what they know of agents stays true.
LEMMA NoRequestSteps ==
    ASSUME IInv, UNCHANGED <<req, lock>>, DOMAIN memories \subseteq DOMAIN memories',
           \A a \in Agents : run[a] = "none" \/ a \in revived =>
              run'[a] = "none" \/ a \in revived' \/ \A r \in Requests : At(r, "delete") => req[r].row # a,
           \A r \in Requests : At(r, "delete") =>
              \A b \in There' : req[r].row \in graph'[b] => req[r].row \in raced'[b]
    PROVE  RequestsKnowTheirRows'
<1> SUFFICES ASSUME NEW r \in Requests
             PROVE  /\ req[r].at \in {"update", "delete"} => req[r].row \in Agents /\ lock[req[r].row] = r
                    /\ req[r].at = "update" => req[r].row \notin req[r].graph
                    /\ req[r].at = "delete" =>
                         /\ run'[req[r].row] = "none" \/ req[r].row \in revived'
                         /\ \A b \in There' : req[r].row \in graph'[b] => req[r].row \in raced'[b]
                    /\ req[r].at = "delete_memory" => req[r].row \in DOMAIN memories'
  BY DEF RequestsKnowTheirRows
<1> QED BY CatalogAssumption DEF IInv, RequestsKnowTheirRows, At

\* The requests after r has returned: the others hold other locks.
LEMMA Returned ==
    ASSUME IInv, NEW r \in Requests, Return(r), UNCHANGED <<run, revived>>,
           DOMAIN memories \subseteq DOMAIN memories',
           \/ UNCHANGED lock
           \/ At(r, "update") /\ Release(req[r].row)
           \/ At(r, "delete") /\ Release(req[r].row),
           \A p \in Requests : p # r /\ At(p, "delete") =>
              \A b \in There' : req[p].row \in graph'[b] => req[p].row \in raced'[b]
    PROVE  /\ req' \in [Requests -> Request]
           /\ lock' \in [Agents -> Requests \cup {None}]
           /\ RequestsKnowTheirRows'
<1>1. req' \in [Requests -> Request]
  BY DEF IInv, TypeOK, Return, Idle, Request
<1>2. lock' \in [Agents -> Requests \cup {None}]
  BY DEF IInv, TypeOK, Release
<1>3. req'[r].at = "idle" /\ \A p \in Requests : p # r => req'[p] = req[p]
  BY DEF IInv, TypeOK, Return, Idle
<1>4. ASSUME NEW p \in Requests, p # r, req[p].at \in {"update", "delete"}
      PROVE  req[p].row \in Agents /\ lock'[req[p].row] = p
  <2>1. req[p].row \in Agents /\ lock[req[p].row] = p
    BY <1>4 DEF IInv, RequestsKnowTheirRows
  <2>2. CASE UNCHANGED lock
    BY <2>1, <2>2
  <2>3. CASE At(r, "update") \/ At(r, "delete")
    <3>1. lock[req[r].row] = r
      BY <2>3 DEF IInv, RequestsKnowTheirRows, At
    <3> QED BY <1>4, <2>1, <3>1 DEF Release, IInv, TypeOK
  <2> QED BY <2>1, <2>2, <2>3
<1>5. RequestsKnowTheirRows'
  <2> SUFFICES ASSUME NEW p \in Requests
               PROVE  (/\ req[p].at \in {"update", "delete"} => req[p].row \in Agents /\ lock[req[p].row] = p
                       /\ req[p].at = "update" => req[p].row \notin req[p].graph
                       /\ req[p].at = "delete" =>
                            /\ run[req[p].row] = "none" \/ req[p].row \in revived
                            /\ \A b \in There : req[p].row \in graph[b] => req[p].row \in raced[b]
                       /\ req[p].at = "delete_memory" => req[p].row \in DOMAIN memories)'
    BY DEF RequestsKnowTheirRows
  <2>1. CASE p = r
    BY <1>3, <2>1
  <2>2. CASE p # r
    BY <1>3, <1>4, <2>2 DEF IInv, RequestsKnowTheirRows, At
  <2> QED BY <2>1, <2>2
<1> QED BY <1>1, <1>2, <1>5

\* A request that begins, with a lock that was free or with none, leaves the
\* others holding theirs.
LEMMA BeginI ==
    ASSUME IInv, NEW r \in Requests, NEW label, NEW row \in Nat, NEW g \in SUBSET Agents,
           Begin(r, label, row, g), UNCHANGED <<status, graph, raced, usage, memories>>,
           \/ label = "insert_memory" /\ UNCHANGED lock
           \/ label = "delete_memory" /\ UNCHANGED lock /\ row \in DOMAIN memories
           \/ label = "update" /\ row \in Agents /\ Acquire(r, row) /\ row \notin g
           \/ /\ label = "delete" /\ row \in Agents /\ Acquire(r, row) /\ run[row] = "none"
              /\ \A b \in There : row \notin graph[b]
    PROVE  IInv'
<1>. USE DEF usage
<1>1. req' = [req EXCEPT ![r] = [at |-> label, row |-> row, graph |-> g]]
  BY DEF Begin
<1>2. /\ req'[r].at = label /\ req'[r].row = row /\ req'[r].graph = g
      /\ \A p \in Requests : p # r => req'[p] = req[p]
      /\ req' \in [Requests -> Request]
  BY <1>1 DEF IInv, TypeOK, Request
<1>3. lock' \in [Agents -> Requests \cup {None}]
  BY DEF IInv, TypeOK, Acquire
<1>4. TypeOK'
  BY <1>2, <1>3 DEF IInv, TypeOK
<1>5. \A a \in Agents : lock[a] \in Requests => lock'[a] = lock[a]
  BY CatalogAssumption DEF IInv, TypeOK, Acquire
<1>6. RequestsKnowTheirRows'
  <2> SUFFICES ASSUME NEW p \in Requests
               PROVE  (/\ req[p].at \in {"update", "delete"} => req[p].row \in Agents /\ lock[req[p].row] = p
                       /\ req[p].at = "update" => req[p].row \notin req[p].graph
                       /\ req[p].at = "delete" =>
                            /\ run[req[p].row] = "none" \/ req[p].row \in revived
                            /\ \A b \in There : req[p].row \in graph[b] => req[p].row \in raced[b]
                       /\ req[p].at = "delete_memory" => req[p].row \in DOMAIN memories)'
    BY DEF RequestsKnowTheirRows
  <2>1. CASE p = r
    BY <1>2, <2>1 DEF Acquire, There, IInv, TypeOK
  <2>2. CASE p # r
    BY <1>2, <1>5, <2>2 DEF IInv, RequestsKnowTheirRows, There
  <2> QED BY <2>1, <2>2
<1>7. ShownIsOwned' /\ UsageIsComplete'
  BY DEF IInv, ShownIsOwned, UsageIsComplete
<1> QED BY <1>4, <1>6, <1>7, CatalogFrame DEF IInv

-----------------------------------------------------------------------------
(* Agents.                                                                 *)

\* A new agent's graph names what exists, or is recorded as raced.
LEMMA CreateAgentI == ASSUME IInv, CreateAgent PROVE IInv'
<1>1. PICK a \in Agents, g \in SUBSET Agents :
         /\ status[a] = "unborn" /\ ValidGraph(g, a)
         /\ status' = [status EXCEPT ![a] = "there"]
         /\ graph' = [graph EXCEPT ![a] = g]
         /\ raced' = [raced EXCEPT ![a] = Overlapped(g)]
  BY DEF CreateAgent
<1>2. UNCHANGED <<lock, run, shown, links, overtaken, revived, memories, req>>
  BY DEF CreateAgent, usage
<1>3. Overlapped(g) \subseteq Agents
  BY DEF Overlapped
<1>4. a \notin g
  BY <1>1 DEF ValidGraph
<1>5. There' = There \cup {a}
  BY <1>1 DEF IInv, TypeOK, There
<1>6. TypeOK'
  BY <1>1, <1>2, <1>3, <1>4 DEF IInv, TypeOK
<1>7. /\ graph'[a] = g /\ raced'[a] = Overlapped(g)
      /\ \A b \in Agents : b # a => graph'[b] = graph[b] /\ raced'[b] = raced[b]
  BY <1>1 DEF IInv, TypeOK
<1>8. RequestsKnowTheirRows'
  <2>1. ASSUME NEW r \in Requests, At(r, "delete"), NEW b \in There', req[r].row \in graph'[b]
        PROVE  req[r].row \in raced'[b]
    <3>1. CASE b = a
      BY <1>7, <2>1, <3>1 DEF Overlapped
    <3>2. CASE b # a
      <4>1. b \in There /\ b \in Agents
        BY <1>5, <2>1, <3>2 DEF There
      <4> QED BY <1>7, <2>1, <3>2, <4>1 DEF IInv, RequestsKnowTheirRows, At
    <3> QED BY <3>1, <3>2
  <2> QED BY <1>2, <2>1, NoRequestSteps
<1>9. DanglingNeedsARace'
  <2> SUFFICES ASSUME NEW b \in There', NEW c \in graph'[b], c \notin There'
               PROVE  c \in raced'[b]
    BY DEF DanglingNeedsARace
  <2>1. c \notin There
    BY <1>5
  <2>2. CASE b = a
    BY <1>7, <2>1, <2>2 DEF Overlapped
  <2>3. CASE b # a
    <3>1. b \in There /\ b \in Agents
      BY <1>5, <2>3 DEF There
    <3> QED BY <1>7, <2>1, <2>3, <3>1 DEF IInv, DanglingNeedsARace
  <2> QED BY <2>2, <2>3
<1>10. OnlyRevivedRunsLoseAgents'
  BY <1>1, <1>2 DEF IInv, TypeOK, OnlyRevivedRunsLoseAgents
<1>11. ShownIsOwned' /\ UsageIsComplete'
  BY <1>2, MemoriesKeep
<1> QED BY <1>6, <1>8, <1>9, <1>10, <1>11 DEF IInv

\* UpdateAgentGraph and DeleteAgent take a free lock.
LEMMA LockAgentI ==
    ASSUME IInv, NEW r \in Requests, UpdateAgentGraph(r) \/ DeleteAgent(r)
    PROVE  IInv'
<1>1. There \subseteq Agents /\ Agents \subseteq Nat /\ {} \in SUBSET Agents
  BY DEF There, Agents
<1>2. CASE UpdateAgentGraph(r)
  <2>1. PICK a \in There, g \in SUBSET Agents :
           Acquire(r, a) /\ a \notin g /\ Begin(r, "update", a, g)
    BY <1>2 DEF UpdateAgentGraph, ValidGraph
  <2> QED BY <1>1, <1>2, <2>1, BeginI DEF UpdateAgentGraph, usage
<1>3. CASE DeleteAgent(r)
  <2>1. PICK a \in There : /\ Acquire(r, a) /\ run[a] = "none" /\ Begin(r, "delete", a, {})
                           /\ \A b \in There : a \notin graph[b]
    BY <1>3 DEF DeleteAgent
  <2> QED BY <1>1, <1>3, <2>1, BeginI DEF DeleteAgent, usage
<1> QED BY <1>2, <1>3

\* A graph that is written names what exists, or is recorded as raced.
LEMMA UpdateGraphI == ASSUME IInv, NEW r \in Requests, UpdateGraph(r) PROVE IInv'
<1>1. PICK a, g : a = req[r].row /\ g = req[r].graph
  OBVIOUS
<1>2. a \in Agents /\ g \in SUBSET Agents /\ a \notin g
  BY <1>1 DEF UpdateGraph, At, IInv, TypeOK, Request, RequestsKnowTheirRows
<1>3. /\ graph' = [graph EXCEPT ![a] = g]
      /\ raced' = [raced EXCEPT ![a] = Overlapped(g)]
      /\ At(r, "update") /\ Release(req[r].row) /\ Return(r)
      /\ UNCHANGED <<status, run, shown, links, overtaken, revived, memories>>
  BY <1>1 DEF UpdateGraph, usage
<1>4. Overlapped(g) \subseteq Agents
  BY <1>2 DEF Overlapped
<1>5. There' = There
  BY <1>3 DEF There
<1>6. /\ graph'[a] = g /\ raced'[a] = Overlapped(g)
      /\ \A b \in Agents : b # a => graph'[b] = graph[b] /\ raced'[b] = raced[b]
  BY <1>2, <1>3 DEF IInv, TypeOK
<1>7. ASSUME NEW p \in Requests, p # r, At(p, "delete"), NEW b \in There', req[p].row \in graph'[b]
      PROVE  req[p].row \in raced'[b]
  <2>1. CASE b = a
    BY <1>6, <1>7, <2>1 DEF Overlapped
  <2>2. CASE b # a
    <3>1. b \in There /\ b \in Agents
      BY <1>5, <1>7 DEF There
    <3> QED BY <1>6, <1>7, <2>2, <3>1 DEF IInv, RequestsKnowTheirRows, At
  <2> QED BY <2>1, <2>2
<1>8. /\ req' \in [Requests -> Request]
      /\ lock' \in [Agents -> Requests \cup {None}]
      /\ RequestsKnowTheirRows'
  BY <1>3, <1>7, Returned
<1>9. TypeOK'
  <2>1. graph' \in [Agents -> SUBSET Agents] /\ raced' \in [Agents -> SUBSET Agents]
    BY <1>2, <1>3, <1>4 DEF IInv, TypeOK
  <2>2. \A b \in Agents : b \notin graph'[b]
    BY <1>2, <1>6 DEF IInv, TypeOK
  <2> QED BY <1>3, <1>8, <2>1, <2>2 DEF IInv, TypeOK
<1>10. DanglingNeedsARace'
  <2> SUFFICES ASSUME NEW b \in There, NEW c \in graph'[b], c \notin There
               PROVE  c \in raced'[b]
    BY <1>5 DEF DanglingNeedsARace
  <2>1. CASE b = a
    BY <1>6, <2>1 DEF Overlapped
  <2>2. CASE b # a
    BY <1>6, <2>2 DEF IInv, DanglingNeedsARace, There
  <2> QED BY <2>1, <2>2
<1>11. OnlyRevivedRunsLoseAgents'
  BY <1>3 DEF IInv, OnlyRevivedRunsLoseAgents
<1>12. ShownIsOwned' /\ UsageIsComplete'
  BY <1>3, MemoriesKeep
<1> QED BY <1>8, <1>9, <1>10, <1>11, <1>12 DEF IInv

\* A deletion leaves behind only graphs that were committed while it ran.
LEMMA DeleteI == ASSUME IInv, NEW r \in Requests, Delete(r) PROVE IInv'
<1>1. PICK a : a = req[r].row
  OBVIOUS
<1>2. /\ a \in Agents /\ (run[a] = "none" \/ a \in revived)
      /\ \A b \in There : a \in graph[b] => a \in raced[b]
  BY <1>1 DEF Delete, At, IInv, RequestsKnowTheirRows
<1>3. /\ status' = [status EXCEPT ![a] = "gone"]
      /\ graph' = [graph EXCEPT ![a] = {}]
      /\ raced' = [raced EXCEPT ![a] = {}]
      /\ memories' = Cascade(a)
      /\ At(r, "delete") /\ Release(req[r].row) /\ Return(r)
      /\ links' = [links EXCEPT ![a] = {}]
      /\ UNCHANGED <<run, shown, overtaken, revived>>
  BY <1>1 DEF Delete
<1>4. There' = There \ {a}
  BY <1>2, <1>3 DEF There, IInv, TypeOK
<1>5. \A b \in Agents : b # a => graph'[b] = graph[b] /\ raced'[b] = raced[b]
  BY <1>3 DEF IInv, TypeOK
<1>6. \A b \in There' : b \in Agents /\ b \in There /\ b # a
  BY <1>4 DEF There
<1>7. memories \in Seq(MemoryRecord) /\ \A m \in DOMAIN memories : memories[m] \in MemoryRecord
  BY DEF IInv, TypeOK
<1>8. /\ DOMAIN memories' = DOMAIN memories
      /\ \A m \in DOMAIN memories :
            /\ memories'[m] \in MemoryRecord /\ memories'[m].agent = memories[m].agent
            /\ memories[m].state # "live" => memories'[m].state # "live"
            /\ memories[m].agent = a => memories'[m].state # "live"
  BY <1>3, <1>7 DEF Cascade, MemoryRecord
<1>9. memories' \in Seq(MemoryRecord) /\ Len(memories') = Len(memories)
  <2>1. DOMAIN memories = 1..Len(memories) /\ Len(memories) \in Nat
    BY <1>7
  <2>2. memories' \in [1..Len(memories) -> MemoryRecord]
    BY <1>3, <1>8, <2>1 DEF Cascade
  <2>3. memories' \in Seq(MemoryRecord)
    BY <2>1, <2>2, SeqDef
  <2> QED BY <1>8, <2>1, <2>3
<1>10. /\ req' \in [Requests -> Request]
       /\ lock' \in [Agents -> Requests \cup {None}]
       /\ RequestsKnowTheirRows'
  <2>1. ASSUME NEW p \in Requests, p # r, At(p, "delete"), NEW b \in There', req[p].row \in graph'[b]
        PROVE  req[p].row \in raced'[b]
    BY <1>5, <1>6, <2>1 DEF IInv, RequestsKnowTheirRows, At
  <2> QED BY <1>3, <1>8, <2>1, Returned
<1>11. TypeOK'
  <2>1. /\ status' \in [Agents -> {"unborn", "there", "gone"}]
        /\ graph' \in [Agents -> SUBSET Agents] /\ raced' \in [Agents -> SUBSET Agents]
    BY <1>2, <1>3 DEF IInv, TypeOK
  <2>2. \A b \in Agents : b \notin graph'[b]
    BY <1>3 DEF IInv, TypeOK
  <2> QED BY <1>3, <1>9, <1>10, <2>1, <2>2 DEF IInv, TypeOK
<1>12. DanglingNeedsARace'
  BY <1>2, <1>4, <1>5, <1>6 DEF IInv, DanglingNeedsARace
<1>13. OnlyRevivedRunsLoseAgents'
  BY <1>2, <1>3 DEF IInv, TypeOK, OnlyRevivedRunsLoseAgents
<1>14. ShownIsOwned' /\ UsageIsComplete'
  <2>1. \A b \in Agents : UNCHANGED links[b] \/ (links'[b] = {} /\ \A m \in shown[b] : memories'[m].state # "live")
    BY <1>3, <1>8 DEF IInv, TypeOK, ShownIsOwned
  <2> QED BY <1>3, <1>8, <2>1, MemoriesKeep
<1> QED BY <1>10, <1>11, <1>12, <1>13, <1>14 DEF IInv

-----------------------------------------------------------------------------
(* Runs and memories.                                                      *)

\* A step of one run and its task, and of no request.
LEMMA RunStep ==
    ASSUME IInv, NEW a \in Agents,
           NEW s \in {"none", "queued", "started", "searched", "recorded"}, run' = [run EXCEPT ![a] = s],
           UNCHANGED <<catalog, memories, req>>,
           shown' \in [Agents -> SUBSET (1..MaxMemories)], links' \in [Agents -> SUBSET (1..MaxMemories)],
           overtaken' \in [Agents -> 0..MaxOvertaken], revived' \in SUBSET Agents,
           \A b \in Agents \ {a} : b \in revived' <=> b \in revived,
           run[a] # "none" \/ a \in There,
           s = "none" \/ a \in revived' \/ (run[a] # "none" /\ a \notin revived)
              \/ (a \in There /\ \A r \in Requests : At(r, "delete") => req[r].row # a),
           ShownIsOwned', UsageIsComplete'
    PROVE  IInv'
<1>1. TypeOK'
  BY DEF IInv, TypeOK, catalog
<1>2. \A b \in Agents \ {a} : run'[b] = run[b]
  BY DEF IInv, TypeOK
<1>3. run'[a] = s
  BY DEF IInv, TypeOK
<1>4. RequestsKnowTheirRows'
  <2>1. \A r \in Requests : At(r, "delete") =>
           \A b \in There' : req[r].row \in graph'[b] => req[r].row \in raced'[b]
    BY DEF IInv, RequestsKnowTheirRows, At, There, catalog
  <2>2. ASSUME NEW b \in Agents, run[b] = "none" \/ b \in revived
        PROVE  run'[b] = "none" \/ b \in revived' \/ \A r \in Requests : At(r, "delete") => req[r].row # b
    BY <1>2, <1>3, <2>2
  <2> QED BY <2>1, <2>2, NoRequestSteps DEF catalog
<1>5. DanglingNeedsARace'
  BY DEF IInv, DanglingNeedsARace, There, catalog
<1>6. OnlyRevivedRunsLoseAgents'
  BY <1>2, <1>3 DEF IInv, OnlyRevivedRunsLoseAgents, There, catalog
<1> QED BY <1>1, <1>4, <1>5, <1>6 DEF IInv

\* A run starts under a free lock, so that nothing is about to delete its agent.
LEMMA StartRunI == ASSUME IInv, StartRun PROVE IInv'
<1>1. PICK a \in There : lock[a] = None /\ run[a] = "none" /\ run' = [run EXCEPT ![a] = "queued"]
  BY DEF StartRun
<1>2. UNCHANGED <<catalog, shown, links, overtaken, revived, memories, req>>
  BY DEF StartRun
<1>3. a \in Agents /\ \A r \in Requests : At(r, "delete") => req[r].row # a
  BY <1>1, CatalogAssumption DEF There, At, IInv, RequestsKnowTheirRows
<1>4. ShownIsOwned' /\ UsageIsComplete'
  BY <1>1, <1>2 DEF IInv, TypeOK, ShownIsOwned, UsageIsComplete
<1>5. /\ shown' \in [Agents -> SUBSET (1..MaxMemories)] /\ links' \in [Agents -> SUBSET (1..MaxMemories)]
      /\ overtaken' \in [Agents -> 0..MaxOvertaken] /\ revived' \in SUBSET Agents
  BY <1>2 DEF IInv, TypeOK
<1> QED BY <1>1, <1>2, <1>3, <1>4, <1>5, RunStep

\* A run that is marked, or failed under its task, stays or stops being active.
LEMMA MarkOrOvertakeI == ASSUME IInv, MarkRunning \/ Overtake PROVE IInv'
<1>1. PICK a \in Agents, s \in {"none", "started"} :
         run[a] = "queued" /\ run' = [run EXCEPT ![a] = s] /\ overtaken' \in [Agents -> 0..MaxOvertaken]
  <2>1. CASE MarkRunning
    BY <2>1 DEF MarkRunning, IInv, TypeOK
  <2>2. CASE Overtake
    <3>1. PICK a \in Agents : /\ run[a] = "queued" /\ overtaken[a] < MaxOvertaken
                              /\ run' = [run EXCEPT ![a] = "none"]
                              /\ overtaken' = [overtaken EXCEPT ![a] = @ + 1]
      BY <2>2 DEF Overtake
    <3>2. overtaken[a] \in Nat /\ overtaken[a] + 1 \in 0..MaxOvertaken
      BY <3>1, CatalogAssumption DEF IInv, TypeOK
    <3>3. overtaken' \in [Agents -> 0..MaxOvertaken]
      BY <3>1, <3>2 DEF IInv, TypeOK
    <3> QED BY <3>1, <3>3
  <2> QED BY <2>1, <2>2
<1>2. UNCHANGED <<catalog, shown, links, revived, memories, req>>
  BY DEF MarkRunning, Overtake
<1>3. ShownIsOwned' /\ UsageIsComplete'
  BY <1>1, <1>2 DEF IInv, TypeOK, ShownIsOwned, UsageIsComplete
<1>4. /\ shown' \in [Agents -> SUBSET (1..MaxMemories)] /\ links' \in [Agents -> SUBSET (1..MaxMemories)]
      /\ revived' \in SUBSET Agents
  BY <1>2 DEF IInv, TypeOK
<1> QED BY <1>1, <1>2, <1>3, <1>4, RunStep

\* A run comes back to life: it is on record if its agent is about to go.
LEMMA ReviveI == ASSUME IInv, Revive PROVE IInv'
<1>1. PICK a \in Agents :
         /\ overtaken[a] > 0 /\ overtaken' = [overtaken EXCEPT ![a] = @ - 1]
         /\ IF a \in There /\ run[a] = "none"
            THEN /\ run' = [run EXCEPT ![a] = "started"]
                 /\ revived' = IF \E r \in Requests : At(r, "delete") /\ req[r].row = a
                               THEN revived \cup {a} ELSE revived
            ELSE UNCHANGED <<run, revived>>
  BY DEF Revive
<1>2. UNCHANGED <<catalog, shown, links, memories, req>>
  BY DEF Revive
<1>3. overtaken' \in [Agents -> 0..MaxOvertaken]
  BY <1>1, CatalogAssumption DEF IInv, TypeOK
<1>4. ShownIsOwned' /\ UsageIsComplete'
  BY <1>1, <1>2 DEF IInv, TypeOK, ShownIsOwned, UsageIsComplete
<1>5. shown' \in [Agents -> SUBSET (1..MaxMemories)] /\ links' \in [Agents -> SUBSET (1..MaxMemories)]
  BY <1>2 DEF IInv, TypeOK
<1>6. CASE a \in There /\ run[a] = "none"
  <2>1. run' = [run EXCEPT ![a] = "started"] /\ revived' \in SUBSET Agents
    BY <1>1, <1>6 DEF IInv, TypeOK
  <2>2. \A b \in Agents \ {a} : b \in revived' <=> b \in revived
    BY <1>1, <1>6
  <2>3. a \in revived' \/ \A r \in Requests : At(r, "delete") => req[r].row # a
    BY <1>1, <1>6
  <2> QED BY <1>2, <1>3, <1>4, <1>5, <1>6, <2>1, <2>2, <2>3, RunStep
<1>7. CASE ~(a \in There /\ run[a] = "none")
  <2>1. UNCHANGED <<run, revived>>
    BY <1>1, <1>7
  <2> QED BY <1>2, <1>3, <1>4, <2>1 DEF catalog, IInv, TypeOK, RequestsKnowTheirRows, At, There,
             DanglingNeedsARace, OnlyRevivedRunsLoseAgents
<1> QED BY <1>6, <1>7

\* A step of one run that changes its usage.
LEMMA UsageStep ==
    ASSUME IInv, NEW a \in Agents, run[a] # "none",
           NEW s \in {"searched", "recorded"}, run' = [run EXCEPT ![a] = s],
           UNCHANGED <<catalog, overtaken, revived, memories, req>>,
           shown' \in [Agents -> SUBSET (1..MaxMemories)], links' \in [Agents -> SUBSET (1..MaxMemories)],
           ShownIsOwned', UsageIsComplete'
    PROVE  IInv'
<1>1. overtaken' \in [Agents -> 0..MaxOvertaken] /\ revived' \in SUBSET Agents
  BY DEF IInv, TypeOK
<1> QED BY <1>1, RunStep

\* A search finds memories of its own agent.
LEMMA SearchI == ASSUME IInv, Search PROVE IInv'
<1>1. PICK a \in Agents, found \in SUBSET (1..MaxMemories) :
         /\ run[a] = "started" /\ found \subseteq InScope(a)
         /\ run' = [run EXCEPT ![a] = "searched"] /\ shown' = [shown EXCEPT ![a] = found]
  BY DEF Search
<1>2. UNCHANGED <<catalog, overtaken, revived, memories, req, links>>
  BY DEF Search
<1>3. shown' \in [Agents -> SUBSET (1..MaxMemories)] /\ links' \in [Agents -> SUBSET (1..MaxMemories)]
  BY <1>1, <1>2 DEF IInv, TypeOK
<1>4. ShownIsOwned'
  BY <1>1, <1>2 DEF IInv, TypeOK, ShownIsOwned, InScope
<1>5. UsageIsComplete'
  BY <1>1, <1>2 DEF IInv, TypeOK, UsageIsComplete
<1> QED BY <1>1, <1>2, <1>3, <1>4, <1>5, UsageStep

\* What is recorded is what is still in scope of what was shown.
LEMMA RecordRunUsageI == ASSUME IInv, RecordRunUsage PROVE IInv'
<1>1. PICK a \in Agents :
         /\ run[a] = "searched" /\ run' = [run EXCEPT ![a] = "recorded"]
         /\ links' = [links EXCEPT ![a] = shown[a] \cap InScope(a)]
  BY DEF RecordRunUsage
<1>2. UNCHANGED <<catalog, overtaken, revived, memories, req, shown>>
  BY DEF RecordRunUsage
<1>3. shown' \in [Agents -> SUBSET (1..MaxMemories)] /\ links' \in [Agents -> SUBSET (1..MaxMemories)]
  BY <1>1, <1>2 DEF IInv, TypeOK
<1>4. ShownIsOwned'
  BY <1>2 DEF IInv, ShownIsOwned
<1>5. UsageIsComplete'
  BY <1>1, <1>2 DEF IInv, TypeOK, ShownIsOwned, UsageIsComplete, InScope
<1> QED BY <1>1, <1>2, <1>3, <1>4, <1>5, UsageStep

\* The end of a run takes its usage with it.
LEMMA EndRunI == ASSUME IInv, EndRun PROVE IInv'
<1>1. PICK a \in Agents :
         /\ run[a] # "none" /\ run' = [run EXCEPT ![a] = "none"]
         /\ shown' = [shown EXCEPT ![a] = {}] /\ links' = [links EXCEPT ![a] = {}]
         /\ revived' = revived \ {a}
  BY DEF EndRun
<1>2. UNCHANGED <<catalog, overtaken, memories, req>>
  BY DEF EndRun
<1>3. /\ shown' \in [Agents -> SUBSET (1..MaxMemories)] /\ links' \in [Agents -> SUBSET (1..MaxMemories)]
      /\ overtaken' \in [Agents -> 0..MaxOvertaken] /\ revived' \in SUBSET Agents
  BY <1>1, <1>2 DEF IInv, TypeOK
<1>4. ShownIsOwned'
  BY <1>1, <1>2 DEF IInv, TypeOK, ShownIsOwned
<1>5. UsageIsComplete'
  BY <1>1, <1>2 DEF IInv, TypeOK, UsageIsComplete
<1> QED BY <1>1, <1>2, <1>3, <1>4, <1>5, RunStep

\* CreateMemory and DeleteMemory read a row.
LEMMA ReadRowI ==
    ASSUME IInv, NEW r \in Requests, CreateMemory(r) \/ DeleteMemory(r)
    PROVE  IInv'
<1>1. There \subseteq Nat /\ DOMAIN memories \subseteq Nat /\ {} \in SUBSET Agents
  BY DEF There, Agents, IInv, TypeOK
<1>2. CASE CreateMemory(r)
  <2>1. PICK a \in There : Begin(r, "insert_memory", a, {})
    BY <1>2 DEF CreateMemory
  <2> QED BY <1>1, <1>2, <2>1, BeginI DEF CreateMemory, catalog, usage
<1>3. CASE DeleteMemory(r)
  <2>1. PICK m \in DOMAIN memories : Begin(r, "delete_memory", m, {})
    BY <1>3 DEF DeleteMemory
  <2> QED BY <1>1, <1>3, <2>1, BeginI DEF DeleteMemory, catalog, usage
<1> QED BY <1>2, <1>3

\* A request that writes memories and returns, when none is lost, changes hands
\* or comes back to life.
LEMMA WriteMemories ==
    ASSUME IInv, NEW r \in Requests, Return(r), UNCHANGED <<catalog, usage>>,
           memories' \in Seq(MemoryRecord), Len(memories') <= MaxMemories,
           DOMAIN memories \subseteq DOMAIN memories',
           \A m \in DOMAIN memories :
              /\ memories'[m].agent = memories[m].agent
              /\ memories[m].state # "live" => memories'[m].state # "live"
    PROVE  IInv'
<1>1. \A p \in Requests : p # r /\ At(p, "delete") =>
         \A b \in There' : req[p].row \in graph'[b] => req[p].row \in raced'[b]
  BY DEF IInv, RequestsKnowTheirRows, At, There, catalog
<1>2. req' \in [Requests -> Request] /\ RequestsKnowTheirRows'
  BY <1>1, Returned DEF catalog, usage
<1>3. TypeOK'
  BY <1>2 DEF IInv, TypeOK, catalog, usage
<1>4. DanglingNeedsARace' /\ OnlyRevivedRunsLoseAgents'
  BY CatalogFrame DEF catalog, usage
<1>5. ShownIsOwned' /\ UsageIsComplete'
  BY MemoriesKeep DEF usage
<1> QED BY <1>2, <1>3, <1>4, <1>5 DEF IInv

\* InsertMemory adds a record of an agent that is there.
LEMMA InsertMemoryI == ASSUME IInv, NEW r \in Requests, InsertMemory(r) PROVE IInv'
<1>1. Return(r) /\ UNCHANGED <<catalog, usage>>
  BY DEF InsertMemory
<1>2. memories \in Seq(MemoryRecord) /\ Len(memories) <= MaxMemories /\ MaxMemories \in Nat
  BY CatalogAssumption DEF IInv, TypeOK
<1>3. CASE req[r].row \notin There
  <2>1. UNCHANGED memories
    BY <1>3 DEF InsertMemory
  <2> QED BY <1>1, <1>2, <2>1, WriteMemories
<1>4. CASE req[r].row \in There
  <2> DEFINE new == [agent |-> req[r].row, state |-> "live"]
  <2>1. new \in MemoryRecord
    BY <1>4 DEF There, MemoryRecord
  <2>2. memories' = Append(memories, new) /\ Len(memories) < MaxMemories
    BY <1>4 DEF InsertMemory
  <2> HIDE DEF new
  <2>3. /\ memories' \in Seq(MemoryRecord) /\ Len(memories') = Len(memories) + 1
        /\ \A m \in 1..Len(memories) : memories'[m] = memories[m]
    BY <1>2, <2>1, <2>2, AppendProperties
  <2>4. /\ DOMAIN memories = 1..Len(memories) /\ Len(memories) \in Nat
        /\ DOMAIN memories' = 1..(Len(memories) + 1)
    BY <1>2, <2>3
  <2>5. Len(memories') <= MaxMemories /\ DOMAIN memories \subseteq DOMAIN memories'
    BY <1>2, <2>2, <2>3, <2>4
  <2> QED BY <1>1, <2>3, <2>4, <2>5, WriteMemories
<1> QED BY <1>3, <1>4

\* MarkDeleted marks one record.
LEMMA MarkDeletedI == ASSUME IInv, NEW r \in Requests, MarkDeleted(r) PROVE IInv'
<1>1. PICK m \in DOMAIN memories : m = req[r].row
  BY DEF MarkDeleted, At, IInv, RequestsKnowTheirRows
<1>2. Return(r) /\ UNCHANGED <<catalog, usage>>
  BY DEF MarkDeleted
<1>3. memories \in Seq(MemoryRecord) /\ Len(memories) <= MaxMemories /\ memories[m] \in MemoryRecord
  BY DEF IInv, TypeOK
<1>4. CASE memories[m].state = "gone"
  <2>1. UNCHANGED memories
    BY <1>1, <1>4 DEF MarkDeleted
  <2> QED BY <1>2, <1>3, <2>1, WriteMemories
<1>5. CASE memories[m].state # "gone"
  <2> DEFINE new == [memories[m] EXCEPT !.state = "deleted"]
  <2>1. new \in MemoryRecord /\ new.agent = memories[m].agent /\ new.state # "live"
    BY <1>3 DEF MemoryRecord
  <2>2. memories' = [memories EXCEPT ![m] = new]
    BY <1>1, <1>5 DEF MarkDeleted
  <2>3. m \in 1..Len(memories) /\ DOMAIN memories = 1..Len(memories)
    BY <1>3
  <2> HIDE DEF new
  <2>4. /\ memories' \in Seq(MemoryRecord) /\ Len(memories') = Len(memories)
        /\ \A n \in 1..Len(memories) : memories'[n] = IF n = m THEN new ELSE memories[n]
    BY <1>3, <2>1, <2>2, <2>3, ExceptSeq
  <2>5. DOMAIN memories' = DOMAIN memories
    BY <2>3, <2>4
  <2> QED BY <1>2, <1>3, <2>1, <2>3, <2>4, <2>5, WriteMemories
<1> QED BY <1>4, <1>5

\* A restart leaves no request, no lock and no run.
LEMMA RestartI == ASSUME IInv, Restart PROVE IInv'
<1>1. TypeOK'
  <2>1. 0 \in 0..MaxOvertaken
    BY CatalogAssumption
  <2> QED BY <2>1 DEF Restart, IInv, TypeOK, Idle, Request
<1>2. RequestsKnowTheirRows'
  BY DEF Restart, Idle, RequestsKnowTheirRows
<1>3. ShownIsOwned' /\ UsageIsComplete' /\ OnlyRevivedRunsLoseAgents'
  BY DEF Restart, ShownIsOwned, UsageIsComplete, OnlyRevivedRunsLoseAgents
<1>4. DanglingNeedsARace'
  BY DEF Restart, IInv, DanglingNeedsARace, There
<1> QED BY <1>1, <1>2, <1>3, <1>4 DEF IInv

-----------------------------------------------------------------------------
(* The invariant.                                                          *)

\* The initial state satisfies the invariant.
LEMMA InitI == Init => IInv
<1> SUFFICES ASSUME Init PROVE IInv
  OBVIOUS
<1>1. TypeOK
  <2>1. Len(<<>>) <= MaxMemories /\ <<>> \in Seq(MemoryRecord)
    BY CatalogAssumption
  <2>2. memories \in Seq(MemoryRecord) /\ Len(memories) <= MaxMemories
    BY <2>1 DEF Init
  <2>3. req \in [Requests -> Request]
    BY DEF Init, Idle, Request
  <2>4. 0 \in 0..MaxOvertaken
    BY CatalogAssumption
  <2> QED BY <2>2, <2>3, <2>4 DEF Init, TypeOK
<1> QED BY <1>1 DEF Init, Idle, There, IInv, RequestsKnowTheirRows, ShownIsOwned, DanglingNeedsARace,
                    OnlyRevivedRunsLoseAgents, UsageIsComplete

\* So does the state after every step from one that satisfies it.
LEMMA NextI == IInv /\ [Next]_vars => IInv'
<1> SUFFICES ASSUME IInv, [Next]_vars PROVE IInv'
  OBVIOUS
<1>1. ASSUME NEW r \in Requests,
             \/ UpdateAgentGraph(r) \/ UpdateGraph(r) \/ DeleteAgent(r) \/ Delete(r)
             \/ CreateMemory(r) \/ InsertMemory(r) \/ DeleteMemory(r) \/ MarkDeleted(r)
      PROVE  IInv'
  BY <1>1, LockAgentI, UpdateGraphI, DeleteI, ReadRowI, InsertMemoryI, MarkDeletedI
<1>2. CASE \/ CreateAgent \/ StartRun \/ MarkRunning \/ Overtake \/ Revive
           \/ LoadMemory \/ EndRun \/ Restart
  BY <1>2, CreateAgentI, StartRunI, MarkOrOvertakeI, ReviveI, SearchI, RecordRunUsageI, EndRunI, RestartI DEF LoadMemory
<1>3. CASE UNCHANGED vars
  BY <1>3 DEF vars, IInv, TypeOK, RequestsKnowTheirRows, ShownIsOwned, DanglingNeedsARace, There,
              OnlyRevivedRunsLoseAgents, UsageIsComplete
<1> QED BY <1>1, <1>2, <1>3 DEF Next

\* Every reachable state satisfies the invariant.
THEOREM Invariance == Spec => []IInv
BY InitI, NextI, PTL DEF Spec

\* update_agent_graph and create_agent against delete_agent: a graph names an
\* agent that does not exist only where the two overlapped.
THEOREM NoDanglingWithoutRace == Spec => []DanglingNeedsARace
<1>1. IInv => DanglingNeedsARace
  BY DEF IInv
<1> QED BY <1>1, Invariance, PTL

\* delete_agent against start_run: an active run without its agent has been
\* revived by _mark_running between delete_agent's check and its DELETE.
THEOREM OnlyRevivedRunsAreCascaded == Spec => []OnlyRevivedRunsLoseAgents
<1>1. IInv => OnlyRevivedRunsLoseAgents
  BY DEF IInv
<1> QED BY <1>1, Invariance, PTL

\* _load_memory: a memory that was shown to a run and is not on its record has
\* been deleted.
THEOREM UsageOnRecord == Spec => []UsageIsComplete
<1>1. IInv => UsageIsComplete
  BY DEF IInv
<1> QED BY <1>1, Invariance, PTL

=============================================================================
