---------------------------- MODULE AgentCatalog ----------------------------
(***************************************************************************)
(* The catalogue of agents and their memories: create_agent,               *)
(* update_agent_graph, delete_agent and the admission of runs in           *)
(* services/manager.py, MemoryService (services/memory.py) with its        *)
(* repository, and Lexi's memory step (runtime/lexi.py _load_memory).      *)
(*                                                                         *)
(* A team graph is the set of agents its nodes name; a graph that is not a *)
(* team names none.  update_agent_graph, delete_agent and start_run hold   *)
(* the asyncio lock of their own agent, and of no other: nothing keeps the *)
(* agents a graph names in place between the SELECTs of its validation and *)
(* its UPDATE, nor the other graphs as they are between delete_agent's     *)
(* scan and its DELETE.  As in AuthSessions, SELECTs before the first      *)
(* write are a step, and the first write up to the commit is one step.     *)
(*                                                                         *)
(* run[a] is the row of a's active run together with what its task has     *)
(* done.  A stop that found no task may fail the row under a task that is  *)
(* about to mark it running (RunLifecycle): such a task is followed here   *)
(* because it may revive the row.  A task that has marked its row and goes *)
(* on behind a failed one is not: no row of it is active any more.         *)
(***************************************************************************)
EXTENDS Naturals, FiniteSets, Sequences

CONSTANTS
    NumAgents,    \* bound: agents that may be created
    Requests,     \* the requests that can be in progress at once
    MaxMemories,  \* bound: memory records that may be created
    MaxResults,   \* settings.memory_max_results
    MaxOvertaken, \* bound: tasks of an agent about to revive a failed row
    None          \* no request

ASSUME CatalogAssumption ==
    /\ IsFiniteSet(Requests) /\ None \notin Requests
    /\ {NumAgents, MaxMemories, MaxResults, MaxOvertaken} \subseteq Nat

VARIABLES
    status,    \* status[a]: "unborn", "there" or "gone" (its row of agents)
    graph,     \* graph[a]: the agents a's team graph names
    raced,     \* history: those of them whose deletion overlapped the graph's commit
    lock,      \* lock[a]: the request that holds a's lock
    run,       \* run[a]: how far a's active run is
    shown,     \* shown[a]: the memories a's active run found
    links,     \* links[a]: its rows of run_memory_records
    overtaken, \* overtaken[a]: its tasks whose row was failed after they read it as active
    revived,   \* history: agents whose active run came back under a deletion past its check
    memories,  \* rows of memory_records
    req        \* req[r]: where request r is and what it has read

vars == <<status, graph, raced, lock, run, shown, links, overtaken, revived, memories, req>>

catalog == <<status, graph, raced, lock>>
usage == <<run, shown, links, overtaken, revived>>

-----------------------------------------------------------------------------
Agents == 1..NumAgents

There == {a \in Agents : status[a] = "there"}

(* A memory is deleted by delete (deleted_at) or gone with its agent. *)
MemoryRecord == [agent : Agents, state : {"live", "deleted", "gone"}]

Request ==
    [at : {"idle", "update", "delete", "insert_memory", "delete_memory"},
     row : Nat, graph : SUBSET Agents]

Idle == [at |-> "idle", row |-> 0, graph |-> {}]

(* Type correctness; a team never names itself. *)
TypeOK ==
    /\ status \in [Agents -> {"unborn", "there", "gone"}]
    /\ graph \in [Agents -> SUBSET Agents] /\ \A a \in Agents : a \notin graph[a]
    /\ raced \in [Agents -> SUBSET Agents]
    /\ lock \in [Agents -> Requests \cup {None}]
    /\ run \in [Agents -> {"none", "queued", "started", "searched", "recorded"}]
    /\ overtaken \in [Agents -> 0..MaxOvertaken]
    /\ revived \subseteq Agents
    /\ shown \in [Agents -> SUBSET (1..MaxMemories)]
    /\ links \in [Agents -> SUBSET (1..MaxMemories)]
    /\ memories \in Seq(MemoryRecord) /\ Len(memories) <= MaxMemories
    /\ req \in [Requests -> Request]

Init ==
    /\ status = [a \in Agents |-> "unborn"]
    /\ graph = [a \in Agents |-> {}]
    /\ raced = [a \in Agents |-> {}]
    /\ lock = [a \in Agents |-> None]
    /\ run = [a \in Agents |-> "none"]
    /\ shown = [a \in Agents |-> {}]
    /\ links = [a \in Agents |-> {}]
    /\ overtaken = [a \in Agents |-> 0]
    /\ revived = {}
    /\ memories = <<>>
    /\ req = [r \in Requests |-> Idle]

-----------------------------------------------------------------------------
At(r, label) == req[r].at = label

Begin(r, label, row, g) ==
    At(r, "idle") /\ req' = [req EXCEPT ![r] = [at |-> label, row |-> row, graph |-> g]]

Return(r) == req' = [req EXCEPT ![r] = Idle]

Acquire(r, a) == lock[a] = None /\ lock' = [lock EXCEPT ![a] = r]

Release(a) == lock' = [lock EXCEPT ![a] = None]

(* _validate_team_graph: every node's agent exists and is not the owner. *)
ValidGraph(g, owner) == g \subseteq There /\ owner \notin g

(* History: the agents of g that a deletion has taken away, or is about to, *)
(* when g is committed.                                                      *)
Overlapped(g) ==
    {b \in g : b \notin There \/ \E r \in Requests : At(r, "delete") /\ req[r].row = b}

-----------------------------------------------------------------------------
(* Agents.                                                                 *)

(* create_agent validates the graph before its INSERT and, with the new     *)
(* agent's id, once more inside the transaction.  Only the second counts.   *)
CreateAgent ==
    \E a \in Agents, g \in SUBSET Agents :
        /\ status[a] = "unborn"
        /\ \A b \in 1..(a - 1) : status[b] # "unborn"
        /\ ValidGraph(g, a)
        /\ status' = [status EXCEPT ![a] = "there"]
        /\ graph' = [graph EXCEPT ![a] = g]
        /\ raced' = [raced EXCEPT ![a] = Overlapped(g)]
        /\ UNCHANGED <<lock, usage, memories, req>>

(* update_agent_graph: under the agent's lock, its row and the agents the   *)
(* new graph names are read ...                                             *)
UpdateAgentGraph(r) ==
    /\ \E a \in There, g \in SUBSET Agents :
         Acquire(r, a) /\ ValidGraph(g, a) /\ Begin(r, "update", a, g)
    /\ UNCHANGED <<status, graph, raced, usage, memories>>

(* ... and the graph is written. *)
UpdateGraph(r) ==
    /\ At(r, "update")
    /\ LET a == req[r].row
           g == req[r].graph IN
       /\ graph' = [graph EXCEPT ![a] = g]
       /\ raced' = [raced EXCEPT ![a] = Overlapped(g)]
       /\ Release(a)
    /\ Return(r)
    /\ UNCHANGED <<status, usage, memories>>

(* Mutant: the other agents' graphs are not scanned. *)
DeleteUnscanned(r) ==
    /\ \E a \in There : Acquire(r, a) /\ run[a] = "none" /\ Begin(r, "delete", a, {})
    /\ UNCHANGED <<status, graph, raced, usage, memories>>

(* Mutant: a run of the agent does not keep it. *)
DeleteWhileRunning(r) ==
    /\ \E a \in There : Acquire(r, a) /\ (\A b \in There : a \notin graph[b]) /\ Begin(r, "delete", a, {})
    /\ UNCHANGED <<status, graph, raced, usage, memories>>

(* delete_agent: under the agent's lock, no active run and no graph that    *)
(* names it ...                                                             *)
DeleteAgent(r) ==
    /\ \E a \in There :
         /\ Acquire(r, a)
         /\ run[a] = "none"
         /\ \A b \in There : a \notin graph[b]
         /\ Begin(r, "delete", a, {})
    /\ UNCHANGED <<status, graph, raced, usage, memories>>

(* ON DELETE CASCADE of memory_records.agent_id. *)
Cascade(a) ==
    [m \in DOMAIN memories |->
        IF memories[m].agent = a THEN [memories[m] EXCEPT !.state = "gone"] ELSE memories[m]]

(* ... and the row is deleted, with its memories, its runs and their links. *)
Delete(r) ==
    /\ At(r, "delete")
    /\ LET a == req[r].row IN
       /\ status' = [status EXCEPT ![a] = "gone"]
       /\ graph' = [graph EXCEPT ![a] = {}]
       /\ raced' = [raced EXCEPT ![a] = {}]
       /\ memories' = Cascade(a)
       /\ links' = [links EXCEPT ![a] = {}]
       /\ Release(a)
    /\ Return(r)
    /\ UNCHANGED <<run, shown, overtaken, revived>>

-----------------------------------------------------------------------------
(* Runs.                                                                   *)

(* _start_run: under the lock and in one BEGIN IMMEDIATE transaction, the   *)
(* graph is validated again and the run inserted.                           *)
StartRun ==
    /\ \E a \in There :
         /\ lock[a] = None
         /\ run[a] = "none"
         /\ ValidGraph(graph[a], a)
         /\ run' = [run EXCEPT ![a] = "queued"]
    /\ UNCHANGED <<catalog, shown, links, overtaken, revived, memories, req>>

(* _mark_running, when nothing comes between its SELECT and its UPDATE. *)
MarkRunning ==
    /\ \E a \in Agents : run[a] = "queued" /\ run' = [run EXCEPT ![a] = "started"]
    /\ UNCHANGED <<catalog, shown, links, overtaken, revived, memories, req>>

(* stop_run found no handle, and its _finish_failed ends the row after       *)
(* _mark_running has read it as active ...                                   *)
Overtake ==
    /\ \E a \in Agents :
         /\ run[a] = "queued" /\ overtaken[a] < MaxOvertaken
         /\ run' = [run EXCEPT ![a] = "none"]
         /\ overtaken' = [overtaken EXCEPT ![a] = @ + 1]
    /\ UNCHANGED <<catalog, shown, links, revived, memories, req>>

(* ... and its UPDATE by primary key makes the row running again, unless it  *)
(* is gone or the unique index finds another active run of the agent.        *)
Revive ==
    /\ \E a \in Agents :
         /\ overtaken[a] > 0
         /\ overtaken' = [overtaken EXCEPT ![a] = @ - 1]
         /\ IF a \in There /\ run[a] = "none"
            THEN /\ run' = [run EXCEPT ![a] = "started"]
                 /\ revived' = IF \E r \in Requests : At(r, "delete") /\ req[r].row = a
                               THEN revived \cup {a} ELSE revived
            ELSE UNCHANGED <<run, revived>>
    /\ UNCHANGED <<catalog, shown, links, memories, req>>

(* search: at most memory_max_results live records of the agent; which of   *)
(* them depends on the query and on the context budget.                     *)
InScope(a) == {m \in DOMAIN memories : memories[m].agent = a /\ memories[m].state = "live"}

Search ==
    /\ \E a \in Agents, found \in SUBSET (1..MaxMemories) :
         /\ run[a] = "started"
         /\ found \subseteq InScope(a) /\ Cardinality(found) <= MaxResults
         /\ run' = [run EXCEPT ![a] = "searched"]
         /\ shown' = [shown EXCEPT ![a] = found]
    /\ UNCHANGED <<catalog, links, overtaken, revived, memories, req>>

(* Mutant: only the best match is recorded. *)
RecordBestOnly ==
    /\ \E a \in Agents :
         /\ run[a] = "searched"
         /\ run' = [run EXCEPT ![a] = "recorded"]
         /\ links' = [links EXCEPT ![a] = {m \in shown[a] \cap InScope(a) : \A n \in shown[a] : m <= n}]
    /\ UNCHANGED <<catalog, shown, overtaken, revived, memories, req>>

(* record_run_usage: each match is read again, and linked if it is still in *)
(* scope.                                                                   *)
RecordRunUsage ==
    /\ \E a \in Agents :
         /\ run[a] = "searched"
         /\ run' = [run EXCEPT ![a] = "recorded"]
         /\ links' = [links EXCEPT ![a] = shown[a] \cap InScope(a)]
    /\ UNCHANGED <<catalog, shown, overtaken, revived, memories, req>>

(* Lexi's memory step: the search, then the record of what it found. *)
LoadMemory == Search \/ RecordRunUsage

(* The run ends, in any other way. *)
EndRun ==
    /\ \E a \in Agents :
         /\ run[a] # "none"
         /\ run' = [run EXCEPT ![a] = "none"]
         /\ shown' = [shown EXCEPT ![a] = {}]
         /\ links' = [links EXCEPT ![a] = {}]
         /\ revived' = revived \ {a}
    /\ UNCHANGED <<catalog, overtaken, memories, req>>

-----------------------------------------------------------------------------
(* Memories.                                                               *)

(* The route looks the agent up ... *)
CreateMemory(r) ==
    /\ \E a \in There : Begin(r, "insert_memory", a, {})
    /\ UNCHANGED <<catalog, usage, memories>>

(* ... and create inserts the record, unless the foreign key finds the agent *)
(* deleted meanwhile.                                                        *)
InsertMemory(r) ==
    /\ At(r, "insert_memory")
    /\ IF req[r].row \in There
       THEN /\ Len(memories) < MaxMemories
            /\ memories' = Append(memories, [agent |-> req[r].row, state |-> "live"])
       ELSE UNCHANGED memories
    /\ Return(r)
    /\ UNCHANGED <<catalog, usage>>

(* delete reads the record in its scope ... *)
DeleteMemory(r) ==
    /\ \E m \in DOMAIN memories : memories[m].state = "live" /\ Begin(r, "delete_memory", m, {})
    /\ UNCHANGED <<catalog, usage, memories>>

(* ... and marks it, if its row still exists.  The mark is set again on a   *)
(* record that another request has marked.                                  *)
MarkDeleted(r) ==
    /\ At(r, "delete_memory")
    /\ memories' = IF memories[req[r].row].state = "gone" THEN memories
                   ELSE [memories EXCEPT ![req[r].row].state = "deleted"]
    /\ Return(r)
    /\ UNCHANGED <<catalog, usage>>

-----------------------------------------------------------------------------
(* A crash and the restart after it: the requests and the locks are gone,   *)
(* recovery ends every run, and no task is left to revive one.              *)
Restart ==
    /\ lock' = [a \in Agents |-> None]
    /\ run' = [a \in Agents |-> "none"]
    /\ shown' = [a \in Agents |-> {}]
    /\ links' = [a \in Agents |-> {}]
    /\ overtaken' = [a \in Agents |-> 0]
    /\ revived' = {}
    /\ req' = [r \in Requests |-> Idle]
    /\ UNCHANGED <<status, graph, raced, memories>>

Next ==
    \/ CreateAgent
    \/ \E r \in Requests :
         \/ UpdateAgentGraph(r) \/ UpdateGraph(r) \/ DeleteAgent(r) \/ Delete(r)
         \/ CreateMemory(r) \/ InsertMemory(r) \/ DeleteMemory(r) \/ MarkDeleted(r)
    \/ StartRun \/ MarkRunning \/ Overtake \/ Revive \/ LoadMemory \/ EndRun
    \/ Restart

Spec == Init /\ [][Next]_vars

-----------------------------------------------------------------------------
(* Properties.                                                             *)

(* A graph names an agent that does not exist only where the agent's        *)
(* deletion overlapped the commit of the graph (update_agent_graph and      *)
(* create_agent against delete_agent); one at a time they never leave such  *)
(* a graph behind.                                                          *)
DanglingNeedsARace ==
    \A a \in There : graph[a] \ There \subseteq raced[a]

(* Does not hold, and no run checks it.  "An active run prevents deleting   *)
(* this agent", delete_agent says (manager.py:125); a failed run that       *)
(* _mark_running revives between that check and the DELETE does not.        *)
RunningAgentsExist == \A a \in Agents : run[a] # "none" => status[a] = "there"

(* An agent's deletion, which cascades to its runs, finds an active one     *)
(* only if that run was revived between delete_agent's check and its        *)
(* DELETE: a start never slips in there, because delete_agent and start_run *)
(* share the agent's lock.                                                  *)
OnlyRevivedRunsLoseAgents ==
    \A a \in Agents : run[a] # "none" /\ a \notin revived => status[a] = "there"

(* The record of the memories a run was given is complete (_load_memory):   *)
(* once it is written, a memory that was shown to the model and is not      *)
(* linked is one that has been deleted.                                     *)
UsageIsComplete ==
    \A a \in Agents :
        run[a] = "recorded" =>
            /\ links[a] \subseteq shown[a]
            /\ \A m \in shown[a] \ links[a] : memories[m].state # "live"

-----------------------------------------------------------------------------
(* The inductive invariant: what AgentCatalogProofs proves the properties   *)
(* from.                                                                    *)

(* A request that has read an agent holds its lock, an agent about to be    *)
(* deleted has no run but a revived one, and a graph that names it has been *)
(* committed since delete_agent scanned the graphs.                         *)
RequestsKnowTheirRows ==
    \A r \in Requests :
        /\ req[r].at \in {"update", "delete"} => req[r].row \in Agents /\ lock[req[r].row] = r
        /\ req[r].at = "update" => req[r].row \notin req[r].graph
        /\ req[r].at = "delete" =>
             /\ run[req[r].row] = "none" \/ req[r].row \in revived
             /\ \A b \in There : req[r].row \in graph[b] => req[r].row \in raced[b]
        /\ req[r].at = "delete_memory" => req[r].row \in DOMAIN memories

(* A run is shown memories of its own agent, and their rows are kept. *)
ShownIsOwned ==
    \A a \in Agents : \A m \in shown[a] : m \in DOMAIN memories /\ memories[m].agent = a

IInv ==
    /\ TypeOK
    /\ RequestsKnowTheirRows
    /\ ShownIsOwned
    /\ DanglingNeedsARace
    /\ OnlyRevivedRunsLoseAgents
    /\ UsageIsComplete

=============================================================================
