---------------------------- MODULE TeamPipeline ----------------------------
(***************************************************************************)
(* A team from its definition to its end: TeamGraph's parse_team_graph     *)
(* accepts or refuses a definition, and TeamRun runs the edges of an       *)
(* accepted one (runtime/team.py parses the definition again when the run  *)
(* starts).  What TeamRun takes for granted about its graph is here what   *)
(* the parser lets through.                                                *)
(***************************************************************************)
EXTENDS TeamRun, SequencesExt

CONSTANTS MaxWorkers,  \* orchestration_max_workers
          MaxEdges,    \* the limit of 200 edges
          MaxLength    \* bound: longest edge list that is tried

ASSUME PipelineAssumption == MaxWorkers \in Nat /\ MaxEdges \in Nat /\ MaxLength \in Nat

VARIABLES docNodes, docEdges, parsed, visiting, visited, path, at

search == <<visiting, visited, path, at>>
doc == <<docNodes, docEdges, parsed, search>>

Parser == INSTANCE TeamGraph WITH NodeIds <- Nodes, nodes <- docNodes, edges <- docEdges, verdict <- parsed

PInit == Parser!Init /\ edges = {} /\ Fresh

ParseDefinition == Parser!Parse /\ UNCHANGED vars

\* The definition of a team of all Nodes is run; it is not read again.
Invoke ==
    /\ parsed = "team" /\ ToSet(docNodes) = Nodes
    /\ edges' = ToSet(docEdges)
    /\ parsed' = "started" /\ docNodes' = <<>> /\ docEdges' = <<>>
    /\ UNCHANGED <<search, parentVars, nodeVars, childVars, stopVars>>

RunTeam == parsed = "started" /\ Next /\ UNCHANGED doc

PNext == ParseDefinition \/ Invoke \/ RunTeam

PSpec == PInit /\ [][PNext]_<<vars, doc>>

-----------------------------------------------------------------------------

\* The depth-first search of _ensure_dag accepts exactly the graphs whose workers
\* can be scheduled, repeated edges and unconnected parts included.
ParsedTeamsAreSchedulable == Parser!TeamsAreSchedulable
-----------------------------------------------------------------------------
(* The inductive invariant.                                                *)

\* Before the start nothing of TeamRun has moved; after it the graph is one that
\* the parser lets through.
PipelineInv ==
    /\ IInv
    /\ IF parsed = "started"
       THEN edges \in Graphs /\ docNodes = <<>> /\ docEdges = <<>> /\ Parser!NoSearch
       ELSE edges = {} /\ Fresh /\ Parser!IInv
=============================================================================
