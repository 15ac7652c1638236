------------------------------ MODULE TeamGraph ------------------------------
(***************************************************************************)
(* parse_team_graph (domain/orchestration.py): which version 2 graph       *)
(* definitions become teams.  A definition is reduced to the ids of its    *)
(* nodes and the end points of its edges, both lists in document order;    *)
(* the checks on single fields are left out.                               *)
(*                                                                         *)
(* The recursive search for a cycle is told one turn of a loop at a time,  *)
(* with the stack of the calls of visit in a variable of its own.          *)
(***************************************************************************)
EXTENDS Naturals, Sequences, FiniteSets, SequencesExt

CONSTANTS NodeIds,     \* ids a definition may mention
          MaxWorkers,  \* orchestration_max_workers
          MaxEdges,    \* the limit of 200 edges
          MaxLength    \* bound: longest edge list that is tried

VARIABLES
    nodes, edges,       \* the two lists of the definition
    verdict,            \* "unread", "searching", "team" or the code of an error
    visiting, visited,  \* the sets of _ensure_dag
    path,               \* node ids of the calls of visit that are under way
    at                  \* how far _ensure_dag and each of those calls are in their loops

search == <<visiting, visited, path, at>>
vars == <<nodes, edges, verdict, search>>

Edges == NodeIds \X NodeIds

TypeOK ==
    /\ nodes \in Seq(NodeIds) /\ edges \in Seq(Edges)
    /\ verdict \in {"unread", "searching", "team", "WORKER_LIMIT_EXCEEDED", "INVALID_TEAM_GRAPH"}
    /\ visiting \subseteq NodeIds /\ visited \subseteq NodeIds
    /\ path \in Seq(NodeIds) /\ at \in Seq(Nat)

NoSearch == visiting = {} /\ visited = {} /\ path = <<>> /\ at = <<0>>

Init ==
    /\ nodes \in UNION {[1 .. k -> NodeIds] : k \in 0 .. MaxWorkers + 1}
    /\ edges \in UNION {[1 .. k -> Edges] : k \in 0 .. MaxLength}
    /\ verdict = "unread" /\ NoSearch

-----------------------------------------------------------------------------
(* Up to the search.                                                       *)

\* The checks on the two lists.
WellFormed ==
    /\ nodes # <<>> /\ Len(edges) <= MaxEdges
    /\ IsInjective(nodes)
    /\ \A i \in DOMAIN edges :
          /\ edges[i][1] \in ToSet(nodes) /\ edges[i][2] \in ToSet(nodes)
          /\ edges[i][1] # edges[i][2]

Read ==
    /\ verdict = "unread"
    /\ verdict' = IF Len(nodes) > MaxWorkers THEN "WORKER_LIMIT_EXCEEDED"
                  ELSE IF WellFormed THEN "searching" ELSE "INVALID_TEAM_GRAPH"
    /\ UNCHANGED <<nodes, edges, search>>

-----------------------------------------------------------------------------
(* _ensure_dag.  Loop 1 is its own, over the nodes; loop k + 1 is that of  *)
(* visit(path[k]), over the edges that leave path[k].                      *)

Innermost == Len(at)

\* Positions of loop k's ids in the list it goes through, and the id at one.
Loop(k) == IF k = 1 THEN DOMAIN nodes ELSE {i \in DOMAIN edges : edges[i][1] = path[k - 1]}
Id(k, i) == IF k = 1 THEN nodes[i] ELSE edges[i][2]

Ahead(k) == {i \in Loop(k) : i > at[k]}

\* The locals go with the call.
Conclude(v) ==
    /\ verdict' = v
    /\ visiting' = {} /\ visited' = {} /\ path' = <<>> /\ at' = <<0>>
    /\ UNCHANGED <<nodes, edges>>

\* visit(n) for the next id of the innermost loop.
Visit ==
    /\ verdict = "searching"
    /\ \E i \in Ahead(Innermost) :
          LET n == Id(Innermost, i)
              moved == [at EXCEPT ![Innermost] = i]
          IN  /\ \A j \in Ahead(Innermost) : i <= j
              /\ \/ n \in visiting /\ Conclude("INVALID_TEAM_GRAPH")
                 \/ /\ n \in visited \ visiting
                    /\ at' = moved
                    /\ UNCHANGED <<nodes, edges, verdict, visiting, visited, path>>
                 \/ /\ n \notin visiting \cup visited
                    /\ visiting' = visiting \cup {n}
                    /\ path' = Append(path, n) /\ at' = Append(moved, 0)
                    /\ UNCHANGED <<nodes, edges, verdict, visited>>

\* Mutant: the node is not taken out of visiting.
ReturnStillVisiting ==
    /\ verdict = "searching" /\ path # <<>> /\ Ahead(Innermost) = {}
    /\ visited' = visited \cup {Last(path)}
    /\ path' = Front(path) /\ at' = Front(at)
    /\ UNCHANGED <<nodes, edges, verdict, visiting>>

\* The innermost call of visit has gone through its successors.
Return ==
    /\ verdict = "searching" /\ path # <<>> /\ Ahead(Innermost) = {}
    /\ visiting' = visiting \ {Last(path)}
    /\ visited' = visited \cup {Last(path)}
    /\ path' = Front(path) /\ at' = Front(at)
    /\ UNCHANGED <<nodes, edges, verdict>>

Accept == verdict = "searching" /\ path = <<>> /\ Ahead(Innermost) = {} /\ Conclude("team")

Parse == Read \/ Visit \/ Return \/ Accept

Next == Parse

Spec == Init /\ [][Next]_vars

-----------------------------------------------------------------------------

\* Reference: whatever part of the graph is left, one of its workers depends on
\* no other worker in it.  This is what _run_graph's waves need to go on.
Schedulable ==
    \A S \in SUBSET ToSet(nodes) : S # {} => \E n \in S : \A m \in S : <<m, n>> \notin ToSet(edges)

\* The depth-first search of _ensure_dag accepts exactly the graphs that can be
\* scheduled, repeated edges and unconnected parts included.
TeamsAreSchedulable ==
    /\ verdict = "team" => WellFormed /\ Schedulable /\ Len(nodes) <= MaxWorkers
    /\ verdict = "INVALID_TEAM_GRAPH" => ~(WellFormed /\ Schedulable)

-----------------------------------------------------------------------------
(* The inductive invariant.                                                *)

\* What a loop has to go through, and what it has come to: visited, or the call
\* it is waiting for, or still ahead.
Wanted(k) == {Id(k, i) : i \in Loop(k)}
Reached(k) == visited \cup {path[j] : j \in DOMAIN path \cap {k}} \cup {Id(k, i) : i \in Ahead(k)}

\* The stack is a path of the graph without repetition, and it is visiting.
PathInv ==
    /\ Len(at) = Len(path) + 1
    /\ IsInjective(path) /\ ToSet(path) = visiting /\ visiting \cap visited = {}
    /\ \A k \in 2 .. Len(path) : <<path[k - 1], path[k]>> \in ToSet(edges)

\* Visited nodes: with one of them its successors, and any set of them has one
\* that no other member leads to.
VisitedInv ==
    /\ visiting \cup visited \subseteq ToSet(nodes)
    /\ \A e \in ToSet(edges) : e[1] \in visited => e[2] \in visited
    /\ \A S \in SUBSET visited : S # {} => \E n \in S : \A m \in S : <<m, n>> \notin ToSet(edges)

SearchInv ==
    verdict = "searching" =>
        /\ WellFormed /\ Len(nodes) <= MaxWorkers
        /\ PathInv /\ VisitedInv
        /\ \A k \in DOMAIN at : Wanted(k) \subseteq Reached(k)

IInv ==
    /\ TypeOK
    /\ verdict # "searching" => NoSearch
    /\ SearchInv /\ TeamsAreSchedulable
=============================================================================
