--------------------------- MODULE TopologicalOrder ---------------------------
(***************************************************************************)
(* TaskGraph.topological_order (agents/planner/planner.py): Kahn's         *)
(* algorithm with a FIFO ready list, one list operation per step.  The     *)
(* graph is whatever plan file or planner produced it: node ids may repeat *)
(* and edges may repeat, form cycles or name tasks that do not exist.      *)
(***************************************************************************)
EXTENDS Plans, SequencesExt

CONSTANTS
    NodeLists,  \* sequences of task ids: the nodes field
    EdgeLists   \* sequences of edges: the edges field

ASSUME GraphAssumption ==
    /\ \A list \in NodeLists : list \in Seq(ToSet(list))
    /\ \A list \in EdgeLists : list \in Seq(ToSet(list))

VARIABLES
    nodes, edges,   \* the graph, fixed during the call
    indegree,       \* predecessors of each node not yet ordered
    ready,          \* ids free to be ordered
    order,          \* ids ordered so far
    relaxing,       \* places in edges of the last ordered id's successors still to visit
    result          \* "building", "running", or how the call ended

graph == <<nodes, edges>>
vars == <<nodes, edges, indegree, ready, order, relaxing, result>>

Ids == ToSet(nodes)

\* by_id and indegree are dicts: a repeated id is one key, at its first place.
KeyPlaces == {i \in DOMAIN nodes : \A j \in 1 .. i - 1 : nodes[j] # nodes[i]}

\* The members of a finite set of places, from first to last.
InOrder(places) ==
    [n \in 1 .. Cardinality(places) |->
        CHOOSE i \in places : Cardinality({j \in places : j <= i}) = n]

InEdges(id) == {i \in DOMAIN edges : edges[i].after = id}

\* succ[id], as the places of id's edges: they are visited in edge order.
Successors(id) == {i \in DOMAIN edges : edges[i].before = id}

TypeOK ==
    /\ nodes \in NodeLists /\ edges \in EdgeLists
    /\ indegree \in [Ids -> Nat]
    /\ ready \in Seq(Ids) /\ order \in Seq(Ids) /\ relaxing \subseteq DOMAIN edges
    /\ result \in {"building", "running", "ordered", "cycle", "key_error"}

Init ==
    /\ nodes \in NodeLists /\ edges \in EdgeLists
    /\ indegree = [id \in Ids |-> 0]
    /\ ready = <<>> /\ order = <<>> /\ relaxing = {}
    /\ result = "building"

Dangling == \E i \in DOMAIN edges : ~({edges[i].before, edges[i].after} \subseteq Ids)

\* An edge to a task that is not a node ends the call with a KeyError.
DanglingEdge ==
    /\ result = "building" /\ Dangling
    /\ result' = "key_error"
    /\ UNCHANGED <<indegree, ready, order, relaxing, graph>>

CountPredecessors ==
    /\ result = "building" /\ ~Dangling
    /\ indegree' = [id \in Ids |-> Cardinality(InEdges(id))]
    /\ LET roots == InOrder({i \in KeyPlaces : InEdges(nodes[i]) = {}})
       IN  ready' = [n \in DOMAIN roots |-> nodes[roots[n]]]
    /\ result' = "running"
    /\ UNCHANGED <<order, relaxing, graph>>

TakeReady ==
    /\ result = "running" /\ relaxing = {} /\ ready # <<>>
    /\ order' = Append(order, Head(ready))
    /\ ready' = Tail(ready)
    /\ relaxing' = Successors(Head(ready))
    /\ UNCHANGED <<indegree, result, graph>>

\* A bug that frees a task as soon as one predecessor is ordered.
MutantRelax ==
    /\ result = "running" /\ relaxing # {}
    /\ LET next == edges[Min(relaxing)].after
       IN  /\ indegree' = [indegree EXCEPT ![next] = @ - 1]
           /\ ready' = IF next \notin ToSet(ready) THEN Append(ready, next) ELSE ready
    /\ relaxing' = relaxing \ {Min(relaxing)}
    /\ UNCHANGED <<order, result, graph>>

\* A bug that tests the count before it is decremented.
MutantRelaxLate ==
    /\ result = "running" /\ relaxing # {}
    /\ LET next == edges[Min(relaxing)].after
       IN  /\ indegree' = [indegree EXCEPT ![next] = @ - 1]
           /\ ready' = IF indegree[next] = 0 THEN Append(ready, next) ELSE ready
    /\ relaxing' = relaxing \ {Min(relaxing)}
    /\ UNCHANGED <<order, result, graph>>

Relax ==
    /\ result = "running" /\ relaxing # {}
    /\ LET next == edges[Min(relaxing)].after
       IN  /\ indegree' = [indegree EXCEPT ![next] = @ - 1]
           /\ ready' = IF indegree[next] = 1 THEN Append(ready, next) ELSE ready
    /\ relaxing' = relaxing \ {Min(relaxing)}
    /\ UNCHANGED <<order, result, graph>>

\* A bug that goes on until every node is ordered: a cycle never frees one.
MutantFinish ==
    /\ result = "running" /\ relaxing = {} /\ ready = <<>>
    /\ result' = IF Len(order) = Len(nodes) THEN "ordered" ELSE result
    /\ UNCHANGED <<indegree, ready, order, relaxing, graph>>

\* The list of nodes, not the set of ids, must have been ordered in full.
Finish ==
    /\ result = "running" /\ relaxing = {} /\ ready = <<>>
    /\ result' = IF Len(order) = Len(nodes) THEN "ordered" ELSE "cycle"
    /\ UNCHANGED <<indegree, ready, order, relaxing, graph>>

Next == DanglingEdge \/ CountPredecessors \/ TakeReady \/ Relax \/ Finish

Spec == Init /\ [][Next]_vars /\ WF_vars(Next)

-----------------------------------------------------------------------------
(* Properties *)

GraphPlan == [nodes |-> [id \in Ids |-> id], edges |-> ToSet(edges)]

\* "before must complete before after starts" (Edge): whatever is returned
\* lists every task once, after all its predecessors -- also at every moment
\* before that, for the tasks ordered so far.
PredecessorsFirst ==
    /\ \A i \in DOMAIN order :
          Predecessors(GraphPlan, order[i]) \subseteq {order[j] : j \in 1 .. i - 1}
    /\ result = "ordered" => IsTopologicalOrder(order, GraphPlan)

\* The call refuses exactly the graphs that have no such order, or that name
\* a task twice: no orderable graph is called cyclic.
RefusesOnlyUnorderable ==
    result = "cycle" =>
        \/ Len(nodes) # Cardinality(Ids)
        \/ \E id \in Ids : id \in Ancestors(GraphPlan, id)

\* Every call ends, also on a cyclic graph.
Ends == <>(result \in {"ordered", "cycle", "key_error"})
=============================================================================
