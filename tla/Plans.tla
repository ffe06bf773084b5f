-------------------------------- MODULE Plans --------------------------------
(***************************************************************************)
(* The records that pass between the planner, the adapters, the safety     *)
(* gate and the execution session: tasks, task graphs and commands         *)
(* (agents/codegen/base.py, agents/planner/planner.py).                    *)
(*                                                                         *)
(* A task graph keeps its nodes as a function from task ids to tasks: the  *)
(* code indexes them by id the same way.  An argv token is a string; the   *)
(* tokens that parse as an IP network stand for the addresses they denote. *)
(***************************************************************************)
EXTENDS Naturals, Sequences, FiniteSets

CONSTANTS
    Network,    \* [network literals -> the set of addresses each denotes]
    NoTask      \* task_id=""

ASSUME PlansAssumption == \A n \in DOMAIN Network : Network[n] # {}

\* ExecutionEnv (base.py:25): only the first is accepted by a Phase I build.
CALDERA_ONLY == "caldera_only"

\* The tactics the checks tell apart (AttackTechnique, base.py:33).
IMPACT == "impact"

Edge(before, after) == [before |-> before, after |-> after]

TaskIds(plan) == DOMAIN plan.nodes

\* A Task, a TaskGraph: the fields anything here reads, and no others.
IsTask(task) ==
    /\ task = [intent |-> task.intent, target_scope |-> task.target_scope,
               techniques |-> task.techniques, operator_approved |-> task.operator_approved,
               phase |-> task.phase]
    /\ task.operator_approved \in BOOLEAN

IsTaskGraph(plan) ==
    /\ plan = [nodes |-> plan.nodes, edges |-> plan.edges]
    /\ plan.nodes = [id \in TaskIds(plan) |-> plan.nodes[id]]
    /\ \A id \in TaskIds(plan) : IsTask(plan.nodes[id])

Predecessors(plan, id) == {e.before : e \in {f \in plan.edges : f.after = id}}

\* Tasks that must finish, directly or not, before id may start: the least
\* set that holds id's predecessors and those of its members.
Ancestors(plan, id) ==
    {a \in TaskIds(plan) :
        \A S \in SUBSET TaskIds(plan) :
            /\ Predecessors(plan, id) \subseteq S
            /\ \A x \in S : Predecessors(plan, x) \subseteq S
            => a \in S}

\* order lists every task of the plan once, each after its predecessors.
IsTopologicalOrder(order, plan) ==
    /\ Len(order) = Cardinality(TaskIds(plan))
    /\ {order[i] : i \in DOMAIN order} = TaskIds(plan)
    /\ \A e \in plan.edges : \E i, j \in DOMAIN order :
          i < j /\ order[i] = e.before /\ order[j] = e.after

\* tok parses as an IP network (plan_consistency.py:94).
IsIpLike(tok) == tok \in DOMAIN Network
=============================================================================
