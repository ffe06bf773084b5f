-------------------------- MODULE MCExecutionSession --------------------------
(***************************************************************************)
(* ExecutionSession and GateReport for TLC, on plans the planner makes.    *)
(* Each .cfg picks one of the scenarios below.                             *)
(***************************************************************************)
EXTENDS GateReport, Planner, TLC

CONSTANTS s1, s2, s3    \* sessions

MCNetwork == [subnet |-> {1, 2}]
Scope == {"subnet"}
BadScope == {"-oN"}
MCRejectedTargets == [adapter \in AdapterNames |->
    IF adapter = nmap THEN {"-oN", "--script"} ELSE {}]
MCRhosts == [scope \in {Scope, BadScope} |-> IF scope = Scope THEN "RHOSTS=subnet" ELSE "RHOSTS=-oN"]

ReconFor(ids) == SignOff(PlanFor({"scan"}, Scope), ids)
ServiceFor(ids) == SignOff(PlanFor({"service"}, Scope), ids)
VulnFor(ids) == SignOff(PlanFor({"vuln"}, Scope), ids)

\* Whatever the planner chained, in that order.
Chain(plan) == SelectSeq(Phases(VULN_SCAN), LAMBDA p : p \in TaskIds(plan))

\* The session parameters of a scenario, given the plan of each session.
MCOrderOf == [s \in Sessions |-> Chain(PlanOf[s])]
MCAdapterFor == [s \in Sessions |-> [t \in TaskIds(PlanOf[s]) |-> DefaultAdapterFor(PlanOf[s].nodes[t])]]
Caldera == [s \in Sessions |-> CALDERA_ONLY]

\* One session, the full four-task plan, signed off but for the research node.
FullPlan == [s \in Sessions |-> VulnFor({"recon", "service_version", "vuln_enum"})]

\* Two sessions race for the same command line, which the first then meets
\* again in a task nobody signed off, while the second meets a target plan()
\* refuses, in each of its runs.  A third, outside CALDERA_ONLY and without a
\* queue, must not run the command at all.
SharedPlans == [s \in Sessions |->
    IF s = s1 THEN ServiceFor({"recon"})
    ELSE IF s = s2
    THEN [ServiceFor({"recon"}) EXCEPT !.nodes["service_version"].target_scope = BadScope]
    ELSE ReconFor({"recon"})]
SharedEnvs == [s \in Sessions |-> IF s = s3 THEN "lab_range" ELSE CALDERA_ONLY]

\* A hand-written plan with a research handoff between two commands.
HandoffPlan == [s \in Sessions |->
    LET plan == VulnFor({"recon", "vuln_enum"})
    IN  [nodes |-> [p \in {"recon", "research", "vuln_enum"} |-> plan.nodes[p]],
         edges |-> {Edge("recon", "research"), Edge("research", "vuln_enum")}]]
HandoffOrder == [s \in Sessions |-> <<"recon", "research", "vuln_enum">>]

IdSymmetry == Permutations(ReviewIds)
=============================================================================
