--------------------------- MODULE PlanConsistency ---------------------------
(***************************************************************************)
(* The plan_consistency stage of the safety gate                           *)
(* (agents/codegen/plan_consistency.py): a command is checked against the  *)
(* task graph it claims to come from.                                      *)
(***************************************************************************)
EXTENDS Plans

APPROVE == "approve"
DENY == "deny"
ESCALATE == "escalate"
Verdict == {APPROVE, DENY, ESCALATE}

DANGEROUS_TACTICS ==
    {IMPACT, "exfiltration", "credential_access", "lateral_movement",
     "privilege_escalation", "persistence"}

\* Only phases in this function constrain the adapter.
EXPECTED_ADAPTERS_BY_PHASE ==
    [recon |-> {"nmap"}, service_version |-> {"nmap"}, vuln_enum |-> {"nmap", "msf-aux"},
     research |-> {}]

\* The VerifierConfig every runtime caller uses; experiments vary it.
DefaultConfig ==
    [plan_trust |-> "anchored", cidr_aware_scope |-> TRUE,
     allow_technique_broadening |-> FALSE, check_adapter_phase |-> TRUE]

-----------------------------------------------------------------------------
(* Scope *)

\* A scope entry by name, or, CIDR-aware, a subnet of a scope network.
TargetInScope(target, scope, cidrAware) ==
    \/ target \in scope
    \/ /\ cidrAware
       /\ IsIpLike(target)
       /\ \E s \in scope : IsIpLike(s) /\ Network[target] \subseteq Network[s]

\* The host tokens after argv[0], where the tool's own name stands.
ArgvTargets(cmd) == {tok \in {cmd.argv[i] : i \in 2 .. Len(cmd.argv)} : IsIpLike(tok)}

\* A bug that trusts the scope the command declares for itself.
MutantInScope(cmd, taskScope, cfg) ==
    \A target \in cmd.target_scope : TargetInScope(target, taskScope, cfg.cidr_aware_scope)

\* No stray target: the declared scope and the argv are both within the task's.
InScope(cmd, taskScope, cfg) ==
    \A target \in cmd.target_scope \cup ArgvTargets(cmd) :
        TargetInScope(target, taskScope, cfg.cidr_aware_scope)

-----------------------------------------------------------------------------
(* The stage *)

\* Technique ids any node of the plan declares.
PlanTechniques(plan) == UNION {plan.nodes[id].techniques : id \in TaskIds(plan)}

\* A bug that skips the ordering check.
MutantOnPlanUnordered(cmd, plan, current, completed, cfg) ==
    /\ current \in TaskIds(plan)
    /\ cfg.plan_trust = "anchored" => plan.nodes[current].operator_approved
    /\ InScope(cmd, plan.nodes[current].target_scope, cfg)
    /\ cmd.tactics \cap DANGEROUS_TACTICS = {}

\* A bug that trusts any task in the plan, signed off or not.
MutantOnPlanUnsigned(cmd, plan, current, completed, cfg) ==
    /\ current \in TaskIds(plan)
    /\ Predecessors(plan, current) \subseteq completed
    /\ InScope(cmd, plan.nodes[current].target_scope, cfg)
    /\ cmd.tactics \cap DANGEROUS_TACTICS = {}

\* A bug that asks for exactly the predecessors to be completed.
MutantOnPlanRedo(cmd, plan, current, completed, cfg) ==
    /\ current \in TaskIds(plan)
    /\ cfg.plan_trust = "anchored" => plan.nodes[current].operator_approved
    /\ Predecessors(plan, current) = completed
    /\ InScope(cmd, plan.nodes[current].target_scope, cfg)
    /\ cmd.tactics \cap DANGEROUS_TACTICS = {}

\* Checks 1 to 5: the ones that DENY.
OnPlan(cmd, plan, current, completed, cfg) ==
    /\ current \in TaskIds(plan)
    /\ cfg.plan_trust = "anchored" => plan.nodes[current].operator_approved
    /\ Predecessors(plan, current) \subseteq completed
    /\ InScope(cmd, plan.nodes[current].target_scope, cfg)
    /\ cmd.tactics \cap DANGEROUS_TACTICS = {}

\* Checks 6 and 7: the soft signals, which ESCALATE.
UnexpectedTool(cmd, task, cfg) ==
    /\ cfg.check_adapter_phase
    /\ task.phase \in DOMAIN EXPECTED_ADAPTERS_BY_PHASE
    /\ cmd.adapter_name \notin EXPECTED_ADAPTERS_BY_PHASE[task.phase]

TechniqueBeyondPlan(cmd, plan, cfg) ==
    /\ ~cfg.allow_technique_broadening
    /\ ~(cmd.techniques \subseteq PlanTechniques(plan))

PlanConsistencyStage(cmd, plan, current, completed, cfg) ==
    IF ~OnPlan(cmd, plan, current, completed, cfg) THEN DENY
    ELSE IF \/ UnexpectedTool(cmd, plan.nodes[current], cfg)
            \/ TechniqueBeyondPlan(cmd, plan, cfg)
         THEN ESCALATE
         ELSE APPROVE
=============================================================================
