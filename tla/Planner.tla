------------------------------- MODULE Planner -------------------------------
(***************************************************************************)
(* The rule-based planner (agents/planner/planner.py).  An intent is the   *)
(* set of keywords found in it; the plan is a chain whose length the kind  *)
(* of the intent decides.  No task starts with operator approval.  The     *)
(* minted id of a task is its phase: a plan has one task of each.          *)
(***************************************************************************)
EXTENDS Plans, SequencesExt

VULN_SCAN == "vuln_scan"
SERVICE_VERSION == "service_version"
ENUMERATE == "enumerate"
UNKNOWN == "unknown"

Classify(intent) ==
    IF "vuln" \in intent THEN VULN_SCAN
    ELSE IF intent \cap {"service", "version", "banner"} # {} THEN SERVICE_VERSION
    ELSE IF intent \cap {"enumer", "scan", "discover", "map"} # {} THEN ENUMERATE
    ELSE UNKNOWN

\* The phases of a plan, in the order its tasks are chained.
Phases(kind) ==
    CASE kind = VULN_SCAN       -> <<"recon", "service_version", "vuln_enum", "research">>
      [] kind = SERVICE_VERSION -> <<"recon", "service_version">>
      [] OTHER                  -> <<"recon">>

\* The keywords of the sentence the planner gives each task as its intent.
PhaseIntent ==
    [recon |-> {"enumer", "service", "discover"},
     service_version |-> {"service", "version", "banner"},
     vuln_enum |-> {"vuln", "scan"},
     research |-> {"discover"}]

PhaseTechniques ==
    [recon |-> {"T1595.001", "T1018"}, service_version |-> {"T1046"},
     vuln_enum |-> {"T1595.002", "T1046"}, research |-> {}]

PhaseTask(phase, scope) ==
    [intent |-> PhaseIntent[phase], target_scope |-> scope,
     techniques |-> PhaseTechniques[phase], operator_approved |-> FALSE, phase |-> phase]

\* plan() for an intent whose scope could be determined; with none it raises.
PlanFor(intent, scope) ==
    LET phases == Phases(Classify(intent))
    IN  [nodes |-> [p \in ToSet(phases) |-> PhaseTask(p, scope)],
         edges |-> {Edge(phases[i], phases[i + 1]) : i \in 1 .. Len(phases) - 1}]

\* The operator signs off the tasks in ids.
SignOff(plan, ids) ==
    [plan EXCEPT !.nodes = [id \in DOMAIN @ |->
        [@[id] EXCEPT !.operator_approved = @ \/ id \in ids]]]
=============================================================================
