------------------------------ MODULE SafetyGate ------------------------------
(***************************************************************************)
(* The safety gate (agents/codegen/safety_gate.py): plan_consistency as    *)
(* the attribution stage, then five fixed stages.  Any DENY blocks; an     *)
(* ESCALATE sends the command to an operator.                              *)
(***************************************************************************)
EXTENDS PlanConsistency

CONSTANTS
    ForbiddenPhrases,   \* token sequences the pattern detector looks for
    SubstitutionTokens, \* tokens that begin a shell substitution
    NoContext           \* context=None

-----------------------------------------------------------------------------
(* The stages *)

PreFilter(cmd, env) ==
    IF /\ cmd.argv # <<>>
       /\ cmd.target_scope # {}
       /\ env = CALDERA_ONLY
       /\ IMPACT \notin cmd.tactics
    THEN APPROVE ELSE DENY

Occurs(phrase, argv) ==
    \E i \in 0 .. Len(argv) - Len(phrase) :
        \A j \in 1 .. Len(phrase) : argv[i + j] = phrase[j]

PatternDetector(cmd, env) ==
    IF \/ \E phrase \in ForbiddenPhrases : Occurs(phrase, cmd.argv)
       \/ \E i \in 1 .. Len(cmd.argv) : cmd.argv[i] \in SubstitutionTokens
    THEN DENY ELSE APPROVE

RagGuard(cmd, env) ==
    IF cmd.adapter_name \in {"nmap", "msf-aux"} THEN APPROVE ELSE ESCALATE

MutantLlmJudge(cmd, env) == APPROVE

\* No judge is wired in: every command goes to an operator.
LlmJudge(cmd, env) == ESCALATE

\* The runtime cap of 1800 seconds is the one number the gate compares.
McpGuard(cmd, env) ==
    IF IMPACT \in cmd.tactics THEN DENY
    ELSE IF cmd.runtime > 1800 THEN ESCALATE
    ELSE APPROVE

\* A bug that lets a command nobody planned through to the other stages.
MutantAttribution(cmd, context) ==
    IF context = NoContext \/ cmd.task_id = NoTask THEN ESCALATE
    ELSE PlanConsistencyStage(cmd, context.plan, cmd.task_id, context.completed, DefaultConfig)

\* Fails closed: no plan context, or no task id, is a DENY.
Attribution(cmd, context) ==
    IF context = NoContext \/ cmd.task_id = NoTask THEN DENY
    ELSE PlanConsistencyStage(cmd, context.plan, cmd.task_id, context.completed, DefaultConfig)

-----------------------------------------------------------------------------
(* The pipeline *)

DEFAULT_PIPELINE ==
    <<"pre_filter", "pattern_detector", "rag_guard", "llm_judge", "mcp_guard">>

\* What evaluate runs when no pipeline is passed: attribution comes first.
RuntimePipeline == <<"plan_consistency">> \o DEFAULT_PIPELINE

StageVerdict(stage, cmd, env, context) ==
    CASE stage = "plan_consistency" -> Attribution(cmd, context)
      [] stage = "pre_filter"       -> PreFilter(cmd, env)
      [] stage = "pattern_detector" -> PatternDetector(cmd, env)
      [] stage = "rag_guard"        -> RagGuard(cmd, env)
      [] stage = "llm_judge"        -> LlmJudge(cmd, env)
      [] stage = "mcp_guard"        -> McpGuard(cmd, env)

\* The verdict of a whole pipeline, without the loop: one DENY denies, else
\* one ESCALATE escalates.
PipelineVerdict(pipeline, cmd, env, context) ==
    LET verdicts == {StageVerdict(pipeline[i], cmd, env, context) : i \in 1 .. Len(pipeline)}
    IN  IF DENY \in verdicts THEN DENY
        ELSE IF ESCALATE \in verdicts THEN ESCALATE
        ELSE APPROVE

Evaluate(cmd, env, context) == PipelineVerdict(RuntimePipeline, cmd, env, context)
=============================================================================
