--------------------------- MODULE SafetyGate_proofs ---------------------------
(***************************************************************************)
(* What the safety gate's verdict implies, for any plan, command and       *)
(* context.  These are facts about operators; GatePipeline_proofs and      *)
(* ExecutionSession_proofs build on them.                                  *)
(***************************************************************************)
EXTENDS SafetyGate, TLAPS

\* The runtime pipeline, place by place.
LEMMA RuntimeStages ==
    /\ Len(RuntimePipeline) = 6
    /\ RuntimePipeline[1] = "plan_consistency"
    /\ RuntimePipeline[2] = "pre_filter"
    /\ RuntimePipeline[3] = "pattern_detector"
    /\ RuntimePipeline[4] = "rag_guard"
    /\ RuntimePipeline[5] = "llm_judge"
    /\ RuntimePipeline[6] = "mcp_guard"
BY DEF RuntimePipeline, DEFAULT_PIPELINE

\* No stage but the stages' own verdicts decide: what is not denied was not
\* denied by the attribution stage nor by the pre-filter.
LEMMA PassesStages ==
    ASSUME NEW cmd, NEW env, NEW context, Evaluate(cmd, env, context) # DENY
    PROVE  Attribution(cmd, context) # DENY /\ PreFilter(cmd, env) # DENY
<1> DEFINE verdicts == {StageVerdict(RuntimePipeline[i], cmd, env, context) :
                            i \in 1 .. Len(RuntimePipeline)}
<1>1. DENY \notin verdicts
    BY DEF Evaluate, PipelineVerdict
<1>2. /\ StageVerdict(RuntimePipeline[1], cmd, env, context) \in verdicts
      /\ StageVerdict(RuntimePipeline[2], cmd, env, context) \in verdicts
    BY RuntimeStages
<1>3. /\ StageVerdict(RuntimePipeline[1], cmd, env, context) = Attribution(cmd, context)
      /\ StageVerdict(RuntimePipeline[2], cmd, env, context) = PreFilter(cmd, env)
    BY RuntimeStages DEF StageVerdict
<1>4. QED  BY <1>1, <1>2, <1>3

\* Whatever passes DENY on the runtime pipeline is planned work: it has a
\* context, and its task is in the plan, signed off, in order, in scope and
\* free of dangerous tactics; and the environment is the Phase I one.
THEOREM PassesOnlyPlannedWork ==
    ASSUME NEW cmd, NEW env, NEW context, Evaluate(cmd, env, context) # DENY
    PROVE  /\ context # NoContext
           /\ cmd.task_id # NoTask
           /\ OnPlan(cmd, context.plan, cmd.task_id, context.completed, DefaultConfig)
           /\ env = CALDERA_ONLY
<1>1. Attribution(cmd, context) # DENY /\ PreFilter(cmd, env) # DENY
    BY PassesStages
<1>2. context # NoContext /\ cmd.task_id # NoTask
    BY <1>1 DEF Attribution
<1>3. OnPlan(cmd, context.plan, cmd.task_id, context.completed, DefaultConfig)
    BY <1>1, <1>2 DEF Attribution, PlanConsistencyStage
<1>4. env = CALDERA_ONLY
    BY <1>1 DEF PreFilter
<1>5. QED  BY <1>2, <1>3, <1>4

\* In the default configuration being on plan includes the human sign-off and
\* every direct predecessor.
LEMMA OnPlanMeans ==
    ASSUME NEW cmd, NEW plan, NEW current, NEW completed,
           OnPlan(cmd, plan, current, completed, DefaultConfig)
    PROVE  /\ current \in TaskIds(plan)
           /\ plan.nodes[current].operator_approved
           /\ Predecessors(plan, current) \subseteq completed
BY DEF OnPlan, DefaultConfig

\* While the judge is a stub, no command is approved by the gate alone.
THEOREM NeverApproves ==
    ASSUME NEW cmd, NEW env, NEW context
    PROVE  Evaluate(cmd, env, context) # APPROVE
<1> DEFINE verdicts == {StageVerdict(RuntimePipeline[i], cmd, env, context) :
                            i \in 1 .. Len(RuntimePipeline)}
<1>1. StageVerdict(RuntimePipeline[5], cmd, env, context) = ESCALATE
    BY RuntimeStages DEF StageVerdict, LlmJudge
<1>2. ESCALATE \in verdicts
    BY <1>1, RuntimeStages
<1>3. QED  BY <1>2 DEF Evaluate, PipelineVerdict, APPROVE, DENY, ESCALATE

\* A larger set of completed tasks keeps a command on plan.
LEMMA OnPlanMonotone ==
    ASSUME NEW cmd, NEW plan, NEW current, NEW completed, NEW more,
           OnPlan(cmd, plan, current, completed, DefaultConfig), completed \subseteq more
    PROVE  OnPlan(cmd, plan, current, more, DefaultConfig)
BY DEF OnPlan

\* Only the attribution stage looks at the context: what is not denied in one
\* context is denied in another only by that stage.
LEMMA OnlyAttributionReadsContext ==
    ASSUME NEW cmd, NEW env, NEW context, NEW other,
           Evaluate(cmd, env, context) # DENY, Attribution(cmd, other) # DENY
    PROVE  Evaluate(cmd, env, other) # DENY
<1> DEFINE Denied(c) == \E i \in 1 .. 6 : StageVerdict(RuntimePipeline[i], cmd, env, c) = DENY
<1>1. \A c : Evaluate(cmd, env, c) = DENY <=> Denied(c)
    BY RuntimeStages DEF Evaluate, PipelineVerdict, APPROVE, DENY, ESCALATE
<1>2. ASSUME NEW i \in 2 .. 6
      PROVE  StageVerdict(RuntimePipeline[i], cmd, env, context)
                 = StageVerdict(RuntimePipeline[i], cmd, env, other)
    BY RuntimeStages DEF StageVerdict
<1>3. StageVerdict(RuntimePipeline[1], cmd, env, other) # DENY
    BY RuntimeStages DEF StageVerdict
<1>4. QED  BY <1>1, <1>2, <1>3

\* A task finished since the context was read does not turn a command that
\* passes into one that is denied.
LEMMA EvaluateMonotone ==
    ASSUME NEW cmd, NEW env, NEW plan, NEW completed, NEW more, completed \subseteq more,
           [plan |-> plan, completed |-> more] # NoContext,
           Evaluate(cmd, env, [plan |-> plan, completed |-> completed]) # DENY
    PROVE  Evaluate(cmd, env, [plan |-> plan, completed |-> more]) # DENY
<1> DEFINE other == [plan |-> plan, completed |-> more]
<1>1. cmd.task_id # NoTask /\ OnPlan(cmd, plan, cmd.task_id, completed, DefaultConfig)
    BY PassesOnlyPlannedWork
<1>2. OnPlan(cmd, plan, cmd.task_id, more, DefaultConfig)
    BY <1>1, OnPlanMonotone
<1>3. Attribution(cmd, other) # DENY
    BY <1>1, <1>2 DEF Attribution, PlanConsistencyStage, APPROVE, DENY, ESCALATE
<1>4. QED  BY <1>3, OnlyAttributionReadsContext
=============================================================================
