-------------------------- MODULE GatePipeline_proofs --------------------------
(***************************************************************************)
(* The loop of safety_gate.evaluate computes the pipeline's verdict, for   *)
(* any commands, plans and pipelines; what SafetyGate_proofs shows of that *)
(* verdict then holds of what the loop returns.                            *)
(***************************************************************************)
EXTENDS GatePipeline, SafetyGate_proofs, SequenceTheorems

VerdictOf(i) == StageVerdict(pipeline[i], cmd, env, context)

\* Until it returns, the loop has met no DENY, and final is ESCALATE exactly
\* when some stage so far escalated.
LoopInv ==
    /\ pipeline \in Seq(Stages) /\ context \in Contexts
    /\ Len(results) \in Nat /\ Len(results) <= Len(pipeline)
    /\ results \in Seq(Verdict)
    /\ ~returned =>
          /\ \A i \in 1 .. Len(results) : VerdictOf(i) # DENY
          /\ final \in {APPROVE, ESCALATE}
          /\ final = ESCALATE <=> \E i \in 1 .. Len(results) : VerdictOf(i) = ESCALATE
    /\ returned => final = PipelineVerdict(pipeline, cmd, env, context)

LEMMA InitLoopInv == Init => LoopInv
BY PipelineAssumption DEF Init, LoopInv, Verdict, APPROVE, ESCALATE

\* A stage that does not deny: final afterwards says whether one escalated.
LEMMA StageLoopInv == ASSUME LoopInv, DenyStage \/ EscalateStage \/ ApproveStage PROVE LoopInv'
<1> DEFINE n == Len(results) + 1
<1>1. /\ n \in 1 .. Len(pipeline) /\ ~returned
      /\ cmd' = cmd /\ env' = env /\ context' = context /\ pipeline' = pipeline
    BY DEF DenyStage, EscalateStage, ApproveStage, Remaining, args, LoopInv
<1>2. CurrentVerdict = VerdictOf(n)
    BY DEF CurrentVerdict, VerdictOf
<1>3. results' \in Seq(Verdict) /\ Len(results') = n
    <2>1. PICK v \in Verdict : results' = Append(results, v)
        BY DEF DenyStage, EscalateStage, ApproveStage, Verdict
    <2>2. results \in Seq(Verdict)
        BY DEF LoopInv
    <2>3. QED  BY <2>1, <2>2, AppendProperties
<1>4. \A i : VerdictOf(i)' = VerdictOf(i)
    BY <1>1 DEF VerdictOf
<1>5. CASE DenyStage
    <2>1. final' = DENY /\ returned' /\ VerdictOf(n) = DENY
        BY <1>2, <1>5 DEF DenyStage
    <2>2. PipelineVerdict(pipeline, cmd, env, context) = DENY
        BY <1>1, <2>1 DEF PipelineVerdict, VerdictOf
    <2>3. QED  BY <1>1, <1>3, <2>1, <2>2 DEF LoopInv
<1>6. CASE EscalateStage
    <2>1. final' = ESCALATE /\ returned' = returned /\ VerdictOf(n) = ESCALATE
        BY <1>2, <1>6 DEF EscalateStage
    <2>2. \A i \in 1 .. n : VerdictOf(i) # DENY
        BY <1>1, <2>1 DEF LoopInv, ESCALATE, DENY
    <2>3. QED  BY <1>1, <1>3, <1>4, <2>1, <2>2 DEF LoopInv
<1>7. CASE ApproveStage
    <2>1. final' = final /\ returned' = returned /\ VerdictOf(n) = APPROVE
        BY <1>2, <1>7 DEF ApproveStage
    <2>2. VerdictOf(n) # DENY /\ VerdictOf(n) # ESCALATE
        BY <2>1 DEF ESCALATE, DENY, APPROVE
    <2>3. QED  BY <1>1, <1>3, <1>4, <2>1, <2>2 DEF LoopInv
<1>8. QED  BY <1>5, <1>6, <1>7

\* After the last stage final is the verdict of the whole pipeline.
LEMMA ReturnLoopInv == ASSUME LoopInv, Return PROVE LoopInv'
<1>1. /\ ~returned /\ returned' /\ Len(results) = Len(pipeline)
      /\ results' = results /\ final' = final
      /\ cmd' = cmd /\ env' = env /\ context' = context /\ pipeline' = pipeline
    BY DEF Return, args
<1>2. /\ \A i \in 1 .. Len(pipeline) : VerdictOf(i) # DENY
      /\ final = ESCALATE <=> \E i \in 1 .. Len(pipeline) : VerdictOf(i) = ESCALATE
      /\ final \in {APPROVE, ESCALATE}
    BY <1>1 DEF LoopInv
<1>3. PipelineVerdict(pipeline, cmd, env, context) = final
    BY <1>2 DEF PipelineVerdict, VerdictOf
<1>4. QED  BY <1>1, <1>3 DEF LoopInv

LEMMA StepLoopInv == LoopInv /\ [Next]_vars => LoopInv'
<1>1. ASSUME LoopInv, UNCHANGED vars PROVE LoopInv'
    BY <1>1 DEF LoopInv, vars, VerdictOf
<1>2. QED  BY <1>1, StageLoopInv, ReturnLoopInv DEF Next

LEMMA Loop == Spec => []LoopInv
BY InitLoopInv, StepLoopInv, PTL DEF Spec

\* evaluate returns the meaning of the pipeline: DENY short-circuits, else
\* ESCALATE accumulates, wherever the stages stand.
THEOREM LoopCorrect == Spec => []LoopReturnsPipelineVerdict
<1>1. LoopInv => LoopReturnsPipelineVerdict
    BY DEF LoopInv, LoopReturnsPipelineVerdict
<1>2. QED  BY <1>1, Loop, PTL

\* At run time only planned, signed-off, in-order work gets past DENY.
THEOREM OnlyPlannedWork == Spec => []OnlyPlannedWorkPasses
<1>1. LoopInv => OnlyPlannedWorkPasses
    <2> SUFFICES ASSUME LoopInv, RuntimeVerdict, final # DENY
                 PROVE  /\ context # NoContext
                        /\ cmd.task_id \in TaskIds(context.plan)
                        /\ context.plan.nodes[cmd.task_id].operator_approved
                        /\ Predecessors(context.plan, cmd.task_id) \subseteq context.completed
                        /\ env = CALDERA_ONLY
        BY DEF OnlyPlannedWorkPasses
    <2>1. Evaluate(cmd, env, context) # DENY
        BY DEF LoopInv, RuntimeVerdict, Evaluate
    <2>2. /\ context # NoContext /\ env = CALDERA_ONLY
          /\ OnPlan(cmd, context.plan, cmd.task_id, context.completed, DefaultConfig)
        BY <2>1, PassesOnlyPlannedWork
    <2>3. QED  BY <2>2, OnPlanMeans
<1>2. QED  BY <1>1, Loop, PTL

\* At run time no command is approved without an operator.
THEOREM NothingUnseen == Spec => []NothingApprovedUnseen
<1>1. LoopInv => NothingApprovedUnseen
    BY NeverApproves DEF LoopInv, NothingApprovedUnseen, RuntimeVerdict, Evaluate
<1>2. QED  BY <1>1, Loop, PTL

\* At run time a command that passes addresses nothing outside the scope of
\* the task it is attributed to, whatever scope it declares for itself.
THEOREM TrafficInScope == Spec => []TrafficStaysInScope
<1>1. LoopInv => TrafficStaysInScope
    <2> DEFINE scope == context.plan.nodes[cmd.task_id].target_scope
    <2> SUFFICES ASSUME LoopInv, RuntimeVerdict, final # DENY
                 PROVE  Addresses(ArgvTargets(cmd)) \subseteq Addresses(scope)
        BY DEF TrafficStaysInScope
    <2>1. Evaluate(cmd, env, context) # DENY
        BY DEF LoopInv, RuntimeVerdict, Evaluate
    <2>2. InScope(cmd, scope, DefaultConfig)
        BY <2>1, PassesOnlyPlannedWork DEF OnPlan
    <2> HIDE DEF scope
    <2>3. ASSUME NEW target \in ArgvTargets(cmd)
          PROVE  \E s \in scope : IsIpLike(s) /\ Network[target] \subseteq Network[s]
        <3>1. IsIpLike(target) /\ TargetInScope(target, scope, DefaultConfig.cidr_aware_scope)
            BY <2>2 DEF InScope, ArgvTargets
        <3>2. QED  BY <3>1 DEF TargetInScope
    <2>4. QED  BY <2>3 DEF Addresses
<1>2. QED  BY <1>1, Loop, PTL

\* A completed_task_ids read early errs on the safe side: tasks that finish
\* afterwards never turn a command that passes into one that is denied.
THEOREM CompletingSafe == Spec => []CompletingNeverDenies
<1>1. LoopInv => CompletingNeverDenies
    <2> SUFFICES ASSUME LoopInv, RuntimeVerdict, final # DENY,
                        NEW more \in SUBSET TaskIds(context.plan)
                 PROVE  Evaluate(cmd, env, [context EXCEPT !.completed = @ \cup more]) # DENY
        BY DEF CompletingNeverDenies
    <2> DEFINE plan == context.plan
               done == context.completed
    <2>1. Evaluate(cmd, env, context) # DENY
        BY DEF LoopInv, RuntimeVerdict, Evaluate
    <2>2. context \in Contexts /\ context # NoContext
        BY <2>1, PassesOnlyPlannedWork DEF LoopInv
    <2>3. /\ context = [plan |-> plan, completed |-> done]
          /\ [plan |-> plan, completed |-> done \cup more] # NoContext
        BY <2>2, ContextAssumption
    <2>4. [context EXCEPT !.completed = @ \cup more]
              = [plan |-> plan, completed |-> done \cup more]
        BY <2>3
    <2> HIDE DEF plan, done
    <2>5. Evaluate(cmd, env, [plan |-> plan, completed |-> done \cup more]) # DENY
        BY <2>1, <2>3, EvaluateMonotone
    <2>6. QED  BY <2>4, <2>5
<1>2. QED  BY <1>1, Loop, PTL
=============================================================================
