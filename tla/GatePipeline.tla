----------------------------- MODULE GatePipeline -----------------------------
(***************************************************************************)
(* The loop of safety_gate.evaluate, one stage per step: a DENY returns at *)
(* once, an ESCALATE is remembered and the remaining stages still run.     *)
(***************************************************************************)
EXTENDS SafetyGate

CONSTANTS
    Commands, Envs, Contexts,   \* the inputs evaluate is called with
    Pipelines                   \* RuntimePipeline and the ones callers pass

Stages == {RuntimePipeline[i] : i \in DOMAIN RuntimePipeline}

ASSUME PipelineAssumption == Pipelines \subseteq Seq(Stages)

\* A context (GateContext) is a plan and its completed tasks, never None.
ASSUME ContextAssumption ==
    \A c \in Contexts \ {NoContext} :
        /\ c = [plan |-> c.plan, completed |-> c.completed]
        /\ \A more \in SUBSET TaskIds(c.plan) :
              [plan |-> c.plan, completed |-> c.completed \cup more] # NoContext

VARIABLES
    cmd, env, context, pipeline, \* the arguments, fixed during the call
    results,                     \* the verdicts of the stages run so far
    final,                       \* the verdict so far
    returned

args == <<cmd, env, context, pipeline>>
vars == <<cmd, env, context, pipeline, results, final, returned>>

TypeOK ==
    /\ cmd \in Commands /\ env \in Envs /\ context \in Contexts /\ pipeline \in Pipelines
    /\ results \in Seq(Verdict) /\ Len(results) <= Len(pipeline)
    /\ final \in Verdict
    /\ returned \in BOOLEAN

Init ==
    /\ cmd \in Commands /\ env \in Envs /\ context \in Contexts /\ pipeline \in Pipelines
    /\ results = <<>>
    /\ final = APPROVE
    /\ returned = FALSE

Remaining == ~returned /\ Len(results) < Len(pipeline)

CurrentVerdict == StageVerdict(pipeline[Len(results) + 1], cmd, env, context)

DenyStage ==
    /\ Remaining /\ CurrentVerdict = DENY
    /\ results' = Append(results, DENY)
    /\ final' = DENY
    /\ returned' = TRUE
    /\ UNCHANGED args

EscalateStage ==
    /\ Remaining /\ CurrentVerdict = ESCALATE
    /\ results' = Append(results, ESCALATE)
    /\ final' = ESCALATE
    /\ UNCHANGED <<returned, args>>

\* A bug that lets a later APPROVE overwrite an earlier ESCALATE.
MutantApproveStage ==
    /\ Remaining /\ CurrentVerdict = APPROVE
    /\ results' = Append(results, APPROVE)
    /\ final' = APPROVE
    /\ UNCHANGED <<returned, args>>

ApproveStage ==
    /\ Remaining /\ CurrentVerdict = APPROVE
    /\ results' = Append(results, APPROVE)
    /\ UNCHANGED <<final, returned, args>>

Return ==
    /\ ~returned /\ Len(results) = Len(pipeline)
    /\ returned' = TRUE
    /\ UNCHANGED <<results, final, args>>

Next == DenyStage \/ EscalateStage \/ ApproveStage \/ Return

Spec == Init /\ [][Next]_vars

-----------------------------------------------------------------------------
(* Properties *)

RuntimeVerdict == returned /\ pipeline = RuntimePipeline

\* The loop returns what the pipeline means as a whole: one DENY denies, else
\* one ESCALATE escalates, wherever in the pipeline it stood ("DENY
\* short-circuits; ESCALATE accumulates").
LoopReturnsPipelineVerdict ==
    returned => final = PipelineVerdict(pipeline, cmd, env, context)

\* On the runtime pipeline only a command of an approved task, whose
\* predecessors are complete, in the Phase I environment, gets past DENY; no
\* context or no task id fails closed.
OnlyPlannedWorkPasses ==
    RuntimeVerdict /\ final # DENY =>
        /\ context # NoContext
        /\ cmd.task_id \in TaskIds(context.plan)
        /\ context.plan.nodes[cmd.task_id].operator_approved
        /\ Predecessors(context.plan, cmd.task_id) \subseteq context.completed
        /\ env = CALDERA_ONLY

\* While no judge is wired in, the runtime pipeline approves nothing by
\* itself: whatever is not denied goes to an operator.
NothingApprovedUnseen == RuntimeVerdict => final # APPROVE

Addresses(tokens) == UNION {Network[tok] : tok \in {x \in tokens : IsIpLike(x)}}

\* The addresses in the argv of a command that passes lie within the scope of
\* the task it is attributed to, whatever scope the command declares.
TrafficStaysInScope ==
    RuntimeVerdict /\ final # DENY =>
        Addresses(ArgvTargets(cmd))
            \subseteq Addresses(context.plan.nodes[cmd.task_id].target_scope)

\* More finished tasks never turn a command that passes into one that is
\* denied, so a set of completed tasks read early errs on the safe side.
CompletingNeverDenies ==
    RuntimeVerdict /\ final # DENY =>
        \A more \in SUBSET TaskIds(context.plan) :
            Evaluate(cmd, env, [context EXCEPT !.completed = @ \cup more]) # DENY
=============================================================================
