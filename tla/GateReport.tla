------------------------------ MODULE GateReport ------------------------------
(***************************************************************************)
(* `oubliette-warden gate` (cli.py): a report of what the safety gate      *)
(* would say to each task of a saved plan, executing nothing, beside the   *)
(* sessions that run such a plan.                                          *)
(***************************************************************************)
EXTENDS ExecutionSession

-----------------------------------------------------------------------------
(* Plan files *)

\* plan_to_dict: the tasks as a list of dictionaries, in the graph's order.
PlanToDict(plan, order) ==
    [nodes |-> [i \in DOMAIN order |->
        LET task == plan.nodes[order[i]] IN
        [field \in DOMAIN task \cup {"task_id"} |->
            IF field = "task_id" THEN order[i] ELSE task[field]]],
     edges |-> plan.edges]

FieldOr(dict, field, default) == IF field \in DOMAIN dict THEN dict[field] ELSE default

\* plan_from_dict, for files with the required fields and one entry per task;
\* a hand-written one may leave out the other fields.
PlanFromDict(data) ==
    LET nodeOf(id) == CHOOSE node \in ToSet(data.nodes) : node.task_id = id IN
    [nodes |-> [id \in {node.task_id : node \in ToSet(data.nodes)} |->
        [intent |-> nodeOf(id).intent, target_scope |-> nodeOf(id).target_scope,
         techniques |-> FieldOr(nodeOf(id), "techniques", {}),
         operator_approved |-> FieldOr(nodeOf(id), "operator_approved", FALSE),
         phase |-> FieldOr(nodeOf(id), "phase", "")]],
     edges |-> FieldOr(data, "edges", {})]

\* --approve and --approve-all replace every sign-off of the file.
WhatIf(plan, approve, approveAll) ==
    IF ~approveAll /\ approve = {} THEN plan
    ELSE [plan EXCEPT !.nodes = [id \in DOMAIN @ |->
            [@[id] EXCEPT !.operator_approved = approveAll \/ id \in approve]]]

-----------------------------------------------------------------------------
(* The report *)

PHASE_ADAPTERS ==
    [recon |-> nmap, service_version |-> nmap, vuln_enum |-> msf, research |-> NoAdapter]

DefaultAdapterFor(task) == PHASE_ADAPTERS[task.phase]

\* No row for a plan with an unknown phase or a task plan() refuses: the
\* command ends before it prints one.
Reportable(plan) ==
    \A id \in TaskIds(plan) :
        LET task == plan.nodes[id] IN
        /\ task.phase \in DOMAIN PHASE_ADAPTERS
        /\ \/ DefaultAdapterFor(task) = NoAdapter
           \/ PlanCommand(DefaultAdapterFor(task), task, id) # NoCommand

\* A bug that lets an escalated task satisfy its successors.
MutantFreesSuccessors(verdict) == verdict # DENY

\* Verdicts after which the report goes on as if the task were complete.
FreesSuccessors(verdict) == verdict \in {"none", APPROVE}

\* _gate_plan: the tasks completed, and the verdict of each task, after the
\* first i tasks of the order; "none" for a node without a command.
GatePlan(plan, order, env) ==
    LET VerdictOf(id, done) ==
            LET adapter == DefaultAdapterFor(plan.nodes[id]) IN
            IF adapter = NoAdapter THEN "none"
            ELSE Evaluate(PlanCommand(adapter, plan.nodes[id], id), env,
                          [plan |-> plan, completed |-> done])
        after[i \in 0 .. Len(order)] ==
            IF i = 0 THEN [completed |-> {}, rows |-> <<>>]
            ELSE LET before == after[i - 1]
                     verdict == VerdictOf(order[i], before.completed)
                 IN  [completed |-> IF FreesSuccessors(verdict)
                                    THEN before.completed \cup {order[i]}
                                    ELSE before.completed,
                      rows |-> Append(before.rows, [task_id |-> order[i], verdict |-> verdict])]
    IN  after[Len(order)].rows

\* The exit status: 1 when a task with a command would not run.
ExitStatus(rows) == IF \E i \in DOMAIN rows : rows[i].verdict \notin {"none", APPROVE} THEN 1 ELSE 0

-----------------------------------------------------------------------------
(* Properties *)

SignedOff(plan) == {id \in TaskIds(plan) : plan.nodes[id].operator_approved}

\* The report on the session's plan, read back from its file with the tasks
\* the operator signed off given as --approve.
Reports ==
    [s \in Sessions |->
        LET saved == PlanFromDict(PlanToDict(PlanOf[s], OrderOf[s]))
            plan == WhatIf(saved, SignedOff(PlanOf[s]), FALSE)
        IN  IF Reportable(plan) THEN GatePlan(plan, OrderOf[s], EnvOf[s]) ELSE <<>>]

VerdictIn(rows, t) == (CHOOSE row \in ToSet(rows) : row.task_id = t).verdict

\* The report mirrors a real run ("or the report would claim a plan runs when
\* it would in fact stall", cli.py:180): as long as no tool has run, the
\* session's gate says of each task what the report says; a task the report
\* leaves to the operator is never denied afterwards; and where run() blocked
\* a task, the command's exit status says so.
ReportMirrorsRun ==
    \A s \in Sessions :
        LET rows == Reports[s] IN
        rows # <<>> =>
            \A i \in DOMAIN outcomes[s] :
                LET o == outcomes[s][i]
                    reported == VerdictIn(rows, o.task_id)
                IN  /\ o.decision # NoDecision =>
                          /\ launched[s] = {} => o.decision.final = reported
                          /\ reported = ESCALATE => o.decision.final # DENY
                    /\ o.status = "blocked" => ExitStatus(rows) = 1
===============================================================================
