--------------------------- MODULE ExecutionSession ---------------------------
(***************************************************************************)
(* Execution sessions that drive plans through their adapters, while       *)
(* operators decide reviews in the queue the sessions share                *)
(* (agents/codegen/runner.py, base.py, and execute() of both adapters).    *)
(*                                                                         *)
(* A session is one thread with adapters of its own.  Its steps are split  *)
(* where another thread can act in between: at each call into the review   *)
(* queue, which takes the queue's lock once per call, and around the tool. *)
(* A session may run() again, and between runs its owner may call an       *)
(* adapter's execute() directly.                                           *)
(***************************************************************************)
EXTENDS Adapters

CONSTANTS
    Sessions,
    PlanOf,         \* [Sessions -> the task graph it owns]
    OrderOf,        \* [Sessions -> that graph's topological order]
    EnvOf,          \* [Sessions -> ExecutionEnv]
    AdapterFor,     \* [Sessions -> [task ids -> adapter name or NoAdapter]]
    NoAdapter,      \* adapter_for(task) is None
    Wired,          \* sessions whose adapters were given the review queue
    ReviewIds, OperatorIds, NoKey, NoOperator, EmptyPayload, NoPayload, NoReview,
    MaxRuns,        \* run() calls per session
    MaxDirect       \* execute() calls outside run(), per session

ASSUME SessionAssumption ==
    \A s \in Sessions :
        /\ OrderOf[s] \in Seq(TaskIds(PlanOf[s]))
        /\ IsTopologicalOrder(OrderOf[s], PlanOf[s])
        /\ AdapterFor[s] \in [TaskIds(PlanOf[s]) -> AdapterNames \cup {NoAdapter}]
        /\ \A t \in TaskIds(PlanOf[s]) : IsFiniteSet(PlanOf[s].nodes[t].target_scope)

\* Plans are made of tasks, and the context of a task is never None.
ASSUME PlansGivenAssumption ==
    \A s \in Sessions :
        /\ IsTaskGraph(PlanOf[s])
        /\ \A done \in SUBSET TaskIds(PlanOf[s]) :
              [plan |-> PlanOf[s], completed |-> done] # NoContext

ASSUME BoundsAssumption ==
    /\ Wired \subseteq Sessions /\ IsFiniteSet(Wired)
    /\ MaxRuns \in Nat /\ MaxDirect \in Nat

VARIABLES
    pending, decisions, keys, audit,    \* the shared review queue
    pc,             \* [Sessions -> where the thread is]
    todo,           \* [Sessions -> tasks of the current loop still to visit]
    direct,         \* [Sessions -> the current execute() is not run()'s]
    completed,      \* [Sessions -> completed_task_ids]
    outcomes,       \* [Sessions -> the outcomes recorded, in order]
    gate_context,   \* [Sessions -> [AdapterNames -> _gate_context]]
    last_decision,  \* [Sessions -> [AdapterNames -> _last_gate_decision]]
    launched,       \* history: [Sessions -> tasks whose tool was started]
    calls           \* history: [Sessions -> run() and direct calls made]

queueVars == <<pending, decisions, keys, audit>>
adapterVars == <<gate_context, last_decision>>
resultVars == <<completed, outcomes, launched>>
vars == <<queueVars, pc, todo, direct, adapterVars, resultVars, calls>>

Current(s) == Head(todo[s])
AdapterOf(s, t) == AdapterFor[s][t]
CommandFor(s, t) == PlanCommand(AdapterOf(s, t), PlanOf[s].nodes[t], t)
KeyFor(s, t) == CommandKey(CommandFor(s, t), EnvOf[s])

\* Tasks that put a command before the gate.
Gated(s) == {t \in TaskIds(PlanOf[s]) :
                AdapterOf(s, t) # NoAdapter /\ CommandFor(s, t) # NoCommand}

CommandKeys == UNION {{KeyFor(s, t) : t \in Gated(s)} : s \in Sessions}

\* What ReviewQueue assumes of its constants.
ASSUME SharedQueueAssumption ==
    /\ NoKey \notin CommandKeys
    /\ NoOperator \notin OperatorIds
    /\ NoPayload \notin CommandKeys \cup {EmptyPayload}

Queue == INSTANCE ReviewQueue
            WITH Keys <- CommandKeys, Payloads <- CommandKeys \cup {EmptyPayload}

NoDecision == [final |-> "none"]

Init ==
    /\ Queue!Init
    /\ pc = [s \in Sessions |-> "idle"]
    /\ todo = [s \in Sessions |-> <<>>]
    /\ direct = [s \in Sessions |-> FALSE]
    /\ completed = [s \in Sessions |-> {}]
    /\ outcomes = [s \in Sessions |-> <<>>]
    /\ gate_context = [s \in Sessions |-> [a \in AdapterNames |-> NoContext]]
    /\ last_decision = [s \in Sessions |-> [a \in AdapterNames |-> NoDecision]]
    /\ launched = [s \in Sessions |-> {}]
    /\ calls = [s \in Sessions |-> [run |-> 0, direct |-> 0]]

At(s, label) == pc[s] = label
Goto(s, label) == pc' = [pc EXCEPT ![s] = label]

Complete(s, t) == completed' = [completed EXCEPT ![s] = @ \cup {t}]

Record(s, t, status, decision) ==
    outcomes' = [outcomes EXCEPT ![s] =
        Append(@, [task_id |-> t, status |-> status, decision |-> decision])]

-----------------------------------------------------------------------------
(* The loop of run() *)

StartRun(s) ==
    /\ At(s, "idle") /\ calls[s].run < MaxRuns
    /\ calls' = [calls EXCEPT ![s].run = @ + 1]
    /\ todo' = [todo EXCEPT ![s] = OrderOf[s]]
    /\ Goto(s, "loop")
    /\ UNCHANGED <<queueVars, direct, adapterVars, resultVars>>

EndRun(s) ==
    /\ At(s, "loop") /\ todo[s] = <<>>
    /\ Goto(s, "idle")
    /\ UNCHANGED <<queueVars, todo, direct, adapterVars, resultVars, calls>>

\* A bug that finds the completed task again at each turn of the loop.
MutantSkipCompleted(s) ==
    /\ At(s, "loop") /\ todo[s] # <<>> /\ Current(s) \in completed[s]
    /\ UNCHANGED vars

\* Tasks finished in an earlier run are passed over.
SkipCompleted(s) ==
    /\ At(s, "loop") /\ todo[s] # <<>> /\ Current(s) \in completed[s]
    /\ todo' = [todo EXCEPT ![s] = Tail(@)]
    /\ UNCHANGED <<queueVars, pc, direct, adapterVars, resultVars, calls>>

\* A bug that drops "if task.task_id in self.completed_task_ids".
MutantVisit(s) == At(s, "loop") /\ todo[s] # <<>>

Visit(s) == At(s, "loop") /\ todo[s] # <<>> /\ Current(s) \notin completed[s]

\* A bug that gives the outcome a status the class does not document.
MutantSkipHandoff(s) ==
    /\ Visit(s) /\ AdapterOf(s, Current(s)) = NoAdapter
    /\ Complete(s, Current(s))
    /\ Record(s, Current(s), "completed", NoDecision)
    /\ todo' = [todo EXCEPT ![s] = Tail(@)]
    /\ UNCHANGED <<queueVars, pc, direct, adapterVars, launched, calls>>

\* A node with no command completes at once, whatever became of its
\* predecessors.
SkipHandoff(s) ==
    /\ Visit(s) /\ AdapterOf(s, Current(s)) = NoAdapter
    /\ Complete(s, Current(s))
    /\ Record(s, Current(s), "skipped", NoDecision)
    /\ todo' = [todo EXCEPT ![s] = Tail(@)]
    /\ UNCHANGED <<queueVars, pc, direct, adapterVars, launched, calls>>

\* A bug that sets the context before plan(), outside the try block.
MutantPlanRaises(s) ==
    /\ Visit(s) /\ AdapterOf(s, Current(s)) # NoAdapter
    /\ CommandFor(s, Current(s)) = NoCommand
    /\ gate_context' = [gate_context EXCEPT ![s][AdapterOf(s, Current(s))] =
            [plan |-> PlanOf[s], completed |-> completed[s]]]
    /\ todo' = [todo EXCEPT ![s] = <<>>]
    /\ Goto(s, "idle")
    /\ UNCHANGED <<queueVars, direct, last_decision, resultVars, calls>>

\* plan(task) stands before the try block: what it raises ends run().
PlanRaises(s) ==
    /\ Visit(s) /\ AdapterOf(s, Current(s)) # NoAdapter
    /\ CommandFor(s, Current(s)) = NoCommand
    /\ todo' = [todo EXCEPT ![s] = <<>>]
    /\ Goto(s, "idle")
    /\ UNCHANGED <<queueVars, direct, adapterVars, resultVars, calls>>

BeginTask(s) ==
    LET a == AdapterOf(s, Current(s)) IN
    /\ Visit(s) /\ a # NoAdapter /\ CommandFor(s, Current(s)) # NoCommand
    /\ gate_context' = [gate_context EXCEPT ![s][a] =
            [plan |-> PlanOf[s], completed |-> completed[s]]]
    /\ Goto(s, "execute")
    /\ UNCHANGED <<queueVars, todo, direct, last_decision, resultVars, calls>>

\* The owner calls adapter.execute() on a planned command outside run().
DirectExecute(s, t) ==
    /\ At(s, "idle") /\ calls[s].direct < MaxDirect
    /\ calls' = [calls EXCEPT ![s].direct = @ + 1]
    /\ todo' = [todo EXCEPT ![s] = <<t>>]
    /\ direct' = [direct EXCEPT ![s] = TRUE]
    /\ Goto(s, "execute")
    /\ UNCHANGED <<queueVars, adapterVars, resultVars>>

-----------------------------------------------------------------------------
(* execute() up to the tool: policy, gate, review *)

PolicyRefuses(s) ==
    /\ At(s, "execute") /\ ~PolicyAllows(CommandFor(s, Current(s)), EnvOf[s])
    /\ Goto(s, "raise")
    /\ UNCHANGED <<queueVars, todo, direct, adapterVars, resultVars, calls>>

\* A bug that treats ESCALATE as advice.
MutantAfterVerdict(s, verdict) == IF verdict = DENY THEN "raise" ELSE "launch"

\* Where _gate_or_raise goes on after the verdict.
AfterVerdict(s, verdict) ==
    IF verdict = APPROVE THEN "launch"
    ELSE IF verdict = ESCALATE /\ s \in Wired THEN "lookup"
    ELSE "raise"

RunGate(s) ==
    LET t == Current(s)
        a == AdapterOf(s, t)
        verdict == Evaluate(CommandFor(s, t), EnvOf[s], gate_context[s][a])
    IN  /\ At(s, "execute") /\ PolicyAllows(CommandFor(s, t), EnvOf[s])
        /\ last_decision' = [last_decision EXCEPT ![s][a] = [final |-> verdict, of |-> t]]
        /\ Goto(s, AfterVerdict(s, verdict))
        /\ UNCHANGED <<queueVars, todo, direct, gate_context, resultVars, calls>>

\* is_key_approved, one locked call.
LookUpApproval(s) ==
    /\ At(s, "lookup")
    /\ Goto(s, IF Queue!IsKeyApproved(KeyFor(s, Current(s))) THEN "launch" ELSE "dedup")
    /\ UNCHANGED <<queueVars, todo, direct, adapterVars, resultVars, calls>>

\* A bug that requests a review on every attempt.
MutantLookUpPending(s) ==
    /\ At(s, "dedup")
    /\ Goto(s, "enqueue")
    /\ UNCHANGED <<queueVars, todo, direct, adapterVars, resultVars, calls>>

\* has_pending_key, the next locked call.
LookUpPending(s) ==
    /\ At(s, "dedup")
    /\ Goto(s, IF Queue!HasPendingKey(KeyFor(s, Current(s))) THEN "raise" ELSE "enqueue")
    /\ UNCHANGED <<queueVars, todo, direct, adapterVars, resultVars, calls>>

RequestReview(s) ==
    /\ At(s, "enqueue")
    /\ \E id \in ReviewIds :
          Queue!Enqueue(id, KeyFor(s, Current(s)), KeyFor(s, Current(s)))
    /\ Goto(s, "raise")
    /\ UNCHANGED <<todo, direct, adapterVars, resultVars, calls>>

-----------------------------------------------------------------------------
(* The tool, and the end of the task *)

\* The nmap binary is missing, or no RPC client was configured.
ToolUnavailable(s) ==
    /\ At(s, "launch")
    /\ Goto(s, "raise")
    /\ UNCHANGED <<queueVars, todo, direct, adapterVars, resultVars, calls>>

Launch(s) ==
    /\ At(s, "launch")
    /\ launched' = [launched EXCEPT ![s] = @ \cup {Current(s)}]
    /\ Goto(s, "running")
    /\ UNCHANGED <<queueVars, todo, direct, adapterVars, completed, outcomes, calls>>

\* The tool ran, but subprocess.run timed out, the scratch file could not be
\* written, or the RPC call failed.
ToolFails(s) ==
    /\ At(s, "running")
    /\ Goto(s, "raise")
    /\ UNCHANGED <<queueVars, todo, direct, adapterVars, resultVars, calls>>

ClearContext(s) ==
    gate_context' = [gate_context EXCEPT ![s][AdapterOf(s, Current(s))] = NoContext]

ToolReturns(s) ==
    LET t == Current(s) IN
    /\ At(s, "running") /\ ~direct[s]
    /\ Complete(s, t)
    /\ Record(s, t, "executed", last_decision[s][AdapterOf(s, t)])
    /\ ClearContext(s)
    /\ todo' = [todo EXCEPT ![s] = Tail(@)]
    /\ Goto(s, "loop")
    /\ UNCHANGED <<queueVars, direct, last_decision, launched, calls>>

\* A bug in the error path: the adapter keeps the context of the failed task.
MutantBlocked(s) ==
    LET t == Current(s) IN
    /\ At(s, "raise") /\ ~direct[s]
    /\ Record(s, t, "blocked", last_decision[s][AdapterOf(s, t)])
    /\ todo' = [todo EXCEPT ![s] = Tail(@)]
    /\ Goto(s, "loop")
    /\ UNCHANGED <<queueVars, direct, adapterVars, completed, launched, calls>>

\* A bug that completes the task on the error path too.
MutantBlockedCompletes(s) ==
    LET t == Current(s) IN
    /\ At(s, "raise") /\ ~direct[s]
    /\ Complete(s, t)
    /\ Record(s, t, "blocked", last_decision[s][AdapterOf(s, t)])
    /\ ClearContext(s)
    /\ todo' = [todo EXCEPT ![s] = Tail(@)]
    /\ Goto(s, "loop")
    /\ UNCHANGED <<queueVars, direct, last_decision, launched, calls>>

\* Any exception out of execute() becomes a "blocked" outcome with the
\* adapter's last decision; the context is reset on this path too.
Blocked(s) ==
    LET t == Current(s) IN
    /\ At(s, "raise") /\ ~direct[s]
    /\ Record(s, t, "blocked", last_decision[s][AdapterOf(s, t)])
    /\ ClearContext(s)
    /\ todo' = [todo EXCEPT ![s] = Tail(@)]
    /\ Goto(s, "loop")
    /\ UNCHANGED <<queueVars, direct, last_decision, completed, launched, calls>>

\* A direct execute() raises to its caller.
DirectRaises(s) ==
    /\ At(s, "raise") /\ direct[s]
    /\ direct' = [direct EXCEPT ![s] = FALSE]
    /\ todo' = [todo EXCEPT ![s] = <<>>]
    /\ Goto(s, "idle")
    /\ UNCHANGED <<queueVars, adapterVars, resultVars, calls>>

-----------------------------------------------------------------------------
(* Operators, and the whole *)

OperatorDecides ==
    \E id \in ReviewIds, verdict \in Queue!ReviewVerdict, operator \in OperatorIds :
        /\ Queue!Decide(id, verdict, operator,
                        IF verdict = Queue!Modify THEN EmptyPayload ELSE NoPayload)
        /\ UNCHANGED <<pc, todo, direct, adapterVars, resultVars, calls>>

\* What run(), once called, does by itself; the tool's steps are apart.
OwnStep(s) ==
    \/ EndRun(s) \/ SkipCompleted(s) \/ SkipHandoff(s) \/ PlanRaises(s) \/ BeginTask(s)
    \/ PolicyRefuses(s) \/ RunGate(s) \/ LookUpApproval(s) \/ LookUpPending(s)
    \/ RequestReview(s) \/ ToolUnavailable(s) \/ Launch(s) \/ Blocked(s) \/ DirectRaises(s)

ToolStep(s) == ToolFails(s) \/ ToolReturns(s)

OwnerCalls(s) == StartRun(s) \/ \E t \in Gated(s) : DirectExecute(s, t)

Next ==
    \/ \E s \in Sessions : OwnerCalls(s) \/ OwnStep(s) \/ ToolStep(s)
    \/ OperatorDecides

Safety == Init /\ [][Next]_vars

\* A thread keeps running, and an nmap process ends: subprocess.run kills it
\* at the timeout.  Nothing bounds a metasploit RPC call, no operator has to
\* decide anything, and no owner has to call run() again.
Fairness ==
    \A s \in Sessions :
        /\ WF_vars(OwnStep(s))
        /\ WF_vars(At(s, "running") /\ AdapterOf(s, Current(s)) = nmap /\ ToolStep(s))

Spec == Safety /\ Fairness

-----------------------------------------------------------------------------
(* Properties *)

Locations == {"idle", "loop", "execute", "lookup", "dedup", "enqueue", "launch", "running",
              "raise"}

Outcome(s) ==
    [task_id : TaskIds(PlanOf[s]), status : {"executed", "blocked", "skipped"},
     decision : {NoDecision} \cup [final : Verdict, of : TaskIds(PlanOf[s])]]

TypeOK ==
    /\ Queue!TypeOK
    /\ pc \in [Sessions -> Locations]
    /\ direct \in [Sessions -> BOOLEAN]
    /\ \A s \in Sessions :
          /\ todo[s] \in Seq(TaskIds(PlanOf[s]))
          /\ completed[s] \subseteq TaskIds(PlanOf[s])
          /\ launched[s] \subseteq Gated(s)
          /\ outcomes[s] \in Seq(Outcome(s))
          /\ calls[s] \in [run : 0 .. MaxRuns, direct : 0 .. MaxDirect]
          /\ pc[s] \notin {"idle", "loop"} => todo[s] # <<>> /\ Current(s) \in Gated(s)

\* The tool is started in this step.
Launches(s) == At(s, "launch") /\ pc'[s] = "running"

AuthorisedLaunch(s) ==
    LET t == Current(s) IN
    /\ ~direct[s]
    /\ EnvOf[s] = CALDERA_ONLY
    /\ PlanOf[s].nodes[t].operator_approved
    /\ Predecessors(PlanOf[s], t) \subseteq completed[s]
    /\ t \notin completed[s]
    /\ s \in Wired
    /\ Queue!IsKeyApproved(KeyFor(s, t))

\* A tool is only ever started by run(), for a signed-off task of the plan
\* that is not finished and whose predecessors are, and only once an operator
\* approved that very command line: never by a direct execute(), never on the
\* strength of a context or an approval that belongs to something else.
LaunchesAreAuthorised == [][\A s \in Sessions : Launches(s) => AuthorisedLaunch(s)]_vars

\* Outside a task, and in a direct execute(), every adapter is back at its
\* fail-closed default, whichever way the last task ended (runner.py:23).
ContextOnlyInsideTask ==
    \A s \in Sessions : At(s, "idle") \/ At(s, "loop") \/ direct[s] =>
        \A a \in AdapterNames : gate_context[s][a] = NoContext

Finished(o) == o.status \in {"executed", "skipped"}

\* The outcomes account for completed_task_ids over all runs: a task is
\* completed by exactly one outcome and has none after it, only a started
\* task is recorded as executed, and a recorded decision is the task's own.
OutcomesExplainCompleted ==
    \A s \in Sessions :
        LET log == outcomes[s] IN
        /\ completed[s] = {log[i].task_id : i \in {j \in DOMAIN log : Finished(log[j])}}
        /\ \A i, j \in DOMAIN log :
              i < j /\ log[i].task_id = log[j].task_id => ~Finished(log[i])
        /\ \A i \in DOMAIN log :
              /\ log[i].status = "executed" => log[i].task_id \in launched[s]
              /\ log[i].decision # NoDecision => log[i].decision.of = log[i].task_id

\* "before must complete before after starts" (Edge, planner.py:44) along
\* whole paths: when a tool is started, every command upstream has run.
AncestorsRanFirst ==
    \A s \in Sessions : \A t \in launched[s] :
        \A a \in Ancestors(PlanOf[s], t) :
            a \in completed[s] /\ (a \in Gated(s) => a \in launched[s])

OpenReviews(key) == {id \in DOMAIN pending : pending[id].dedup_key = key}

\* The check-then-enqueue of _gate_or_raise is not atomic, yet one command
\* never has more open reviews than there are threads that can request them.
OpenReviewsBounded ==
    \A key \in CommandKeys :
        Cardinality(OpenReviews(key)) <=
            Cardinality({s \in Wired : \E t \in Gated(s) : KeyFor(s, t) = key})

\* A review is requested only for a command no operator has approved yet
\* (_gate_or_raise: "execute only if an operator APPROVE is already recorded
\* for this command; otherwise enqueue a review").
NoReviewForApprovedCommand ==
    [][\A s \in Sessions : At(s, "enqueue") /\ pc'[s] = "raise" =>
          ~Queue!IsKeyApproved(KeyFor(s, Current(s)))]_vars

\* Every run() and every direct execute() ends, unless it waits for an RPC.
WaitsForRpc(s) == At(s, "running") /\ AdapterOf(s, Current(s)) = msf

CallsReturn ==
    \A s \in Sessions : ~At(s, "idle") ~> At(s, "idle") \/ WaitsForRpc(s)

\* The sessions implement gated execution as an operator understands it.
Cleared == INSTANCE ClearedExecution
    WITH Owners <- Sessions,
         Tasks <- [s \in Sessions |-> TaskIds(PlanOf[s])],
         Commanded <- [s \in Sessions |-> Gated(s)],
         Before <- LAMBDA s, t : Predecessors(PlanOf[s], t),
         Key <- KeyFor,
         AllKeys <- CommandKeys,
         cleared <- {k \in CommandKeys : Queue!IsKeyApproved(k)},
         started <- launched,
         done <- completed

ImplementsClearedExecution == Cleared!Spec
=============================================================================
