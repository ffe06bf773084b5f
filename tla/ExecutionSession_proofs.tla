------------------------ MODULE ExecutionSession_proofs ------------------------
(***************************************************************************)
(* Proofs about ExecutionSession for any number of sessions, any plans,    *)
(* networks, reviews and operators.  The inductive invariant says, for     *)
(* each session, which context its adapters hold and what the gate and the *)
(* queue have already said about the current task; a step of a session     *)
(* disturbs only its own part, and no step takes an approval back.  On it  *)
(* stand a second invariant over the history of each session (its log, its *)
(* completed tasks, the tools it started), a count of open reviews, the    *)
(* refinement of ClearedExecution, and a third invariant that relates the  *)
(* recorded verdicts to the report `oubliette-warden gate` would print.    *)
(***************************************************************************)
EXTENDS GateReport, SafetyGate_proofs, SequenceTheorems, FiniteSetTheorems,
        WellFoundedInduction

\* The places of execute() behind the gate.
PastGate == {"lookup", "dedup", "enqueue", "launch", "running"}

Outside == {"idle", "loop"}

TaskContext(s, done) == [plan |-> PlanOf[s], completed |-> done]

GateVerdict(s, t, ctx) == Evaluate(CommandFor(s, t), EnvOf[s], ctx[AdapterOf(s, t)])

\* A session at place `at`, with the given tasks to do, contexts and so on.
Good(s, at, list, isDirect, done, ctx) ==
    /\ at \in Locations
    /\ isDirect \in BOOLEAN
    /\ list \in Seq(TaskIds(PlanOf[s]))
    /\ DOMAIN ctx = AdapterNames
    /\ at \in Outside => ~isDirect
    /\ at \in Outside \/ isDirect => \A a \in AdapterNames : ctx[a] = NoContext
    /\ at \notin Outside => list # <<>> /\ Head(list) \in Gated(s)
    /\ at \notin Outside /\ ~isDirect =>
          /\ Head(list) \notin done
          /\ ctx[AdapterOf(s, Head(list))] = TaskContext(s, done)
          /\ \A a \in AdapterNames \ {AdapterOf(s, Head(list))} : ctx[a] = NoContext
    /\ at \in PastGate => s \in Wired /\ GateVerdict(s, Head(list), ctx) # DENY

Shape ==
    /\ DOMAIN pc = Sessions /\ DOMAIN todo = Sessions /\ DOMAIN direct = Sessions
    /\ DOMAIN completed = Sessions /\ DOMAIN gate_context = Sessions

QueueConsistent ==
    /\ DOMAIN pending \cap DOMAIN decisions = {}
    /\ DOMAIN keys \subseteq DOMAIN pending \cup DOMAIN decisions

ApprovedIfLaunching(s) == pc[s] = "launch" => Queue!IsKeyApproved(KeyFor(s, Head(todo[s])))

IInv ==
    /\ Shape
    /\ QueueConsistent
    /\ \A s \in Sessions :
          /\ Good(s, pc[s], todo[s], direct[s], completed[s], gate_context[s])
          /\ ApprovedIfLaunching(s)

-----------------------------------------------------------------------------
(* Tasks and contexts *)

LEMMA GatedTasks ==
    ASSUME NEW s \in Sessions, NEW t \in Gated(s)
    PROVE  /\ t \in TaskIds(PlanOf[s])
           /\ AdapterOf(s, t) \in AdapterNames
           /\ CommandFor(s, t).task_id = t
           /\ KeyFor(s, t) \in CommandKeys
<1>1. t \in TaskIds(PlanOf[s]) /\ AdapterOf(s, t) # NoAdapter /\ CommandFor(s, t) # NoCommand
    BY DEF Gated
<1>2. AdapterOf(s, t) \in AdapterNames
    BY <1>1, SessionAssumption DEF AdapterOf
<1>3. CommandFor(s, t).task_id = t
    BY <1>1 DEF CommandFor, PlanCommand, NmapPlan, MsfPlan, CommandOf
<1>4. KeyFor(s, t) \in CommandKeys
    BY DEF CommandKeys
<1>5. QED  BY <1>1, <1>2, <1>3, <1>4

\* A direct execute() has no context, so the gate denies it: whoever is past
\* the gate is inside run(), on a planned, signed-off task that is in order.
LEMMA PastGateMeans ==
    ASSUME NEW s \in Sessions, NEW at, NEW list, NEW isDirect, NEW done, NEW ctx,
           Good(s, at, list, isDirect, done, ctx), at \in PastGate
    PROVE  /\ ~isDirect
           /\ s \in Wired
           /\ EnvOf[s] = CALDERA_ONLY
           /\ PlanOf[s].nodes[Head(list)].operator_approved
           /\ Predecessors(PlanOf[s], Head(list)) \subseteq done
           /\ Head(list) \notin done
<1> DEFINE t == Head(list)
<1>1. at \notin Outside
    BY DEF PastGate, Outside
<1>2. t \in Gated(s) /\ s \in Wired /\ GateVerdict(s, t, ctx) # DENY
    BY <1>1 DEF Good
<1>3. AdapterOf(s, t) \in AdapterNames /\ CommandFor(s, t).task_id = t
    BY <1>2, GatedTasks
<1> DEFINE context == ctx[AdapterOf(s, t)]
<1>4. Evaluate(CommandFor(s, t), EnvOf[s], context) # DENY
    BY <1>2 DEF GateVerdict
<1>5. /\ context # NoContext
      /\ OnPlan(CommandFor(s, t), context.plan, t, context.completed, DefaultConfig)
      /\ EnvOf[s] = CALDERA_ONLY
    <2> HIDE DEF context, t
    <2>1. QED  BY <1>3, <1>4, PassesOnlyPlannedWork
<1>6. ~isDirect
    BY <1>3, <1>5 DEF Good
<1>7. t \notin done /\ context = TaskContext(s, done)
    BY <1>1, <1>6 DEF Good
<1>8. context.plan = PlanOf[s] /\ context.completed = done
    BY <1>7 DEF TaskContext
<1>9. /\ PlanOf[s].nodes[t].operator_approved
      /\ Predecessors(PlanOf[s], t) \subseteq done
    <2> HIDE DEF context, t
    <2>1. QED  BY <1>5, <1>8, OnPlanMeans
<1>10. QED  BY <1>2, <1>5, <1>6, <1>7, <1>9

-----------------------------------------------------------------------------
(* The queue *)

\* No approval is lost in the step, and the queue stays consistent.
QueueSteady ==
    /\ QueueConsistent'
    /\ \A key : Queue!IsKeyApproved(key) => Queue!IsKeyApproved(key)'

LEMMA QueueUnchanged ==
    ASSUME QueueConsistent, UNCHANGED queueVars
    PROVE  QueueSteady
<1>1. pending' = pending /\ decisions' = decisions /\ keys' = keys
    BY DEF queueVars
<1>2. QED  BY <1>1 DEF QueueSteady, QueueConsistent, Queue!IsKeyApproved, Queue!HasKey

LEMMA EnqueueSteady ==
    ASSUME QueueConsistent, NEW id, NEW key, NEW payload, Queue!Enqueue(id, key, payload)
    PROVE  QueueSteady
<1>1. id \notin DOMAIN pending /\ id \notin DOMAIN decisions /\ decisions' = decisions
    BY DEF Queue!Enqueue, Queue!FreshId, Queue!Known
<1>2. DOMAIN pending' = DOMAIN pending \cup {id}
    BY DEF Queue!Enqueue, Queue!Put
<1>3. /\ DOMAIN keys' \subseteq DOMAIN keys \cup {id}
      /\ \A x \in DOMAIN keys : x # id => x \in DOMAIN keys' /\ keys'[x] = keys[x]
    <2>1. CASE key = NoKey
        BY <2>1 DEF Queue!Enqueue
    <2>2. CASE key # NoKey
        BY <2>2 DEF Queue!Enqueue, Queue!Put
    <2>3. QED  BY <2>1, <2>2
<1>4. QueueConsistent'
    BY <1>1, <1>2, <1>3 DEF QueueConsistent
<1>5. QED
    BY <1>1, <1>3, <1>4 DEF QueueSteady, Queue!IsKeyApproved, Queue!HasKey

LEMMA DecideSteady ==
    ASSUME QueueConsistent, NEW id, NEW verdict, NEW operator, NEW modified,
           Queue!Decide(id, verdict, operator, modified)
    PROVE  QueueSteady
<1>1. id \in DOMAIN pending /\ id \notin DOMAIN decisions /\ keys' = keys
    BY DEF Queue!Decide, Queue!Decidable, QueueConsistent
<1>2. DOMAIN pending' = DOMAIN pending \ {id}
    BY DEF Queue!Decide, Queue!Pop
<1>3. /\ DOMAIN decisions' = DOMAIN decisions \cup {id}
      /\ \A x \in DOMAIN decisions : decisions'[x] = decisions[x]
    BY <1>1 DEF Queue!Decide, Queue!Put
<1>4. QueueConsistent'
    BY <1>1, <1>2, <1>3 DEF QueueConsistent
<1>5. QED
    BY <1>1, <1>3, <1>4 DEF QueueSteady, Queue!IsKeyApproved, Queue!HasKey

-----------------------------------------------------------------------------
(* Steps of one session *)

\* Whatever happens to session s, nothing of the others is touched.
OnlyTouches(s) ==
    /\ DOMAIN pc' = Sessions /\ DOMAIN todo' = Sessions /\ DOMAIN direct' = Sessions
    /\ DOMAIN completed' = Sessions /\ DOMAIN gate_context' = Sessions
    /\ \A r \in Sessions \ {s} :
          /\ pc'[r] = pc[r] /\ todo'[r] = todo[r] /\ direct'[r] = direct[r]
          /\ completed'[r] = completed[r] /\ gate_context'[r] = gate_context[r]

\* What is left to show of a step of session s.
LEMMA StepOf ==
    ASSUME IInv, NEW s \in Sessions, OnlyTouches(s), QueueSteady,
           Good(s, pc'[s], todo'[s], direct'[s], completed'[s], gate_context'[s]),
           pc'[s] = "launch" => Queue!IsKeyApproved(KeyFor(s, Head(todo[s]))) /\ todo' = todo
    PROVE  IInv'
<1>1. Shape'
    BY DEF OnlyTouches, Shape
<1>2. QueueConsistent'
    BY DEF QueueSteady
<1>3. ASSUME NEW r \in Sessions
      PROVE  Good(r, pc'[r], todo'[r], direct'[r], completed'[r], gate_context'[r])
    <2>1. CASE r = s
        BY <2>1
    <2>2. CASE r # s
        BY <2>2 DEF OnlyTouches, IInv
    <2>3. QED  BY <2>1, <2>2
<1>4. ASSUME NEW r \in Sessions
      PROVE  ApprovedIfLaunching(r)'
    <2> DEFINE k == KeyFor(r, Head(todo[r]))
    <2>1. pc'[r] = "launch" => Queue!IsKeyApproved(k) /\ todo'[r] = todo[r]
        <3>1. CASE r = s
            BY <3>1
        <3>2. CASE r # s
            BY <3>2 DEF OnlyTouches, IInv, ApprovedIfLaunching
        <3>3. QED  BY <3>1, <3>2
    <2>2. Queue!IsKeyApproved(k) => \E id \in DOMAIN decisions' :
              decisions'[id].verdict = Queue!Approve /\ id \in DOMAIN keys' /\ keys'[id] = k
        BY DEF QueueSteady, Queue!IsKeyApproved, Queue!HasKey
    <2>3. QED
        BY <2>1, <2>2 DEF ApprovedIfLaunching, Queue!IsKeyApproved, Queue!HasKey
<1>5. QED
    BY <1>1, <1>2, <1>3, <1>4 DEF IInv, Good, ApprovedIfLaunching, KeyFor, GateVerdict

\* A step that only moves the thread.
LEMMA Moves ==
    ASSUME IInv, NEW s \in Sessions, NEW at \in Locations, Goto(s, at),
           UNCHANGED <<todo, direct, completed, gate_context>>, QueueSteady,
           at \in Outside <=> pc[s] \in Outside,
           at \in PastGate =>
               s \in Wired /\ GateVerdict(s, Head(todo[s]), gate_context[s]) # DENY,
           at = "launch" => Queue!IsKeyApproved(KeyFor(s, Head(todo[s])))
    PROVE  IInv'
<1>1. OnlyTouches(s)
    BY DEF OnlyTouches, IInv, Shape, Goto
<1>2. pc'[s] = at
    BY DEF Goto, IInv, Shape
<1>3. Good(s, pc'[s], todo'[s], direct'[s], completed'[s], gate_context'[s])
    <2>1. Good(s, pc[s], todo[s], direct[s], completed[s], gate_context[s])
        BY DEF IInv
    <2>2. QED  BY <1>2, <2>1 DEF Good
<1>4. QED  BY <1>1, <1>2, <1>3, StepOf

-----------------------------------------------------------------------------
(* The actions, one by one *)

LEMMA TaskPlaces ==
    ASSUME IInv, NEW s \in Sessions
    PROVE  Good(s, pc[s], todo[s], direct[s], completed[s], gate_context[s])
BY DEF IInv

\* The loop of run().
LEMMA StartRunIInv == ASSUME IInv, NEW s \in Sessions, StartRun(s) PROVE IInv'
<1>1. OnlyTouches(s)
    BY DEF StartRun, adapterVars, resultVars, Goto, OnlyTouches, IInv, Shape
<1>2. QueueSteady
    BY QueueUnchanged DEF StartRun, IInv
<1>3. Good(s, "loop", OrderOf[s], direct[s], completed[s], gate_context[s])
    <2>1. pc[s] = "idle"
        BY DEF StartRun, At
    <2>2. OrderOf[s] \in Seq(TaskIds(PlanOf[s]))
        BY SessionAssumption
    <2>3. QED  BY <2>1, <2>2, TaskPlaces DEF Good, Outside, PastGate, Locations
<1>4. /\ pc'[s] = "loop" /\ todo'[s] = OrderOf[s] /\ direct'[s] = direct[s]
      /\ completed'[s] = completed[s] /\ gate_context'[s] = gate_context[s]
    BY DEF StartRun, adapterVars, resultVars, Goto, IInv, Shape
<1>5. QED  BY <1>1, <1>2, <1>3, <1>4, StepOf

LEMMA EndRunIInv == ASSUME IInv, NEW s \in Sessions, EndRun(s) PROVE IInv'
<1>1. QueueSteady
    BY QueueUnchanged DEF EndRun, IInv
<1>2. QED
    BY <1>1, Moves DEF EndRun, At, adapterVars, resultVars, Outside, PastGate, Locations

\* A step of the loop that drops the current task, with or without
\* completing it, keeps the adapters closed.
LEMMA PassesOver ==
    ASSUME IInv, NEW s \in Sessions, At(s, "loop"), todo[s] # <<>>, QueueSteady,
           todo' = [todo EXCEPT ![s] = Tail(@)], DOMAIN completed' = Sessions,
           \A r \in Sessions \ {s} : completed'[r] = completed[r],
           UNCHANGED <<pc, direct, gate_context>>
    PROVE  IInv'
<1>1. OnlyTouches(s)
    BY DEF OnlyTouches, IInv, Shape
<1>2. Good(s, "loop", Tail(todo[s]), direct[s], completed'[s], gate_context[s])
    <2>1. todo[s] \in Seq(TaskIds(PlanOf[s])) /\ pc[s] = "loop"
        BY TaskPlaces DEF Good, At
    <2>2. Tail(todo[s]) \in Seq(TaskIds(PlanOf[s]))
        BY <2>1, HeadTailProperties
    <2>3. QED  BY <2>1, <2>2, TaskPlaces DEF Good, Outside, PastGate, Locations
<1>3. pc'[s] = "loop" /\ todo'[s] = Tail(todo[s])
    BY DEF At, IInv, Shape
<1>4. QED  BY <1>1, <1>2, <1>3, StepOf

LEMMA SkipCompletedIInv == ASSUME IInv, NEW s \in Sessions, SkipCompleted(s) PROVE IInv'
<1>1. QueueSteady
    BY QueueUnchanged DEF SkipCompleted, IInv
<1>2. QED
    BY <1>1, PassesOver DEF SkipCompleted, adapterVars, resultVars, IInv, Shape

LEMMA SkipHandoffIInv == ASSUME IInv, NEW s \in Sessions, SkipHandoff(s) PROVE IInv'
<1>1. QueueSteady
    BY QueueUnchanged DEF SkipHandoff, IInv
<1>2. QED
    BY <1>1, PassesOver DEF SkipHandoff, Visit, Complete, adapterVars, IInv, Shape

LEMMA PlanRaisesIInv == ASSUME IInv, NEW s \in Sessions, PlanRaises(s) PROVE IInv'
<1>1. OnlyTouches(s)
    BY DEF PlanRaises, adapterVars, resultVars, Goto, OnlyTouches, IInv, Shape
<1>2. QueueSteady
    BY QueueUnchanged DEF PlanRaises, IInv
<1>3. Good(s, "idle", <<>>, direct[s], completed[s], gate_context[s])
    <2>1. pc[s] = "loop"
        BY DEF PlanRaises, Visit, At
    <2>2. <<>> \in Seq(TaskIds(PlanOf[s]))
        OBVIOUS
    <2>3. QED  BY <2>1, <2>2, TaskPlaces DEF Good, Outside, PastGate, Locations
<1>4. /\ pc'[s] = "idle" /\ todo'[s] = <<>> /\ direct'[s] = direct[s]
      /\ completed'[s] = completed[s] /\ gate_context'[s] = gate_context[s]
    BY DEF PlanRaises, adapterVars, resultVars, Goto, IInv, Shape
<1>5. QED  BY <1>1, <1>2, <1>3, <1>4, StepOf

\* BeginTask opens exactly one adapter's context.
LEMMA BeginTaskIInv == ASSUME IInv, NEW s \in Sessions, BeginTask(s) PROVE IInv'
<1> DEFINE t == Current(s)
           a == AdapterOf(s, t)
           context == TaskContext(s, completed[s])
           ctx == [gate_context[s] EXCEPT ![a] = context]
<1>1. pc[s] = "loop" /\ todo[s] # <<>> /\ t \notin completed[s]
    BY DEF BeginTask, Visit, At
<1>2. /\ todo[s] \in Seq(TaskIds(PlanOf[s])) /\ DOMAIN gate_context[s] = AdapterNames
      /\ \A b \in AdapterNames : gate_context[s][b] = NoContext
      /\ ~direct[s]
    BY <1>1, TaskPlaces DEF Good, Outside
<1>3. t \in TaskIds(PlanOf[s])
    BY <1>1, <1>2 DEF Current
<1>4. t \in Gated(s) /\ a \in AdapterNames
    <2>1. t \in Gated(s)
        BY <1>3 DEF BeginTask, Gated
    <2>2. QED  BY <2>1, GatedTasks
<1>5. OnlyTouches(s)
    BY DEF BeginTask, resultVars, Goto, OnlyTouches, IInv, Shape
<1>6. QueueSteady
    BY QueueUnchanged DEF BeginTask, IInv
<1>7. DOMAIN ctx = AdapterNames /\ ctx[a] = context
      /\ \A b \in AdapterNames \ {a} : ctx[b] = NoContext
    BY <1>2, <1>4
<1>8. Good(s, "execute", todo[s], FALSE, completed[s], ctx)
    <2> HIDE DEF ctx
    <2>1. QED
        BY <1>1, <1>2, <1>4, <1>7 DEF Good, Outside, PastGate, Locations, Current
<1>9. /\ pc'[s] = "execute" /\ todo'[s] = todo[s] /\ direct'[s] = FALSE
      /\ completed'[s] = completed[s] /\ gate_context'[s] = ctx
    BY <1>2 DEF BeginTask, resultVars, Goto, TaskContext, IInv, Shape
<1>10. QED  BY <1>5, <1>6, <1>8, <1>9, StepOf

LEMMA DirectExecuteIInv ==
    ASSUME IInv, NEW s \in Sessions, NEW t \in Gated(s), DirectExecute(s, t)
    PROVE  IInv'
<1>1. OnlyTouches(s)
    BY DEF DirectExecute, adapterVars, resultVars, Goto, OnlyTouches, IInv, Shape
<1>2. QueueSteady
    BY QueueUnchanged DEF DirectExecute, IInv
<1>3. Good(s, "execute", <<t>>, TRUE, completed[s], gate_context[s])
    <2>1. pc[s] = "idle"
        BY DEF DirectExecute, At
    <2>2. <<t>> \in Seq(TaskIds(PlanOf[s])) /\ <<t>> # <<>> /\ Head(<<t>>) = t
        BY GatedTasks
    <2>3. QED  BY <2>1, <2>2, TaskPlaces DEF Good, Outside, PastGate, Locations
<1>4. /\ pc'[s] = "execute" /\ todo'[s] = <<t>> /\ direct'[s] = TRUE
      /\ completed'[s] = completed[s] /\ gate_context'[s] = gate_context[s]
    BY DEF DirectExecute, adapterVars, resultVars, Goto, IInv, Shape
<1>5. QED  BY <1>1, <1>2, <1>3, <1>4, StepOf

\* execute(): each of these steps only moves the thread.
LEMMA GateIInv ==
    ASSUME IInv, NEW s \in Sessions, PolicyRefuses(s) \/ RunGate(s)
    PROVE  IInv'
<1> DEFINE t == Head(todo[s])
           verdict == GateVerdict(s, t, gate_context[s])
<1>1. QueueSteady
    BY QueueUnchanged DEF PolicyRefuses, RunGate, IInv
<1>2. pc[s] = "execute"
    BY DEF PolicyRefuses, RunGate, At
<1>3. CASE PolicyRefuses(s)
    BY <1>1, <1>2, <1>3, Moves
    DEF PolicyRefuses, adapterVars, resultVars, Outside, PastGate, Locations
<1>4. CASE RunGate(s)
    <2>1. verdict # APPROVE
        BY NeverApproves DEF GateVerdict
    <2>2. Goto(s, AfterVerdict(s, verdict)) /\ UNCHANGED <<todo, direct, completed, gate_context>>
        BY <1>4 DEF RunGate, GateVerdict, Current, resultVars
    <2>3. \/ AfterVerdict(s, verdict) = "raise"
          \/ AfterVerdict(s, verdict) = "lookup" /\ verdict # DENY /\ s \in Wired
        BY <2>1 DEF AfterVerdict, ESCALATE, DENY
    <2> HIDE DEF verdict
    <2>4. CASE AfterVerdict(s, verdict) = "raise"
        BY <1>1, <1>2, <2>2, <2>4, Moves DEF Outside, PastGate, Locations
    <2>5. CASE AfterVerdict(s, verdict) = "lookup" /\ verdict # DENY /\ s \in Wired
        BY <1>1, <1>2, <2>2, <2>5, Moves DEF Outside, PastGate, Locations, verdict
    <2>6. QED  BY <2>3, <2>4, <2>5
<1>5. QED  BY <1>3, <1>4

LEMMA LookUpIInv ==
    ASSUME IInv, NEW s \in Sessions, LookUpApproval(s) \/ LookUpPending(s)
    PROVE  IInv'
<1>1. QueueSteady /\ UNCHANGED <<todo, direct, completed, gate_context>>
    BY QueueUnchanged DEF LookUpApproval, LookUpPending, adapterVars, resultVars, IInv
<1>2. pc[s] \in {"lookup", "dedup"}
    BY DEF LookUpApproval, LookUpPending, At
<1>3. s \in Wired /\ GateVerdict(s, Head(todo[s]), gate_context[s]) # DENY
    BY <1>2, TaskPlaces DEF Good, PastGate
<1>4. \/ Goto(s, "launch") /\ Queue!IsKeyApproved(KeyFor(s, Head(todo[s])))
      \/ Goto(s, "dedup") \/ Goto(s, "raise") \/ Goto(s, "enqueue")
    BY DEF LookUpApproval, LookUpPending, Current
<1>5. ASSUME NEW at \in {"launch", "dedup", "raise", "enqueue"}, Goto(s, at),
             at = "launch" => Queue!IsKeyApproved(KeyFor(s, Head(todo[s])))
      PROVE  IInv'
    BY <1>1, <1>2, <1>3, <1>5, Moves DEF Outside, PastGate, Locations
<1>6. QED  BY <1>4, <1>5

LEMMA RequestReviewIInv == ASSUME IInv, NEW s \in Sessions, RequestReview(s) PROVE IInv'
<1>1. QueueSteady
    BY EnqueueSteady DEF RequestReview, IInv
<1>2. QED
    BY <1>1, Moves
    DEF RequestReview, At, adapterVars, resultVars, Outside, PastGate, Locations

LEMMA ToolStartIInv ==
    ASSUME IInv, NEW s \in Sessions, ToolUnavailable(s) \/ Launch(s) \/ ToolFails(s)
    PROVE  IInv'
<1>1. QueueSteady /\ UNCHANGED <<todo, direct, completed, gate_context>>
    BY QueueUnchanged DEF ToolUnavailable, Launch, ToolFails, adapterVars, resultVars, IInv
<1>2. pc[s] \in {"launch", "running"}
    BY DEF ToolUnavailable, Launch, ToolFails, At
<1>3. s \in Wired /\ GateVerdict(s, Head(todo[s]), gate_context[s]) # DENY
    BY <1>2, TaskPlaces DEF Good, PastGate
<1>4. Goto(s, "raise") \/ Goto(s, "running")
    BY DEF ToolUnavailable, Launch, ToolFails
<1>5. ASSUME NEW at \in {"raise", "running"}, Goto(s, at)
      PROVE  IInv'
    BY <1>1, <1>2, <1>3, <1>5, Moves DEF Outside, PastGate, Locations
<1>6. QED  BY <1>4, <1>5

\* Both ends of a task close the one context that was open.
LEMMA TaskEndIInv ==
    ASSUME IInv, NEW s \in Sessions, ToolReturns(s) \/ Blocked(s)
    PROVE  IInv'
<1> DEFINE t == Head(todo[s])
           a == AdapterOf(s, t)
           ctx == [gate_context[s] EXCEPT ![a] = NoContext]
<1>1. pc[s] \notin Outside /\ ~direct[s]
    BY DEF ToolReturns, Blocked, At, Outside
<1>2. /\ todo[s] \in Seq(TaskIds(PlanOf[s])) /\ todo[s] # <<>> /\ t \in Gated(s)
      /\ DOMAIN gate_context[s] = AdapterNames
      /\ \A b \in AdapterNames \ {a} : gate_context[s][b] = NoContext
    BY <1>1, TaskPlaces DEF Good
<1>3. a \in AdapterNames
    BY <1>2, GatedTasks
<1>4. DOMAIN ctx = AdapterNames /\ \A b \in AdapterNames : ctx[b] = NoContext
    BY <1>2, <1>3
<1>5. /\ pc' = [pc EXCEPT ![s] = "loop"] /\ todo' = [todo EXCEPT ![s] = Tail(@)]
      /\ direct' = direct
      /\ gate_context' = [gate_context EXCEPT ![s] = ctx]
    BY DEF ToolReturns, Blocked, Goto, ClearContext, Current
<1>6. DOMAIN completed' = Sessions /\ \A r \in Sessions \ {s} : completed'[r] = completed[r]
    BY DEF ToolReturns, Blocked, Complete, IInv, Shape
<1>7. QueueSteady
    BY QueueUnchanged DEF ToolReturns, Blocked, IInv
<1>8. OnlyTouches(s)
    BY <1>5, <1>6 DEF OnlyTouches, IInv, Shape
<1>9. Tail(todo[s]) \in Seq(TaskIds(PlanOf[s]))
    BY <1>2, HeadTailProperties
<1>10. Good(s, "loop", Tail(todo[s]), FALSE, completed'[s], ctx)
    <2> HIDE DEF ctx
    <2>1. QED  BY <1>4, <1>9 DEF Good, Outside, PastGate, Locations
<1>11. /\ pc'[s] = "loop" /\ todo'[s] = Tail(todo[s]) /\ direct'[s] = FALSE
       /\ gate_context'[s] = ctx
    <2> HIDE DEF ctx
    <2>1. direct[s] = FALSE
        BY <1>1, TaskPlaces DEF Good
    <2>2. QED  BY <1>5, <2>1 DEF IInv, Shape
<1>12. QED  BY <1>7, <1>8, <1>10, <1>11, StepOf

LEMMA DirectRaisesIInv == ASSUME IInv, NEW s \in Sessions, DirectRaises(s) PROVE IInv'
<1>1. OnlyTouches(s)
    BY DEF DirectRaises, adapterVars, resultVars, Goto, OnlyTouches, IInv, Shape
<1>2. QueueSteady
    BY QueueUnchanged DEF DirectRaises, IInv
<1>3. Good(s, "idle", <<>>, FALSE, completed[s], gate_context[s])
    <2>1. pc[s] = "raise" /\ direct[s]
        BY DEF DirectRaises, At
    <2>2. <<>> \in Seq(TaskIds(PlanOf[s]))
        OBVIOUS
    <2>3. QED  BY <2>1, <2>2, TaskPlaces DEF Good, Outside, PastGate, Locations
<1>4. /\ pc'[s] = "idle" /\ todo'[s] = <<>> /\ direct'[s] = FALSE
      /\ completed'[s] = completed[s] /\ gate_context'[s] = gate_context[s]
    BY DEF DirectRaises, adapterVars, resultVars, Goto, IInv, Shape
<1>5. QED  BY <1>1, <1>2, <1>3, <1>4, StepOf

-----------------------------------------------------------------------------
(* The invariant *)

\* A step that leaves every session where it is.
LEMMA QueueOnly ==
    ASSUME IInv, QueueSteady, UNCHANGED <<pc, todo, direct, completed, gate_context>>
    PROVE  IInv'
<1>1. Shape' /\ QueueConsistent'
    BY DEF IInv, Shape, QueueSteady
<1>2. ASSUME NEW s \in Sessions
      PROVE  ApprovedIfLaunching(s)'
    <2> DEFINE k == KeyFor(s, Head(todo[s]))
    <2>1. pc'[s] = "launch" => Queue!IsKeyApproved(k)
        BY DEF IInv, ApprovedIfLaunching
    <2>2. Queue!IsKeyApproved(k) => \E id \in DOMAIN decisions' :
              decisions'[id].verdict = Queue!Approve /\ id \in DOMAIN keys' /\ keys'[id] = k
        BY DEF QueueSteady, Queue!IsKeyApproved, Queue!HasKey
    <2>3. QED
        BY <2>1, <2>2 DEF ApprovedIfLaunching, Queue!IsKeyApproved, Queue!HasKey
<1>3. QED  BY <1>1, <1>2 DEF IInv

LEMMA OperatorIInv == ASSUME IInv, OperatorDecides PROVE IInv'
BY DecideSteady, QueueOnly DEF OperatorDecides, adapterVars, resultVars, IInv

LEMMA InitIInv == Init => IInv
<1> SUFFICES ASSUME Init PROVE IInv
    OBVIOUS
<1>1. Shape
    BY DEF Init, Shape
<1>2. QueueConsistent
    BY DEF Init, Queue!Init, Queue!EmptyDict, QueueConsistent
<1>3. ASSUME NEW s \in Sessions
      PROVE  Good(s, pc[s], todo[s], direct[s], completed[s], gate_context[s])
             /\ ApprovedIfLaunching(s)
    BY DEF Init, Good, ApprovedIfLaunching, Outside, PastGate, Locations
<1>4. QED  BY <1>1, <1>2, <1>3 DEF IInv

LEMMA StepIInv == IInv /\ [Next]_vars => IInv'
<1> SUFFICES ASSUME IInv, [Next]_vars PROVE IInv'
    OBVIOUS
<1>1. ASSUME NEW s \in Sessions, OwnerCalls(s) PROVE IInv'
    BY <1>1, StartRunIInv, DirectExecuteIInv DEF OwnerCalls
<1>2. ASSUME NEW s \in Sessions, OwnStep(s) PROVE IInv'
    BY <1>2, EndRunIInv, SkipCompletedIInv, SkipHandoffIInv, PlanRaisesIInv, BeginTaskIInv,
       GateIInv, LookUpIInv, RequestReviewIInv, ToolStartIInv, TaskEndIInv, DirectRaisesIInv
    DEF OwnStep
<1>3. ASSUME NEW s \in Sessions, ToolStep(s) PROVE IInv'
    BY <1>3, ToolStartIInv, TaskEndIInv DEF ToolStep
<1>4. CASE UNCHANGED vars
    BY <1>4, QueueUnchanged, QueueOnly DEF vars, adapterVars, resultVars, IInv
<1>5. QED  BY <1>1, <1>2, <1>3, <1>4, OperatorIInv DEF Next

LEMMA Invariant == Safety => []IInv
BY InitIInv, StepIInv, PTL DEF Safety

-----------------------------------------------------------------------------
(* Theorems *)

\* Outside a task and in a direct execute() no adapter holds a gate context,
\* however the previous task ended: the fail-closed default always returns.
THEOREM ContextScoped == Safety => []ContextOnlyInsideTask
<1>1. IInv => ContextOnlyInsideTask
    BY DEF IInv, Good, ContextOnlyInsideTask, At, Outside
<1>2. QED  BY <1>1, Invariant, PTL

\* Every tool a session starts was planned, signed off, in order and approved
\* by an operator for that very command line.
THEOREM LaunchesAuthorised == Safety => LaunchesAreAuthorised
<1>1. ASSUME IInv, NEW s \in Sessions, Launches(s)
      PROVE  AuthorisedLaunch(s)
    <2>1. pc[s] = "launch" /\ pc[s] \in PastGate
        BY <1>1 DEF Launches, At, PastGate
    <2>2. Good(s, pc[s], todo[s], direct[s], completed[s], gate_context[s])
        BY <1>1 DEF IInv
    <2>3. Queue!IsKeyApproved(KeyFor(s, Head(todo[s])))
        BY <1>1, <2>1 DEF IInv, ApprovedIfLaunching
    <2>4. QED  BY <2>1, <2>2, <2>3, PastGateMeans DEF AuthorisedLaunch, Current
<1>2. IInv => [\A s \in Sessions : Launches(s) => AuthorisedLaunch(s)]_vars
    BY <1>1
<1>3. QED  BY <1>2, Invariant, PTL DEF LaunchesAreAuthorised

\* A session asks for reviews under keys of its commands.
LEMMA QueueStep ==
    ASSUME IInv, [Next]_vars
    PROVE  [Queue!Next]_<<pending, decisions, keys, audit>>
<1>1. CASE UNCHANGED queueVars
    BY <1>1 DEF queueVars
<1>2. ASSUME NEW s \in Sessions, RequestReview(s)
      PROVE  Queue!Next
    <2>1. Head(todo[s]) \in Gated(s)
        BY <1>2, TaskPlaces DEF Good, RequestReview, At, Outside
    <2>2. KeyFor(s, Head(todo[s])) \in CommandKeys
        BY <2>1, GatedTasks
    <2>3. Queue!EnqueueSome
        BY <1>2, <2>2 DEF RequestReview, Current, Queue!EnqueueSome
    <2>4. QED  BY <2>3 DEF Queue!Next
<1>3. CASE OperatorDecides
    BY <1>3 DEF OperatorDecides, Queue!Next, Queue!DecideSome
<1>4. ASSUME NEW s \in Sessions, OwnerCalls(s) \/ OwnStep(s) \/ ToolStep(s)
      PROVE  RequestReview(s) \/ UNCHANGED queueVars
    BY <1>4
    DEF OwnerCalls, OwnStep, ToolStep, StartRun, EndRun, SkipCompleted, SkipHandoff,
        PlanRaises, BeginTask, DirectExecute, PolicyRefuses, RunGate, LookUpApproval,
        LookUpPending, ToolUnavailable, Launch, ToolFails, ToolReturns, Blocked,
        DirectRaises
<1>5. CASE UNCHANGED vars
    BY <1>5 DEF vars, queueVars
<1>6. QED  BY <1>1, <1>2, <1>3, <1>4, <1>5 DEF Next

\* Sessions and operators use the shared queue only through its operations,
\* with keys it can hold: whatever is proved of the queue holds in a session.
THEOREM SessionsUseQueue == Safety => Queue!Spec
<1>1. Init => Queue!Init
    BY DEF Init
<1>2. QED  BY <1>1, QueueStep, Invariant, PTL DEF Safety, Queue!Spec, Queue!vars

-----------------------------------------------------------------------------
(* The history of a session: what its log, its completed tasks and the     *)
(* decisions on its adapters say about the tools it started.               *)

\* What a log accounts for; done and started are completed and launched.
Accounts(s, log, done, started) ==
    /\ log \in Seq(Outcome(s))
    /\ done = {log[i].task_id : i \in {j \in DOMAIN log : Finished(log[j])}}
    /\ \A i, j \in DOMAIN log :
          i < j /\ log[i].task_id = log[j].task_id => ~Finished(log[i])
    /\ \A i \in DOMAIN log :
          /\ log[i].status = "executed" => log[i].task_id \in started
          /\ log[i].decision # NoDecision => log[i].decision.of = log[i].task_id

\* The tools started, in their order: each after what its task waits for.
Started(s, at, list, done, started) ==
    /\ started \subseteq Gated(s)
    /\ \A t \in started : Predecessors(PlanOf[s], t) \subseteq done
    /\ \A t \in done : AdapterOf(s, t) # NoAdapter => t \in started
    /\ at = "running" => Head(list) \in started

DecisionOf(s) == {NoDecision} \cup [final : Verdict, of : TaskIds(PlanOf[s])]

\* Before the gate an adapter may hold an earlier task's decision; from the
\* gate on it is the current task's, if there is any.
Decided(s, at, list, decs) ==
    /\ DOMAIN decs = AdapterNames
    /\ \A a \in AdapterNames : decs[a] \in DecisionOf(s)
    /\ EnvOf[s] # CALDERA_ONLY => \A a \in AdapterNames : decs[a] = NoDecision
    /\ at \notin Outside \cup {"execute"} =>
          LET d == decs[AdapterOf(s, Head(list))] IN d # NoDecision => d.of = Head(list)

History(s) ==
    /\ Accounts(s, outcomes[s], completed[s], launched[s])
    /\ Started(s, pc[s], todo[s], completed[s], launched[s])
    /\ Decided(s, pc[s], todo[s], last_decision[s])
    /\ calls[s] \in [run : 0 .. MaxRuns, direct : 0 .. MaxDirect]

HistoryShape ==
    /\ DOMAIN outcomes = Sessions /\ DOMAIN launched = Sessions
    /\ DOMAIN last_decision = Sessions /\ DOMAIN calls = Sessions

HInv == HistoryShape /\ \A s \in Sessions : History(s)

-----------------------------------------------------------------------------
(* Planned commands *)

\* SetToSeq lists a finite set, each member once.
LEMMA SetToSeqLists ==
    ASSUME NEW S, IsFiniteSet(S)
    PROVE  /\ Cardinality(S) \in Nat
           /\ SetToSeq(S) \in [1 .. Cardinality(S) -> S]
           /\ SetToSeq(S) \in Seq(S)
           /\ Len(SetToSeq(S)) = Cardinality(S)
<1>1. Cardinality(S) \in Nat /\ ExistsBijection(1 .. Cardinality(S), S)
    BY FS_CardinalityType
<1>2. \E f \in [1 .. Cardinality(S) -> S] : IsInjective(f)
    BY <1>1 DEF ExistsBijection, Bijection, Injection
<1>3. SetToSeq(S) \in [1 .. Cardinality(S) -> S]
    BY <1>2 DEF SetToSeq
<1>4. QED  BY <1>1, <1>3

\* The places of an argv that begins with three tokens.
LEMMA AfterThree ==
    ASSUME NEW T, NEW a \in T, NEW b \in T, NEW c \in T, NEW rest \in Seq(T),
           NEW argv, argv = <<a, b, c>> \o rest
    PROVE  /\ Len(argv) = 3 + Len(rest)
           /\ argv[1] = a /\ argv[2] = b /\ argv[3] = c
           /\ \A i \in 1 .. Len(argv) :
                 i \notin 1 .. 3 => i - 3 \in 1 .. Len(rest) /\ argv[i] = rest[i - 3]
OBVIOUS

\* An nmap argv whose one selector is allowed and whose targets are no
\* selectors passes the policy.
LEMMA OneSelector ==
    ASSUME NEW selector, NEW scope, NEW targets \in Seq(scope), NEW cmd,
           cmd.argv = <<"nmap", "--script", selector>> \o targets,
           selector # "--script", "--script" \notin scope,
           Categories(selector) \subseteq ALLOWED_NSE_CATEGORIES
    PROVE  NmapPolicy(cmd)
<1> DEFINE argv == cmd.argv
           T == {"nmap", "--script", selector} \cup scope
<1>1. "nmap" \in T /\ "--script" \in T /\ selector \in T /\ targets \in Seq(T)
    OBVIOUS
<1>2. /\ Len(argv) = 3 + Len(targets) /\ Len(targets) \in Nat
      /\ argv[1] = "nmap" /\ argv[2] = "--script" /\ argv[3] = selector
      /\ \A i \in 1 .. Len(argv) :
            i \notin 1 .. 3 => i - 3 \in 1 .. Len(targets) /\ argv[i] = targets[i - 3]
    <2> HIDE DEF T
    <2>1. QED  BY <1>1, AfterThree
<1>3. \A i \in 1 .. Len(targets) : targets[i] # "--script"
    OBVIOUS
<1> HIDE DEF argv, T
<1>4. ASSUME NEW i \in 1 .. Len(argv) - 1, argv[i] = "--script"
      PROVE  i = 2
    <2>1. i # 1 /\ i # 3
        BY <1>2, <1>4
    <2>2. CASE i \notin 1 .. 3
        BY <1>2, <1>3, <1>4, <2>2
    <2>3. QED  BY <1>2, <2>1, <2>2
<1>5. QED  BY <1>2, <1>4 DEF NmapPolicy, argv

\* The policy has nothing to refuse in a planned command but the environment.
LEMMA PolicyIsEnvironment ==
    ASSUME NEW s \in Sessions, NEW t \in Gated(s)
    PROVE  PolicyAllows(CommandFor(s, t), EnvOf[s]) <=> EnvOf[s] = CALDERA_ONLY
<1> DEFINE task == PlanOf[s].nodes[t]
           cmd == CommandFor(s, t)
           targets == SetToSeq(task.target_scope)
<1>1. /\ t \in TaskIds(PlanOf[s]) /\ AdapterOf(s, t) \in AdapterNames
      /\ ValidTargets(AdapterOf(s, t), task.target_scope)
    BY GatedTasks DEF Gated, CommandFor, PlanCommand
<1>2. IsFiniteSet(task.target_scope)
    BY <1>1, SessionAssumption
<1>3. CASE AdapterOf(s, t) = nmap
    <2> DEFINE Selectors == {"default", "default,vuln,vulners"}
    <2>1. \E selector \in Selectors :
            /\ cmd.argv = <<"nmap", "--script", selector>> \o targets
            /\ cmd.adapter_name = nmap /\ IMPACT \notin cmd.tactics
        BY <1>1, <1>3 DEF CommandFor, PlanCommand, NmapPlan, CommandOf, IMPACT, nmap, msf
    <2>2. \A selector \in Selectors :
              selector # "--script" /\ Categories(selector) \subseteq ALLOWED_NSE_CATEGORIES
        BY DEF Categories, ALLOWED_NSE_CATEGORIES
    <2>3. targets \in Seq(task.target_scope) /\ "--script" \notin task.target_scope
        BY <1>1, <1>2, <1>3, SetToSeqLists, AdapterAssumption DEF ValidTargets
    <2> HIDE DEF Selectors, cmd, targets, task
    <2>4. NmapPolicy(cmd)
        BY <2>1, <2>2, <2>3, OneSelector
    <2>5. QED  BY <2>1, <2>4 DEF PolicyAllows, cmd
<1>4. CASE AdapterOf(s, t) = msf
    <2> DEFINE module == SelectModule(task.intent)
    <2>1. /\ cmd.argv = <<"msf-aux", "run", module, Rhosts[task.target_scope]>>
          /\ cmd.adapter_name = msf /\ cmd.tactics = ModuleTactics(module)
        BY <1>1, <1>4 DEF CommandFor, PlanCommand, MsfPlan, nmap, msf
    <2>2. module \in ALLOWED_SCANNER_CATEGORIES
        BY DEF SelectModule, ALLOWED_SCANNER_CATEGORIES
    <2> HIDE DEF module, cmd
    <2>3. IMPACT \notin cmd.tactics
        BY <2>1 DEF ModuleTactics, IMPACT
    <2>4. MsfPolicy(cmd)
        BY <2>1, <2>2 DEF MsfPolicy
    <2>5. QED  BY <2>1, <2>3, <2>4 DEF PolicyAllows, nmap, msf, cmd
<1>5. QED  BY <1>1, <1>3, <1>4 DEF AdapterNames

-----------------------------------------------------------------------------
(* Steps and the history *)

Early == Outside \cup {"execute"}

\* Whatever happens to session s, the records of the others stay.
OnlyRecords(s) ==
    /\ DOMAIN outcomes' = Sessions /\ DOMAIN launched' = Sessions
    /\ DOMAIN last_decision' = Sessions /\ DOMAIN calls' = Sessions
    /\ \A r \in Sessions \ {s} :
          /\ outcomes'[r] = outcomes[r] /\ launched'[r] = launched[r]
          /\ last_decision'[r] = last_decision[r] /\ calls'[r] = calls[r]

LEMMA StepTouches ==
    ASSUME IInv, HInv, NEW s \in Sessions, OwnerCalls(s) \/ OwnStep(s) \/ ToolStep(s)
    PROVE  OnlyTouches(s) /\ OnlyRecords(s)
<1> USE DEF IInv, Shape, HInv, HistoryShape, OnlyTouches, OnlyRecords, Goto, adapterVars,
            resultVars
<1>1. CASE OwnerCalls(s)
    BY <1>1 DEF OwnerCalls, StartRun, DirectExecute
<1>2. CASE EndRun(s) \/ SkipCompleted(s) \/ SkipHandoff(s) \/ PlanRaises(s) \/ BeginTask(s)
    BY <1>2 DEF EndRun, SkipCompleted, SkipHandoff, PlanRaises, BeginTask, Complete, Record
<1>3. CASE PolicyRefuses(s) \/ RunGate(s) \/ LookUpApproval(s) \/ LookUpPending(s)
    BY <1>3 DEF PolicyRefuses, RunGate, LookUpApproval, LookUpPending
<1>4. CASE RequestReview(s) \/ ToolUnavailable(s) \/ Launch(s) \/ ToolFails(s)
    BY <1>4 DEF RequestReview, ToolUnavailable, Launch, ToolFails
<1>5. CASE ToolReturns(s) \/ Blocked(s) \/ DirectRaises(s)
    BY <1>5 DEF ToolReturns, Blocked, DirectRaises, Complete, Record, ClearContext
<1>6. QED  BY <1>1, <1>2, <1>3, <1>4, <1>5 DEF OwnStep, ToolStep

\* What is left to show of the history after a step of session s.
LEMMA HistoryOf ==
    ASSUME HInv, NEW s \in Sessions, OnlyTouches(s), OnlyRecords(s),
           Accounts(s, outcomes'[s], completed'[s], launched'[s]),
           Started(s, pc'[s], todo'[s], completed'[s], launched'[s]),
           Decided(s, pc'[s], todo'[s], last_decision'[s]),
           calls'[s] \in [run : 0 .. MaxRuns, direct : 0 .. MaxDirect]
    PROVE  HInv'
<1>1. HistoryShape'
    BY DEF OnlyRecords, HistoryShape
<1>2. ASSUME NEW r \in Sessions, r # s
      PROVE  History(r)'
    <2>1. /\ Accounts(r, outcomes'[r], completed'[r], launched'[r])
          /\ Started(r, pc'[r], todo'[r], completed'[r], launched'[r])
          /\ Decided(r, pc'[r], todo'[r], last_decision'[r])
          /\ calls'[r] \in [run : 0 .. MaxRuns, direct : 0 .. MaxDirect]
        BY <1>2 DEF HInv, History, OnlyTouches, OnlyRecords
    <2>2. QED
        BY <2>1
        DEF History, Accounts, Started, Decided, Gated, CommandFor, AdapterOf, Outcome, DecisionOf
<1>3. History(s)'
    BY DEF History, Accounts, Started, Decided, Gated, CommandFor, AdapterOf, Outcome, DecisionOf
<1>4. QED  BY <1>1, <1>2, <1>3 DEF HInv

\* A step that records nothing.
LEMMA Quiet ==
    ASSUME HInv, NEW s \in Sessions, OnlyTouches(s), OnlyRecords(s),
           UNCHANGED <<completed, outcomes, launched, last_decision>>,
           calls'[s] \in [run : 0 .. MaxRuns, direct : 0 .. MaxDirect],
           pc'[s] # "running",
           \/ pc'[s] \in Early
           \/ pc[s] \notin Early /\ todo'[s] = todo[s]
           \/ EnvOf[s] # CALDERA_ONLY /\ Head(todo'[s]) \in Gated(s)
    PROVE  HInv'
<1>1. History(s)
    BY DEF HInv
<1>2. Started(s, pc'[s], todo'[s], completed'[s], launched'[s])
    BY <1>1 DEF History, Started
<1>3. Decided(s, pc'[s], todo'[s], last_decision'[s])
    <2>1. CASE pc'[s] \in Early
        BY <1>1, <2>1 DEF History, Decided, Early
    <2>2. CASE pc[s] \notin Early /\ todo'[s] = todo[s]
        BY <1>1, <2>2 DEF History, Decided, Early
    <2>3. CASE EnvOf[s] # CALDERA_ONLY /\ Head(todo'[s]) \in Gated(s)
        BY <1>1, <2>3, GatedTasks DEF History, Decided
    <2>4. QED  BY <2>1, <2>2, <2>3
<1>4. QED  BY <1>1, <1>2, <1>3, HistoryOf DEF History

\* What one more outcome does to the accounts.
LEMMA Recorded ==
    ASSUME NEW s \in Sessions, NEW log, NEW done, NEW started, Accounts(s, log, done, started),
           NEW o \in Outcome(s), o.task_id \notin done,
           o.status = "executed" => o.task_id \in started,
           o.decision # NoDecision => o.decision.of = o.task_id
    PROVE  /\ Finished(o) => Accounts(s, Append(log, o), done \cup {o.task_id}, started)
           /\ ~Finished(o) => Accounts(s, Append(log, o), done, started)
<1> DEFINE new == Append(log, o)
           Ended(l) == {j \in DOMAIN l : Finished(l[j])}
<1>1. log \in Seq(Outcome(s)) /\ done = {log[i].task_id : i \in Ended(log)}
    BY DEF Accounts
<1>2. /\ new \in Seq(Outcome(s))
      /\ DOMAIN new = DOMAIN log \cup {Len(log) + 1} /\ Len(log) + 1 \notin DOMAIN log
      /\ \A i \in DOMAIN log : i \in Nat /\ i < Len(log) + 1 /\ new[i] = log[i]
      /\ new[Len(log) + 1] = o /\ Len(log) + 1 \in Nat
    BY <1>1
<1> HIDE DEF new
<1>3. ASSUME NEW i \in DOMAIN new, NEW j \in DOMAIN new, i < j,
             new[i].task_id = new[j].task_id
      PROVE  ~Finished(new[i])
    <2>1. i \in DOMAIN log /\ new[i] = log[i]
        BY <1>2, <1>3
    <2>2. CASE j \in DOMAIN log
        BY <1>2, <1>3, <2>1, <2>2 DEF Accounts
    <2>3. CASE j = Len(log) + 1
        BY <1>1, <1>2, <1>3, <2>1, <2>3
    <2>4. QED  BY <1>2, <2>2, <2>3
<1>4. ASSUME NEW i \in DOMAIN new
      PROVE  /\ new[i].status = "executed" => new[i].task_id \in started
             /\ new[i].decision # NoDecision => new[i].decision.of = new[i].task_id
    BY <1>2 DEF Accounts
<1>5. ASSUME Finished(o)
      PROVE  done \cup {o.task_id} = {new[i].task_id : i \in Ended(new)}
    <2>1. Ended(new) = Ended(log) \cup {Len(log) + 1}
        BY <1>2, <1>5
    <2>2. QED  BY <1>1, <1>2, <2>1
<1>6. ASSUME ~Finished(o)
      PROVE  done = {new[i].task_id : i \in Ended(new)}
    <2>1. Ended(new) = Ended(log)
        BY <1>2, <1>6
    <2>2. QED  BY <1>1, <1>2, <2>1
<1>7. ASSUME NEW d, d = {new[i].task_id : i \in Ended(new)}
      PROVE  Accounts(s, new, d, started)
    BY <1>2, <1>3, <1>4, <1>7 DEF Accounts
<1>8. QED  BY <1>5, <1>6, <1>7 DEF new

\* More tools started explain no less.
LEMMA AccountsGrow ==
    ASSUME NEW s, NEW log, NEW done, NEW started, NEW more, Accounts(s, log, done, started),
           started \subseteq more
    PROVE  Accounts(s, log, done, more)
BY DEF Accounts

\* The decision the log takes from the adapter.
LEMMA LastDecision ==
    ASSUME IInv, HInv, NEW s \in Sessions, pc[s] \notin Early
    PROVE  LET t == Head(todo[s])
               d == last_decision[s][AdapterOf(s, t)]
           IN  /\ t \in Gated(s) /\ t \in TaskIds(PlanOf[s]) /\ AdapterOf(s, t) \in AdapterNames
               /\ d \in DecisionOf(s) /\ (d # NoDecision => d.of = t)
<1>1. Head(todo[s]) \in Gated(s)
    BY TaskPlaces DEF Good, Early
<1>2. QED  BY <1>1, GatedTasks DEF HInv, History, Decided, Early

LEMMA LoopHInv ==
    ASSUME IInv, HInv, NEW s \in Sessions,
           \/ StartRun(s) \/ EndRun(s) \/ SkipCompleted(s) \/ PlanRaises(s) \/ BeginTask(s)
           \/ DirectRaises(s) \/ \E t \in Gated(s) : DirectExecute(s, t)
    PROVE  HInv'
<1>1. OnlyTouches(s) /\ OnlyRecords(s)
    BY StepTouches DEF OwnerCalls, OwnStep
<1>2. UNCHANGED <<completed, outcomes, launched, last_decision>>
    BY DEF StartRun, EndRun, SkipCompleted, PlanRaises, BeginTask, DirectRaises, DirectExecute,
           adapterVars, resultVars
<1>3. pc'[s] \in Early /\ pc'[s] # "running"
    BY DEF StartRun, EndRun, SkipCompleted, PlanRaises, BeginTask, DirectRaises, DirectExecute,
           Goto, At, Early, Outside, IInv, Shape
<1>4. calls'[s] \in [run : 0 .. MaxRuns, direct : 0 .. MaxDirect]
    <2>1. calls[s] \in [run : 0 .. MaxRuns, direct : 0 .. MaxDirect] /\ DOMAIN calls = Sessions
        BY DEF HInv, History, HistoryShape
    <2>2. CASE StartRun(s)
        BY <2>1, <2>2, BoundsAssumption DEF StartRun
    <2>3. CASE \E t \in Gated(s) : DirectExecute(s, t)
        BY <2>1, <2>3, BoundsAssumption DEF DirectExecute
    <2>4. QED
        BY <2>1, <2>2, <2>3 DEF EndRun, SkipCompleted, PlanRaises, BeginTask, DirectRaises
<1>5. QED  BY <1>1, <1>2, <1>3, <1>4, Quiet

LEMMA ExecuteHInv ==
    ASSUME IInv, HInv, NEW s \in Sessions,
           \/ PolicyRefuses(s) \/ LookUpApproval(s) \/ LookUpPending(s) \/ RequestReview(s)
           \/ ToolUnavailable(s) \/ ToolFails(s)
    PROVE  HInv'
<1>1. OnlyTouches(s) /\ OnlyRecords(s)
    BY StepTouches DEF OwnStep, ToolStep
<1>2. UNCHANGED <<completed, outcomes, launched, last_decision, calls, todo>>
    BY DEF PolicyRefuses, LookUpApproval, LookUpPending, RequestReview, ToolUnavailable,
           ToolFails, adapterVars, resultVars
<1>3. pc'[s] # "running"
    BY DEF PolicyRefuses, LookUpApproval, LookUpPending, RequestReview, ToolUnavailable,
           ToolFails, Goto, IInv, Shape
<1>4. \/ pc[s] \notin Early
      \/ EnvOf[s] # CALDERA_ONLY /\ Head(todo'[s]) \in Gated(s)
    <2>1. CASE PolicyRefuses(s)
        <3>1. Head(todo[s]) \in Gated(s) /\ todo' = todo
            BY <1>2, <2>1, TaskPlaces DEF PolicyRefuses, At, Good, Outside
        <3>2. QED  BY <2>1, <3>1, PolicyIsEnvironment DEF PolicyRefuses, Current
    <2>2. QED
        BY <2>1 DEF LookUpApproval, LookUpPending, RequestReview, ToolUnavailable, ToolFails,
           At, Early, Outside
<1>5. calls'[s] \in [run : 0 .. MaxRuns, direct : 0 .. MaxDirect]
    BY <1>2 DEF HInv, History
<1>6. QED  BY <1>1, <1>2, <1>3, <1>4, <1>5, Quiet

LEMMA RunGateHInv == ASSUME IInv, HInv, NEW s \in Sessions, RunGate(s) PROVE HInv'
<1> DEFINE t == Head(todo[s])
           a == AdapterOf(s, t)
           verdict == GateVerdict(s, t, gate_context[s])
           decs == [last_decision[s] EXCEPT ![a] = [final |-> verdict, of |-> t]]
<1>1. OnlyTouches(s) /\ OnlyRecords(s)
    BY StepTouches DEF OwnStep
<1>2. /\ UNCHANGED <<completed, outcomes, launched, calls, todo>>
      /\ Goto(s, AfterVerdict(s, verdict))
      /\ last_decision' = [last_decision EXCEPT ![s] = decs]
      /\ pc[s] = "execute" /\ PolicyAllows(CommandFor(s, t), EnvOf[s])
    BY DEF RunGate, resultVars, Current, GateVerdict, At
<1>3. /\ t \in Gated(s) /\ t \in TaskIds(PlanOf[s]) /\ a \in AdapterNames
    <2>1. t \in Gated(s)
        BY <1>2, TaskPlaces DEF Good, Outside
    <2>2. QED  BY <2>1, GatedTasks
<1>4. EnvOf[s] = CALDERA_ONLY
    BY <1>2, <1>3, PolicyIsEnvironment
<1>5. verdict \in Verdict
    BY DEF GateVerdict, Evaluate, PipelineVerdict, Verdict
<1>6. History(s)
    BY DEF HInv
<1>7. pc'[s] \in {"lookup", "raise", "launch"}
    BY <1>2 DEF Goto, AfterVerdict, IInv, Shape
<1> HIDE DEF verdict
<1>8. Decided(s, pc'[s], todo[s], decs)
    <2>1. /\ DOMAIN decs = AdapterNames /\ decs[a] = [final |-> verdict, of |-> t]
          /\ \A b \in AdapterNames : decs[b] \in DecisionOf(s)
        BY <1>3, <1>5, <1>6 DEF History, Decided, DecisionOf
    <2> HIDE DEF decs
    <2>2. QED  BY <1>4, <2>1 DEF Decided
<1>9. Started(s, pc'[s], todo[s], completed[s], launched[s])
    BY <1>6, <1>7 DEF History, Started
<1>10. last_decision'[s] = decs
    <2> HIDE DEF decs
    <2>1. QED  BY <1>2 DEF HInv, HistoryShape
<1>11. QED
    <2> HIDE DEF decs
    <2>1. QED  BY <1>1, <1>2, <1>6, <1>8, <1>9, <1>10, HistoryOf DEF History

LEMMA LaunchHInv == ASSUME IInv, HInv, NEW s \in Sessions, Launch(s) PROVE HInv'
<1> DEFINE t == Head(todo[s])
           more == launched[s] \cup {t}
<1>1. OnlyTouches(s) /\ OnlyRecords(s)
    BY StepTouches DEF OwnStep
<1>2. /\ UNCHANGED <<completed, outcomes, last_decision, calls, todo>>
      /\ pc[s] = "launch" /\ pc'[s] = "running" /\ launched'[s] = more
    BY DEF Launch, adapterVars, Current, Goto, At, IInv, Shape, HInv, HistoryShape
<1>3. t \in Gated(s) /\ Predecessors(PlanOf[s], t) \subseteq completed[s]
    BY <1>2, TaskPlaces, PastGateMeans DEF Good, Outside, PastGate
<1>4. History(s)
    BY DEF HInv
<1>5. Accounts(s, outcomes[s], completed[s], more)
    BY <1>4, AccountsGrow DEF History
<1>6. Started(s, "running", todo[s], completed[s], more)
    BY <1>3, <1>4 DEF History, Started
<1>7. Decided(s, "running", todo[s], last_decision[s])
    BY <1>2, <1>4 DEF History, Decided, Outside
<1>8. QED
    <2> HIDE DEF more
    <2>1. QED  BY <1>1, <1>2, <1>4, <1>5, <1>6, <1>7, HistoryOf DEF History

\* The three ways a task gets its outcome.
LEMMA OutcomeHInv ==
    ASSUME IInv, HInv, NEW s \in Sessions, OnlyTouches(s), OnlyRecords(s),
           NEW o \in Outcome(s), o.task_id \notin completed[s],
           o.status = "executed" => o.task_id \in launched[s],
           o.decision # NoDecision => o.decision.of = o.task_id,
           Finished(o) /\ AdapterOf(s, o.task_id) # NoAdapter => o.task_id \in launched[s],
           outcomes'[s] = Append(outcomes[s], o),
           completed'[s] = IF Finished(o) THEN completed[s] \cup {o.task_id} ELSE completed[s],
           UNCHANGED <<launched, last_decision, calls>>, pc'[s] = "loop"
    PROVE  HInv'
<1>1. History(s)
    BY DEF HInv
<1>2. Accounts(s, outcomes'[s], completed'[s], launched'[s])
    <2>1. Accounts(s, outcomes[s], completed[s], launched[s])
        BY <1>1 DEF History
    <2>2. CASE Finished(o)
        BY <2>1, <2>2, Recorded
    <2>3. CASE ~Finished(o)
        BY <2>1, <2>3, Recorded
    <2>4. QED  BY <2>2, <2>3
<1>3. Started(s, "loop", todo'[s], completed'[s], launched'[s])
    BY <1>1 DEF History, Started
<1>4. Decided(s, "loop", todo'[s], last_decision'[s])
    BY <1>1 DEF History, Decided, Outside
<1>5. QED  BY <1>1, <1>2, <1>3, <1>4, HistoryOf DEF History

LEMMA SkipHandoffHInv == ASSUME IInv, HInv, NEW s \in Sessions, SkipHandoff(s) PROVE HInv'
<1> DEFINE t == Head(todo[s])
           o == [task_id |-> t, status |-> "skipped", decision |-> NoDecision]
<1>1. OnlyTouches(s) /\ OnlyRecords(s)
    BY StepTouches DEF OwnStep
<1>2. /\ UNCHANGED <<launched, last_decision, calls, pc>>
      /\ pc[s] = "loop" /\ t \notin completed[s] /\ AdapterOf(s, t) = NoAdapter
      /\ todo[s] # <<>>
      /\ outcomes'[s] = Append(outcomes[s], o) /\ completed'[s] = completed[s] \cup {t}
    BY DEF SkipHandoff, Visit, At, Current, Record, Complete, adapterVars, IInv, Shape, HInv,
           HistoryShape
<1>3. t \in TaskIds(PlanOf[s])
    BY <1>2, TaskPlaces DEF Good
<1>4. /\ o \in Outcome(s) /\ o.task_id = t /\ o.status = "skipped" /\ o.decision = NoDecision
      /\ Finished(o)
    BY <1>3 DEF Outcome, Finished
<1> HIDE DEF o, t
<1>5. QED  BY <1>1, <1>2, <1>4, OutcomeHInv

LEMMA TaskEndHInv ==
    ASSUME IInv, HInv, NEW s \in Sessions, ToolReturns(s) \/ Blocked(s)
    PROVE  HInv'
<1> DEFINE t == Head(todo[s])
           d == last_decision[s][AdapterOf(s, t)]
           O(status) == [task_id |-> t, status |-> status, decision |-> d]
<1>1. OnlyTouches(s) /\ OnlyRecords(s)
    BY StepTouches DEF OwnStep, ToolStep
<1>2. /\ UNCHANGED <<launched, last_decision, calls>> /\ pc'[s] = "loop"
      /\ pc[s] \in {"running", "raise"} /\ ~direct[s]
    BY DEF ToolReturns, Blocked, At, Goto, IInv, Shape
<1>3. t \notin completed[s]
    BY <1>2, TaskPlaces DEF Good, Outside
<1>4. t \in TaskIds(PlanOf[s]) /\ d \in DecisionOf(s) /\ (d # NoDecision => d.of = t)
    BY <1>2, LastDecision DEF Early, Outside
<1>5. ASSUME NEW status \in {"executed", "blocked"}
      PROVE  /\ O(status) \in Outcome(s) /\ O(status).task_id = t
             /\ O(status).status = status /\ O(status).decision = d
             /\ Finished(O(status)) <=> status = "executed"
    BY <1>4 DEF Outcome, Finished, DecisionOf
<1>6. CASE ToolReturns(s)
    <2>1. /\ outcomes'[s] = Append(outcomes[s], O("executed"))
          /\ completed'[s] = completed[s] \cup {t} /\ pc[s] = "running"
        BY <1>6 DEF ToolReturns, Record, Complete, Current, At, IInv, Shape, HInv, HistoryShape
    <2>2. t \in launched[s]
        BY <2>1 DEF HInv, History, Started
    <2> HIDE DEF O, t, d
    <2>3. QED  BY <1>1, <1>2, <1>3, <1>4, <1>5, <2>1, <2>2, OutcomeHInv
<1>7. CASE Blocked(s)
    <2>1. outcomes'[s] = Append(outcomes[s], O("blocked")) /\ completed'[s] = completed[s]
        BY <1>7 DEF Blocked, Record, Current, HInv, HistoryShape
    <2> HIDE DEF O, t, d
    <2>2. QED  BY <1>1, <1>2, <1>3, <1>4, <1>5, <2>1, OutcomeHInv
<1>8. QED  BY <1>6, <1>7

LEMMA OperatorHInv ==
    ASSUME HInv, UNCHANGED <<pc, todo, adapterVars, resultVars, calls>>
    PROVE  HInv'
<1>1. HistoryShape'
    BY DEF HInv, HistoryShape, adapterVars, resultVars
<1>2. ASSUME NEW s \in Sessions PROVE History(s)'
    <2>1. /\ pc' = pc /\ todo' = todo /\ last_decision' = last_decision /\ calls' = calls
          /\ completed' = completed /\ outcomes' = outcomes /\ launched' = launched
        BY DEF adapterVars, resultVars
    <2>2. QED  BY <2>1 DEF HInv, History
<1>3. QED  BY <1>1, <1>2 DEF HInv

LEMMA InitHInv == Init => HInv
<1> SUFFICES ASSUME Init PROVE HInv
    OBVIOUS
<1>1. HistoryShape
    BY DEF Init, HistoryShape
<1>2. ASSUME NEW s \in Sessions PROVE History(s)
    <2>1. Accounts(s, outcomes[s], completed[s], launched[s])
        <3>1. outcomes[s] = <<>> /\ completed[s] = {}
            BY DEF Init
        <3>2. QED  BY <3>1 DEF Accounts
    <2>2. Started(s, pc[s], todo[s], completed[s], launched[s])
        BY DEF Init, Started
    <2>3. Decided(s, pc[s], todo[s], last_decision[s])
        BY DEF Init, Decided, DecisionOf, Outside
    <2>4. calls[s] \in [run : 0 .. MaxRuns, direct : 0 .. MaxDirect]
        BY BoundsAssumption DEF Init
    <2>5. QED  BY <2>1, <2>2, <2>3, <2>4 DEF History
<1>3. QED  BY <1>1, <1>2 DEF HInv

LEMMA StepHInv == IInv /\ HInv /\ [Next]_vars => HInv'
<1> SUFFICES ASSUME IInv, HInv, [Next]_vars PROVE HInv'
    OBVIOUS
<1>1. ASSUME NEW s \in Sessions, OwnerCalls(s) PROVE HInv'
    BY <1>1, LoopHInv DEF OwnerCalls
<1>2. ASSUME NEW s \in Sessions, OwnStep(s) PROVE HInv'
    BY <1>2, LoopHInv, ExecuteHInv, RunGateHInv, LaunchHInv, SkipHandoffHInv, TaskEndHInv
    DEF OwnStep
<1>3. ASSUME NEW s \in Sessions, ToolStep(s) PROVE HInv'
    BY <1>3, ExecuteHInv, TaskEndHInv DEF ToolStep
<1>4. CASE OperatorDecides
    BY <1>4, OperatorHInv DEF OperatorDecides
<1>5. CASE UNCHANGED vars
    BY <1>5, OperatorHInv DEF vars
<1>6. QED  BY <1>1, <1>2, <1>3, <1>4, <1>5 DEF Next

LEMMA HistoryInvariant == Safety => []HInv
BY InitHInv, StepHInv, Invariant, PTL DEF Safety

\* The outcomes of run() account for completed_task_ids over all runs: one
\* outcome completes a task and none follows it, what is recorded as executed
\* was started, and a recorded decision is about that task.
THEOREM OutcomesAccount == Safety => []OutcomesExplainCompleted
<1>1. HInv => OutcomesExplainCompleted
    BY DEF HInv, History, Accounts, OutcomesExplainCompleted
<1>2. QED  BY <1>1, HistoryInvariant, PTL

-----------------------------------------------------------------------------
(* The order of commands along whole paths *)

LEMMA AccountsTyped ==
    ASSUME NEW s, NEW log, NEW done, NEW started, Accounts(s, log, done, started)
    PROVE  done \subseteq TaskIds(PlanOf[s])
<1>1. \A i \in DOMAIN log : log[i] \in Outcome(s)
    BY DEF Accounts
<1>2. \A o \in Outcome(s) : o.task_id \in TaskIds(PlanOf[s])
    BY DEF Outcome
<1>3. QED  BY <1>1, <1>2 DEF Accounts

\* The plan files for which the order of commands is safe: no task ahead of a
\* command is without one of its own.
NoHandoffAhead ==
    \A s \in Sessions : \A t \in Gated(s) : \A a \in Ancestors(PlanOf[s], t) :
        AdapterOf(s, a) # NoAdapter

\* With no handoff ahead of a command, every command upstream of a started
\* tool was started and its task completed, along whole paths.
THEOREM AncestorsRan == ASSUME NoHandoffAhead PROVE Safety => []AncestorsRanFirst
<1>1. ASSUME HInv, NEW s \in Sessions, NEW t \in launched[s]
      PROVE  \A a \in Ancestors(PlanOf[s], t) : a \in completed[s] /\ a \in launched[s]
    <2> DEFINE up == Ancestors(PlanOf[s], t)
               Ran == {a \in up : a \in completed[s] /\ a \in launched[s]}
    <2>1. /\ launched[s] \subseteq Gated(s)
          /\ \A x \in launched[s] : Predecessors(PlanOf[s], x) \subseteq completed[s]
          /\ \A x \in completed[s] : AdapterOf(s, x) # NoAdapter => x \in launched[s]
        BY <1>1 DEF HInv, History, Started
    <2>2. completed[s] \subseteq TaskIds(PlanOf[s])
        BY <1>1, AccountsTyped DEF HInv, History
    <2>3. \A a \in up : AdapterOf(s, a) # NoAdapter
        BY <1>1, <2>1 DEF NoHandoffAhead
    <2>4. Predecessors(PlanOf[s], t) \subseteq Ran
        BY <1>1, <2>1, <2>2, <2>3 DEF Ancestors
    <2>5. ASSUME NEW x \in Ran PROVE Predecessors(PlanOf[s], x) \subseteq Ran
        <3>1. Predecessors(PlanOf[s], x) \subseteq completed[s]
            BY <2>1
        <3>2. Predecessors(PlanOf[s], x) \subseteq up
            BY <2>2, <3>1 DEF Ancestors
        <3>3. QED  BY <2>1, <2>3, <3>1, <3>2
    <2>6. Ran \in SUBSET TaskIds(PlanOf[s])
        BY DEF Ancestors
    <2>7. up \subseteq Ran
        BY <2>4, <2>5, <2>6 DEF Ancestors
    <2>8. QED  BY <2>7
<1>2. HInv => AncestorsRanFirst
    BY <1>1 DEF AncestorsRanFirst
<1>3. QED  BY <1>2, HistoryInvariant, PTL

-----------------------------------------------------------------------------
(* Open reviews *)

\* Threads about to request a review of the command, and all that ever may.
Requesting(key) == {s \in Sessions : pc[s] = "enqueue" /\ KeyFor(s, Head(todo[s])) = key}
Requesters(key) == {s \in Wired : \E t \in Gated(s) : KeyFor(s, t) = key}

ReviewsInv ==
    \A key \in CommandKeys :
        /\ IsFiniteSet(OpenReviews(key))
        /\ Cardinality(OpenReviews(key)) + Cardinality(Requesting(key))
               <= Cardinality(Requesters(key))

LEMMA RequestersFinite ==
    ASSUME IInv, NEW key
    PROVE  /\ Requesting(key) \subseteq Requesters(key)
           /\ IsFiniteSet(Requesters(key)) /\ Cardinality(Requesters(key)) \in Nat
           /\ IsFiniteSet(Requesting(key)) /\ Cardinality(Requesting(key)) \in Nat
           /\ Cardinality(Requesting(key)) <= Cardinality(Requesters(key))
<1>1. ASSUME NEW s \in Requesting(key)
      PROVE  s \in Requesters(key)
    <2>1. s \in Sessions /\ s \in Wired /\ Head(todo[s]) \in Gated(s)
        BY TaskPlaces DEF Requesting, Good, PastGate, Outside
    <2>2. QED  BY <2>1 DEF Requesting, Requesters
<1>2. IsFiniteSet(Requesters(key))
    BY BoundsAssumption, FS_Subset DEF Requesters
<1>3. QED  BY <1>1, <1>2, FS_Subset, FS_CardinalityType

\* A step that neither opens nor closes a review, and brings no thread to the
\* point of requesting one.
LEMMA NoNewRequest ==
    ASSUME IInv, ReviewsInv,
           \A key \in CommandKeys : OpenReviews(key)' \subseteq OpenReviews(key),
           \A key \in CommandKeys : Requesting(key)' \subseteq Requesting(key)
    PROVE  ReviewsInv'
<1> SUFFICES ASSUME NEW key \in CommandKeys
             PROVE  /\ IsFiniteSet(OpenReviews(key)')
                    /\ Cardinality(OpenReviews(key)') + Cardinality(Requesting(key)')
                           <= Cardinality(Requesters(key))
    BY DEF ReviewsInv, Requesters, Gated, KeyFor, CommandFor, AdapterOf, OpenReviews, Requesting,
           CommandKeys
<1>1. /\ IsFiniteSet(OpenReviews(key)) /\ IsFiniteSet(Requesting(key))
      /\ Cardinality(Requesters(key)) \in Nat
    BY RequestersFinite DEF ReviewsInv
<1>2. /\ IsFiniteSet(OpenReviews(key)') /\ IsFiniteSet(Requesting(key)')
      /\ Cardinality(OpenReviews(key)') <= Cardinality(OpenReviews(key))
      /\ Cardinality(Requesting(key)') <= Cardinality(Requesting(key))
    BY <1>1, FS_Subset
<1>3. /\ Cardinality(OpenReviews(key)) \in Nat /\ Cardinality(OpenReviews(key)') \in Nat
      /\ Cardinality(Requesting(key)) \in Nat /\ Cardinality(Requesting(key)') \in Nat
    BY <1>1, <1>2, FS_CardinalityType
<1>4. Cardinality(OpenReviews(key)) + Cardinality(Requesting(key))
          <= Cardinality(Requesters(key))
    BY DEF ReviewsInv
<1>5. QED  BY <1>1, <1>2, <1>3, <1>4

LEMMA QuietReviews ==
    ASSUME IInv, ReviewsInv, NEW s \in Sessions, OnlyTouches(s), pc'[s] # "enqueue",
           UNCHANGED pending
    PROVE  ReviewsInv'
<1>1. \A key \in CommandKeys : OpenReviews(key)' \subseteq OpenReviews(key)
    BY DEF OpenReviews
<1>2. \A key \in CommandKeys : Requesting(key)' \subseteq Requesting(key)
    BY DEF Requesting, OnlyTouches, KeyFor, CommandFor, AdapterOf
<1>3. QED  BY <1>1, <1>2, NoNewRequest

\* After the pending check no review of the command is open.
LEMMA LookUpPendingReviews ==
    ASSUME IInv, HInv, ReviewsInv, NEW s \in Sessions, LookUpPending(s)
    PROVE  ReviewsInv'
<1> DEFINE k == KeyFor(s, Head(todo[s]))
<1>1. /\ OnlyTouches(s) /\ pending' = pending /\ todo' = todo /\ pc[s] = "dedup"
      /\ pc'[s] = IF Queue!HasPendingKey(k) THEN "raise" ELSE "enqueue"
    BY StepTouches
    DEF OwnStep, LookUpPending, queueVars, At, Goto, Current, IInv, Shape
<1>2. CASE Queue!HasPendingKey(k)
    BY <1>1, <1>2, QuietReviews
<1>3. CASE ~Queue!HasPendingKey(k)
    <2> SUFFICES ASSUME NEW key \in CommandKeys
                 PROVE  /\ IsFiniteSet(OpenReviews(key)')
                        /\ Cardinality(OpenReviews(key)') + Cardinality(Requesting(key)')
                               <= Cardinality(Requesters(key))
        BY DEF ReviewsInv, Requesters, Gated, KeyFor, CommandFor, AdapterOf, OpenReviews,
               Requesting, CommandKeys
    <2>1. OpenReviews(key)' = OpenReviews(key)
        BY <1>1 DEF OpenReviews
    <2>2. CASE key # k
        <3>1. Requesting(key)' = Requesting(key)
            BY <1>1, <2>2 DEF Requesting, OnlyTouches, KeyFor, CommandFor, AdapterOf
        <3>2. QED  BY <2>1, <3>1 DEF ReviewsInv
    <2>3. CASE key = k
        <3>1. OpenReviews(key) = {}
            BY <1>3, <2>3 DEF OpenReviews, Queue!HasPendingKey
        <3>2. s \in Wired /\ Head(todo[s]) \in Gated(s)
            BY <1>1, TaskPlaces DEF Good, PastGate, Outside
        <3>3. Requesting(key)' \subseteq Requesting(key) \cup {s}
            BY <1>1 DEF Requesting, OnlyTouches, KeyFor, CommandFor, AdapterOf
        <3>4. Requesting(key)' \subseteq Requesters(key)
            BY <2>3, <3>2, <3>3, RequestersFinite DEF Requesters
        <3>5. /\ Cardinality(Requesting(key)') <= Cardinality(Requesters(key))
              /\ Cardinality(Requesting(key)') \in Nat
            BY <3>4, RequestersFinite, FS_Subset, FS_CardinalityType
        <3>6. QED  BY <2>1, <3>1, <3>5, FS_EmptySet
    <2>4. QED  BY <2>2, <2>3
<1>4. QED  BY <1>2, <1>3

\* A request turns a thread about to ask into one open review.
LEMMA RequestReviews ==
    ASSUME IInv, HInv, ReviewsInv, NEW s \in Sessions, RequestReview(s)
    PROVE  ReviewsInv'
<1> DEFINE k == KeyFor(s, Head(todo[s]))
<1>1. /\ OnlyTouches(s) /\ todo' = todo /\ pc[s] = "enqueue" /\ pc'[s] = "raise"
    BY StepTouches DEF OwnStep, RequestReview, At, Goto, IInv, Shape
<1>2. PICK id : Queue!Enqueue(id, k, k)
    BY DEF RequestReview, Current
<1>3. /\ id \notin DOMAIN pending /\ DOMAIN pending' = DOMAIN pending \cup {id}
      /\ pending'[id].dedup_key = k
      /\ \A x \in DOMAIN pending : pending'[x] = pending[x]
    BY <1>2 DEF Queue!Enqueue, Queue!FreshId, Queue!Known, Queue!Put
<1> SUFFICES ASSUME NEW key \in CommandKeys
             PROVE  /\ IsFiniteSet(OpenReviews(key)')
                    /\ Cardinality(OpenReviews(key)') + Cardinality(Requesting(key)')
                           <= Cardinality(Requesters(key))
    BY DEF ReviewsInv, Requesters, Gated, KeyFor, CommandFor, AdapterOf, OpenReviews,
           Requesting, CommandKeys
<1>4. CASE key # k
    <2>1. OpenReviews(key)' = OpenReviews(key)
        BY <1>3, <1>4 DEF OpenReviews
    <2>2. Requesting(key)' = Requesting(key)
        BY <1>1, <1>4 DEF Requesting, OnlyTouches, KeyFor, CommandFor, AdapterOf
    <2>3. QED  BY <2>1, <2>2 DEF ReviewsInv
<1>5. CASE key = k
    <2>1. OpenReviews(key)' = OpenReviews(key) \cup {id} /\ id \notin OpenReviews(key)
        BY <1>3, <1>5 DEF OpenReviews
    <2>2. Requesting(key)' = Requesting(key) \ {s} /\ s \in Requesting(key)
        BY <1>1, <1>5 DEF Requesting, OnlyTouches, KeyFor, CommandFor, AdapterOf
    <2>3. /\ IsFiniteSet(OpenReviews(key)) /\ IsFiniteSet(Requesting(key))
          /\ Cardinality(OpenReviews(key)) \in Nat /\ Cardinality(Requesting(key)) \in Nat
          /\ Cardinality(Requesters(key)) \in Nat
        BY RequestersFinite, FS_CardinalityType DEF ReviewsInv
    <2>4. /\ IsFiniteSet(OpenReviews(key)')
          /\ Cardinality(OpenReviews(key)') = Cardinality(OpenReviews(key)) + 1
        BY <2>1, <2>3, FS_AddElement
    <2>5. Cardinality(Requesting(key)') = Cardinality(Requesting(key)) - 1
        BY <2>2, <2>3, FS_RemoveElement
    <2>6. Cardinality(OpenReviews(key)) + Cardinality(Requesting(key))
              <= Cardinality(Requesters(key))
        BY DEF ReviewsInv
    <2>7. QED  BY <2>3, <2>4, <2>5, <2>6
<1>6. QED  BY <1>4, <1>5

LEMMA OtherReviews ==
    ASSUME IInv, HInv, ReviewsInv, NEW s \in Sessions,
           OwnerCalls(s) \/ OwnStep(s) \/ ToolStep(s), ~LookUpPending(s), ~RequestReview(s)
    PROVE  ReviewsInv'
<1>1. OnlyTouches(s)
    BY StepTouches
<1>2. UNCHANGED pending
    BY DEF OwnerCalls, OwnStep, ToolStep, StartRun, DirectExecute, EndRun, SkipCompleted,
           SkipHandoff, PlanRaises, BeginTask, PolicyRefuses, RunGate, LookUpApproval,
           ToolUnavailable, Launch, ToolFails, ToolReturns, Blocked, DirectRaises, queueVars
<1>3. pc'[s] # "enqueue"
    <2> USE DEF Goto, At, Visit, IInv, Shape
    <2>1. CASE OwnerCalls(s)
        BY <2>1 DEF OwnerCalls, StartRun, DirectExecute
    <2>2. CASE EndRun(s) \/ SkipCompleted(s) \/ SkipHandoff(s) \/ PlanRaises(s) \/ BeginTask(s)
        BY <2>2 DEF EndRun, SkipCompleted, SkipHandoff, PlanRaises, BeginTask
    <2>3. CASE PolicyRefuses(s) \/ RunGate(s) \/ LookUpApproval(s)
        BY <2>3 DEF PolicyRefuses, RunGate, AfterVerdict, LookUpApproval
    <2>4. CASE ToolUnavailable(s) \/ Launch(s) \/ ToolFails(s)
        BY <2>4 DEF ToolUnavailable, Launch, ToolFails
    <2>5. CASE ToolReturns(s) \/ Blocked(s) \/ DirectRaises(s)
        BY <2>5 DEF ToolReturns, Blocked, DirectRaises
    <2>6. QED  BY <2>1, <2>2, <2>3, <2>4, <2>5 DEF OwnStep, ToolStep
<1>4. QED  BY <1>1, <1>2, <1>3, QuietReviews

LEMMA OperatorReviews ==
    ASSUME IInv, ReviewsInv, OperatorDecides \/ UNCHANGED vars
    PROVE  ReviewsInv'
<1>1. pc' = pc /\ todo' = todo
    BY DEF OperatorDecides, vars
<1>2. \/ pending' = pending
      \/ \E id : pending' = Queue!Pop(pending, id)
    BY DEF OperatorDecides, Queue!Decide, vars, queueVars
<1>3. \A x \in DOMAIN pending' : x \in DOMAIN pending /\ pending'[x] = pending[x]
    BY <1>2 DEF Queue!Pop
<1>4. \A key \in CommandKeys : OpenReviews(key)' \subseteq OpenReviews(key)
    BY <1>3 DEF OpenReviews
<1>5. \A key \in CommandKeys : Requesting(key)' \subseteq Requesting(key)
    BY <1>1 DEF Requesting, KeyFor, CommandFor, AdapterOf
<1>6. QED  BY <1>4, <1>5, NoNewRequest

LEMMA InitReviews == Init => ReviewsInv
<1> SUFFICES ASSUME Init, NEW key \in CommandKeys
             PROVE  /\ IsFiniteSet(OpenReviews(key))
                    /\ Cardinality(OpenReviews(key)) + Cardinality(Requesting(key))
                           <= Cardinality(Requesters(key))
    BY DEF ReviewsInv
<1>1. OpenReviews(key) = {} /\ Requesting(key) = {}
    BY DEF Init, Queue!Init, Queue!EmptyDict, OpenReviews, Requesting
<1>2. Cardinality(Requesters(key)) \in Nat
    BY InitIInv, RequestersFinite
<1>3. QED  BY <1>1, <1>2, FS_EmptySet

LEMMA StepReviews == IInv /\ HInv /\ ReviewsInv /\ [Next]_vars => ReviewsInv'
BY LookUpPendingReviews, RequestReviews, OtherReviews, OperatorReviews DEF Next

\* However many sessions race between the pending check and the enqueue, one
\* command never has more open reviews than threads that can request them.
THEOREM ReviewsBounded == Safety => []OpenReviewsBounded
<1>1. Safety => []ReviewsInv
    BY InitReviews, StepReviews, Invariant, HistoryInvariant, PTL DEF Safety
<1>2. ASSUME IInv, ReviewsInv, NEW key \in CommandKeys
      PROVE  Cardinality(OpenReviews(key)) <= Cardinality(Requesters(key))
    <2>1. /\ IsFiniteSet(OpenReviews(key))
          /\ Cardinality(OpenReviews(key)) + Cardinality(Requesting(key))
                 <= Cardinality(Requesters(key))
        BY <1>2 DEF ReviewsInv
    <2>2. /\ Cardinality(OpenReviews(key)) \in Nat /\ Cardinality(Requesting(key)) \in Nat
          /\ Cardinality(Requesters(key)) \in Nat
        BY <1>2, <2>1, RequestersFinite, FS_CardinalityType
    <2>3. QED  BY <2>1, <2>2
<1>3. IInv /\ ReviewsInv => OpenReviewsBounded
    BY <1>2 DEF OpenReviewsBounded, Requesters
<1>4. QED  BY <1>1, <1>3, Invariant, PTL

-----------------------------------------------------------------------------
(* What the state of sessions and queue is made of *)

\* The queue's own proofs, with the session's commands as keys and payloads.
QP == INSTANCE ReviewQueue_proofs
        WITH Keys <- CommandKeys, Payloads <- CommandKeys \cup {EmptyPayload}

\* The queue's inductive invariant holds of the sessions' queue too.
LEMMA QueueInvariant == Safety => []QP!IInv
<1>1. Init => QP!IInv
    <2>1. QP!Init => QP!IInv
        BY QP!InitIInv, SharedQueueAssumption
    <2>2. Init => QP!Init
        BY DEF Init, Queue!Init, QP!Init, Queue!EmptyDict, QP!EmptyDict
    <2>3. QED  BY <2>1, <2>2
<1>2. ASSUME IInv, QP!IInv, [Next]_vars PROVE QP!IInv'
    <2>1. [Queue!Next]_<<pending, decisions, keys, audit>>
        BY <1>2, QueueStep
    <2>2. [QP!Next]_QP!vars
        BY <2>1
        DEF QP!vars, Queue!Next, QP!Next, Queue!EnqueueSome, QP!EnqueueSome, Queue!DecideSome,
            QP!DecideSome, Queue!Enqueue, QP!Enqueue, Queue!Decide, QP!Decide, Queue!FreshId,
            QP!FreshId, Queue!Known, QP!Known, Queue!Put, QP!Put, Queue!Pop, QP!Pop,
            Queue!Decidable, QP!Decidable, Queue!DecideRowOf, QP!DecideRowOf,
            Queue!ReviewVerdict, QP!ReviewVerdict, Queue!Approve, QP!Approve, Queue!Reject,
            QP!Reject, Queue!Modify, QP!Modify
    <2>3. QED  BY <1>2, <2>2, QP!StepIInv, SharedQueueAssumption
<1>3. QED  BY <1>1, <1>2, Invariant, PTL DEF Safety

LEMMA QueueTyped == QP!IInv => Queue!TypeOK
BY DEF QP!IInv, QP!TypeOK, Queue!TypeOK, Queue!DictOf, QP!DictOf, Queue!Known, QP!Known,
       Queue!ReviewDecision, QP!ReviewDecision, Queue!PendingReview, QP!PendingReview,
       Queue!AuditRow, QP!AuditRow, Queue!EnqueueRow, QP!EnqueueRow, Queue!DecideRow,
       QP!DecideRow, Queue!ReviewVerdict, QP!ReviewVerdict, Queue!Approve, QP!Approve,
       Queue!Reject, QP!Reject, Queue!Modify, QP!Modify

\* Every thread is at one of its places.
Placed == pc \in [Sessions -> Locations] /\ direct \in [Sessions -> BOOLEAN]

LEMMA StepPlaced == IInv /\ Placed /\ [Next]_vars => Placed'
<1> SUFFICES ASSUME Placed, [Next]_vars PROVE Placed'
    OBVIOUS
<1> USE DEF Placed, Goto, Locations
<1>1. ASSUME NEW s \in Sessions, OwnerCalls(s) PROVE Placed'
    BY <1>1 DEF OwnerCalls, StartRun, DirectExecute
<1>2. ASSUME NEW s \in Sessions, OwnStep(s) PROVE Placed'
    <2>1. CASE EndRun(s) \/ SkipCompleted(s) \/ SkipHandoff(s) \/ PlanRaises(s) \/ BeginTask(s)
        BY <2>1 DEF EndRun, SkipCompleted, SkipHandoff, PlanRaises, BeginTask
    <2>2. CASE PolicyRefuses(s) \/ RunGate(s) \/ LookUpApproval(s) \/ LookUpPending(s)
        BY <2>2 DEF PolicyRefuses, RunGate, AfterVerdict, LookUpApproval, LookUpPending
    <2>3. CASE RequestReview(s) \/ ToolUnavailable(s) \/ Launch(s)
        BY <2>3 DEF RequestReview, ToolUnavailable, Launch
    <2>4. CASE Blocked(s) \/ DirectRaises(s)
        BY <2>4 DEF Blocked, DirectRaises
    <2>5. QED  BY <1>2, <2>1, <2>2, <2>3, <2>4 DEF OwnStep
<1>3. ASSUME NEW s \in Sessions, ToolStep(s) PROVE Placed'
    BY <1>3 DEF ToolStep, ToolFails, ToolReturns
<1>4. CASE OperatorDecides \/ UNCHANGED vars
    BY <1>4 DEF OperatorDecides, vars
<1>5. QED  BY <1>1, <1>2, <1>3, <1>4 DEF Next

\* The session's state and the shared queue's hold what they are declared to.
THEOREM SessionTyped == Safety => []TypeOK
<1>1. Init => Placed
    BY DEF Init, Placed, Locations
<1>2. IInv /\ HInv /\ QP!IInv /\ Placed => TypeOK
    <2> SUFFICES ASSUME IInv, HInv, QP!IInv, Placed PROVE TypeOK
        OBVIOUS
    <2>1. ASSUME NEW s \in Sessions
          PROVE  /\ todo[s] \in Seq(TaskIds(PlanOf[s]))
                 /\ completed[s] \subseteq TaskIds(PlanOf[s])
                 /\ launched[s] \subseteq Gated(s)
                 /\ outcomes[s] \in Seq(Outcome(s))
                 /\ calls[s] \in [run : 0 .. MaxRuns, direct : 0 .. MaxDirect]
                 /\ pc[s] \notin {"idle", "loop"} => todo[s] # <<>> /\ Current(s) \in Gated(s)
        <3>1. History(s) /\ Good(s, pc[s], todo[s], direct[s], completed[s], gate_context[s])
            BY DEF HInv, IInv
        <3>2. completed[s] \subseteq TaskIds(PlanOf[s])
            BY <3>1, AccountsTyped DEF History
        <3>3. QED  BY <3>1, <3>2 DEF History, Accounts, Started, Good, Outside, Current
    <2>2. QED  BY <2>1, QueueTyped DEF TypeOK, Placed
<1>3. QED  BY <1>1, <1>2, StepPlaced, Invariant, HistoryInvariant, QueueInvariant, PTL DEF Safety

-----------------------------------------------------------------------------
(* Gated execution as an operator understands it *)

Sanctioned == {k \in CommandKeys : Queue!IsKeyApproved(k)}

\* An operator's ruling clears at most the key of the review it is about.
LEMMA DecideClears ==
    ASSUME IInv, NEW id, NEW verdict, NEW operator, NEW modified,
           Queue!Decide(id, verdict, operator, modified)
    PROVE  \/ Sanctioned' = Sanctioned
           \/ \E k \in CommandKeys : Sanctioned' = Sanctioned \cup {k}
<1>1. /\ id \notin DOMAIN decisions /\ keys' = keys
      /\ DOMAIN decisions' = DOMAIN decisions \cup {id}
      /\ \A x \in DOMAIN decisions : decisions'[x] = decisions[x]
    BY DEF Queue!Decide, Queue!Decidable, Queue!Put, IInv, QueueConsistent
<1>2. \A k : Queue!IsKeyApproved(k) => Queue!IsKeyApproved(k)'
    BY <1>1 DEF Queue!IsKeyApproved, Queue!HasKey
<1>3. \A k : Queue!IsKeyApproved(k)' =>
          Queue!IsKeyApproved(k) \/ (id \in DOMAIN keys /\ keys[id] = k)
    BY <1>1 DEF Queue!IsKeyApproved, Queue!HasKey
<1>4. CommandKeys' = CommandKeys
    BY DEF CommandKeys, Gated, KeyFor, CommandFor, AdapterOf
<1>5. CASE \E k \in CommandKeys : Queue!IsKeyApproved(k)' /\ ~Queue!IsKeyApproved(k)
    <2>1. PICK k \in CommandKeys : Queue!IsKeyApproved(k)' /\ ~Queue!IsKeyApproved(k)
        BY <1>5
    <2>2. Sanctioned' = Sanctioned \cup {k}
        BY <1>2, <1>3, <1>4, <2>1 DEF Sanctioned
    <2>3. QED  BY <2>2
<1>6. CASE \A k \in CommandKeys : Queue!IsKeyApproved(k)' => Queue!IsKeyApproved(k)
    BY <1>2, <1>4, <1>6 DEF Sanctioned
<1>7. QED  BY <1>5, <1>6

\* A step that neither clears a command, nor starts or completes a task.
LEMMA StepHides ==
    ASSUME Sanctioned' = Sanctioned, UNCHANGED <<launched, completed>>
    PROVE  UNCHANGED Cleared!vars
BY DEF Sanctioned, Cleared!vars

LEMMA QueueHides ==
    ASSUME UNCHANGED <<decisions, keys>>
    PROVE  Sanctioned' = Sanctioned
BY DEF Sanctioned, Queue!IsKeyApproved, Queue!HasKey, CommandKeys, Gated, KeyFor, CommandFor,
       AdapterOf

LEMMA RequestHides ==
    ASSUME IInv, NEW id, NEW key, NEW payload, Queue!Enqueue(id, key, payload)
    PROVE  Sanctioned' = Sanctioned
<1>1. /\ id \notin DOMAIN decisions /\ decisions' = decisions
      /\ DOMAIN keys' \subseteq DOMAIN keys \cup {id}
      /\ \A x \in DOMAIN keys : x # id => x \in DOMAIN keys' /\ keys'[x] = keys[x]
    <2>1. CASE key = NoKey
        BY <2>1 DEF Queue!Enqueue, Queue!FreshId, Queue!Known
    <2>2. CASE key # NoKey
        BY <2>2 DEF Queue!Enqueue, Queue!FreshId, Queue!Known, Queue!Put
    <2>3. QED  BY <2>1, <2>2
<1>2. \A k : Queue!IsKeyApproved(k)' <=> Queue!IsKeyApproved(k)
    BY <1>1 DEF Queue!IsKeyApproved, Queue!HasKey
<1>3. QED
    BY <1>2 DEF Sanctioned, CommandKeys, Gated, KeyFor, CommandFor, AdapterOf

\* A tool is started only for a cleared command whose predecessors are done.
LEMMA LaunchStarts ==
    ASSUME IInv, NEW s \in Sessions, Launch(s)
    PROVE  Cleared!Next
<1> DEFINE t == Head(todo[s])
<1>1. pc[s] = "launch" /\ UNCHANGED <<decisions, keys, completed>>
    BY DEF Launch, At, queueVars
<1>2. t \in Gated(s) /\ t \in TaskIds(PlanOf[s]) /\ KeyFor(s, t) \in CommandKeys
    <2>1. t \in Gated(s)
        BY <1>1, TaskPlaces DEF Good, Outside
    <2>2. QED  BY <2>1, GatedTasks
<1>3. t \notin completed[s] /\ Predecessors(PlanOf[s], t) \subseteq completed[s]
    BY <1>1, TaskPlaces, PastGateMeans DEF PastGate
<1>4. Queue!IsKeyApproved(KeyFor(s, t))
    BY <1>1 DEF IInv, ApprovedIfLaunching
<1>5. launched' = [launched EXCEPT ![s] = @ \cup {t}]
    BY DEF Launch, Current
<1>6. Sanctioned' = Sanctioned
    BY <1>1, QueueHides
<1> HIDE DEF t
<1>7. Cleared!Start(s, t)
    BY <1>1, <1>2, <1>3, <1>4, <1>5, <1>6 DEF Cleared!Start, Sanctioned
<1>8. QED  BY <1>2, <1>7 DEF Cleared!Next

\* A task is completed only after its tool was started, or without a command.
LEMMA CompletionFinishes ==
    ASSUME IInv, HInv, NEW s \in Sessions, ToolReturns(s) \/ SkipHandoff(s)
    PROVE  Cleared!Next
<1> DEFINE t == Head(todo[s])
<1>1. UNCHANGED <<decisions, keys, launched>>
    BY DEF ToolReturns, SkipHandoff, queueVars
<1>2. t \in TaskIds(PlanOf[s]) /\ (t \in Gated(s) => t \in launched[s])
    <2>1. CASE ToolReturns(s)
        <3>1. pc[s] = "running"
            BY <2>1 DEF ToolReturns, At
        <3>2. t \in Gated(s) /\ t \in launched[s]
            BY <3>1, TaskPlaces DEF Good, Outside, HInv, History, Started
        <3>3. QED  BY <3>2, GatedTasks
    <2>2. CASE SkipHandoff(s)
        BY <2>2, TaskPlaces DEF SkipHandoff, Visit, Current, Good, Gated
    <2>3. QED  BY <2>1, <2>2
<1>3. completed' = [completed EXCEPT ![s] = @ \cup {t}]
    BY DEF ToolReturns, SkipHandoff, Complete, Current
<1>4. Sanctioned' = Sanctioned
    BY <1>1, QueueHides
<1> HIDE DEF t
<1>5. Cleared!Finish(s, t)
    BY <1>1, <1>2, <1>3, <1>4 DEF Cleared!Finish, Sanctioned
<1>6. QED  BY <1>2, <1>5 DEF Cleared!Next

LEMMA RulingClears ==
    ASSUME IInv, OperatorDecides
    PROVE  [Cleared!Next]_Cleared!vars
<1>1. UNCHANGED <<launched, completed>>
    BY DEF OperatorDecides, resultVars
<1>2. PICK id, verdict, operator, modified : Queue!Decide(id, verdict, operator, modified)
    BY DEF OperatorDecides
<1>3. CASE Sanctioned' = Sanctioned
    BY <1>1, <1>3, StepHides
<1>4. ASSUME NEW k \in CommandKeys, Sanctioned' = Sanctioned \cup {k}
      PROVE  Cleared!Next
    <2>1. Cleared!Clear(k)
        BY <1>1, <1>4 DEF Cleared!Clear, Sanctioned
    <2>2. QED  BY <2>1 DEF Cleared!Next
<1>5. QED  BY <1>2, <1>3, <1>4, DecideClears

LEMMA StepClearsOrHides == IInv /\ HInv /\ [Next]_vars => [Cleared!Next]_Cleared!vars
<1> SUFFICES ASSUME IInv, HInv, [Next]_vars PROVE [Cleared!Next]_Cleared!vars
    OBVIOUS
<1>1. ASSUME UNCHANGED <<decisions, keys, launched, completed>>
      PROVE  UNCHANGED Cleared!vars
    BY <1>1, QueueHides, StepHides
<1>2. ASSUME NEW s \in Sessions, RequestReview(s)
      PROVE  UNCHANGED Cleared!vars
    BY <1>2, RequestHides, StepHides DEF RequestReview, resultVars
<1>3. ASSUME NEW s \in Sessions, OwnerCalls(s) \/ OwnStep(s) \/ ToolStep(s)
      PROVE  \/ RequestReview(s) \/ Launch(s) \/ ToolReturns(s) \/ SkipHandoff(s)
             \/ UNCHANGED <<decisions, keys, launched, completed>>
    BY <1>3
    DEF OwnerCalls, OwnStep, ToolStep, StartRun, EndRun, SkipCompleted, PlanRaises, BeginTask,
        DirectExecute, PolicyRefuses, RunGate, LookUpApproval, LookUpPending, ToolUnavailable,
        ToolFails, Blocked, DirectRaises, queueVars, resultVars
<1>4. CASE UNCHANGED vars
    BY <1>1, <1>4 DEF vars, queueVars, resultVars
<1>5. QED
    BY <1>1, <1>2, <1>3, <1>4, LaunchStarts, CompletionFinishes, RulingClears DEF Next

\* The sessions implement ClearedExecution: a tool is started only for a
\* command an operator cleared, after what it waits for, and a task with a
\* command is done only after its tool was started.
THEOREM SessionsImplementCleared == Safety => ImplementsClearedExecution
<1>1. Init => Cleared!Init
    <2>1. Init => Sanctioned = {}
        BY DEF Init, Sanctioned, Queue!Init, Queue!EmptyDict, Queue!IsKeyApproved
    <2>2. QED  BY <2>1 DEF Init, Cleared!Init, Sanctioned
<1>2. QED
    BY <1>1, StepClearsOrHides, Invariant, HistoryInvariant, PTL
    DEF Safety, ImplementsClearedExecution, Cleared!Spec

-----------------------------------------------------------------------------
(* The report on a session's plan.  A third invariant follows the loop     *)
(* through the order and says of each recorded verdict how it relates to   *)
(* the one the report comes to at that place of the order.                 *)

\* The tasks without a command among the first k of the order.
HandoffsAmong(s, k) ==
    {OrderOf[s][i] : i \in {j \in 1 .. k : AdapterOf(s, OrderOf[s][j]) = NoAdapter}}

\* What the gate says of the task at place k when nothing has run but the
\* handoffs ahead of it.
DryVerdict(s, k) ==
    Evaluate(CommandFor(s, OrderOf[s][k]), EnvOf[s], TaskContext(s, HandoffsAmong(s, k - 1)))

\* A verdict of the session on task t, next to the dry one.
Mirrors(s, t, verdict, started) ==
    /\ AdapterOf(s, t) # NoAdapter
    /\ \A k \in DOMAIN OrderOf[s] : OrderOf[s][k] = t =>
          /\ started = {} => verdict = DryVerdict(s, k)
          /\ DryVerdict(s, k) # DENY => verdict # DENY

\* list is what is left of the order after its first k tasks.
Rest(s, list, k) ==
    /\ Len(list) = Len(OrderOf[s]) - k
    /\ \A i \in 1 .. Len(list) : list[i] = OrderOf[s][k + i]

Placement(s, at, list, isDirect, done) ==
    at # "idle" /\ ~isDirect =>
        \E k \in 0 .. Len(OrderOf[s]) : Rest(s, list, k) /\ HandoffsAmong(s, k) \subseteq done

Verdicts(s, log, started) ==
    \A i \in DOMAIN log :
        /\ log[i].decision # NoDecision =>
              Mirrors(s, log[i].task_id, log[i].decision.final, started)
        /\ log[i].status = "blocked" => AdapterOf(s, log[i].task_id) # NoAdapter

LastVerdict(s, at, list, isDirect, started, decs) ==
    at \notin Early /\ ~isDirect =>
        LET d == decs[AdapterOf(s, Head(list))]
        IN  d # NoDecision => Mirrors(s, Head(list), d.final, started)

Follows(s) ==
    /\ Placement(s, pc[s], todo[s], direct[s], completed[s])
    /\ Verdicts(s, outcomes[s], launched[s])
    /\ LastVerdict(s, pc[s], todo[s], direct[s], launched[s], last_decision[s])

FInv == \A s \in Sessions : Follows(s)

-----------------------------------------------------------------------------
(* Places in the order, and what the gate says at each *)

\* A set of naturals that is not empty has a least member.
LEMMA LeastNatural ==
    ASSUME NEW S, S \subseteq Nat, S # {}
    PROVE  \E least \in S : \A k \in S : least <= k
<1> DEFINE R == OpToRel(<, Nat)
<1>1. IsWellFoundedOn(R, Nat)
    BY NatLessThanWellFounded
<1>2. PICK least \in S : \A k \in S : <<k, least>> \notin R
    <2> HIDE DEF R
    <2>1. QED  BY <1>1, WFMin
<1>3. ASSUME NEW k \in S PROVE least <= k
    <2>1. <<k, least>> \in Nat \X Nat /\ ~(k < least)
        BY <1>2, <1>3 DEF OpToRel
    <2>2. QED  BY <2>1
<1>4. QED  BY <1>2, <1>3

\* The order lists each task once.
LEMMA OrderOnce ==
    ASSUME NEW s \in Sessions
    PROVE  /\ OrderOf[s] \in Seq(TaskIds(PlanOf[s]))
           /\ \A i, j \in DOMAIN OrderOf[s] : OrderOf[s][i] = OrderOf[s][j] => i = j
           /\ \A t \in TaskIds(PlanOf[s]) : \E i \in DOMAIN OrderOf[s] : OrderOf[s][i] = t
<1> DEFINE order == OrderOf[s]
           n == Len(order)
           T == TaskIds(PlanOf[s])
<1>1. order \in Seq(T) /\ IsTopologicalOrder(order, PlanOf[s])
    BY SessionAssumption
<1>2. n \in Nat /\ order \in [1 .. n -> T] /\ DOMAIN order = 1 .. n
    BY <1>1
<1>3. n = Cardinality(T) /\ {order[i] : i \in DOMAIN order} = T
    BY <1>1 DEF IsTopologicalOrder
<1> HIDE DEF order, n, T
<1>4. \A t \in T : \E i \in 1 .. n : order[i] = t
    BY <1>2, <1>3
<1>5. order \in Surjection(1 .. n, T)
    BY <1>2, <1>4 DEF Surjection
<1>6. IsFiniteSet(1 .. n) /\ Cardinality(1 .. n) = n
    BY <1>2, FS_Interval
<1>7. order \in Injection(1 .. n, T)
    BY <1>3, <1>5, <1>6, FS_SurjSameCardinalityImpliesInj
<1>8. \A i, j \in 1 .. n : order[i] = order[j] => i = j
    BY <1>7 DEF Injection, IsInjective
<1>9. QED  BY <1>1, <1>2, <1>4, <1>8 DEF order, T

\* Every predecessor of a task stands ahead of it.
LEMMA PredecessorsAhead ==
    ASSUME NEW s \in Sessions, NEW k \in DOMAIN OrderOf[s],
           NEW p \in Predecessors(PlanOf[s], OrderOf[s][k])
    PROVE  \E i \in 1 .. k - 1 : OrderOf[s][i] = p
<1>1. OrderOf[s] \in Seq(TaskIds(PlanOf[s])) /\ IsTopologicalOrder(OrderOf[s], PlanOf[s])
    BY SessionAssumption
<1>2. PICK e \in PlanOf[s].edges : e.after = OrderOf[s][k] /\ e.before = p
    BY DEF Predecessors
<1>3. \E i, j \in DOMAIN OrderOf[s] : i < j /\ OrderOf[s][i] = p /\ OrderOf[s][j] = OrderOf[s][k]
    BY <1>1, <1>2 DEF IsTopologicalOrder
<1>4. PICK i \in DOMAIN OrderOf[s] : i < k /\ OrderOf[s][i] = p
    BY <1>3, OrderOnce
<1>5. QED  BY <1>1, <1>4

\* One more task of the order.
LEMMA HandoffsNext ==
    ASSUME NEW s \in Sessions, NEW k \in Nat, k + 1 \in DOMAIN OrderOf[s]
    PROVE  LET t == OrderOf[s][k + 1]
           IN  HandoffsAmong(s, k + 1) =
                  HandoffsAmong(s, k) \cup (IF AdapterOf(s, t) = NoAdapter THEN {t} ELSE {})
<1>1. 1 .. k + 1 = (1 .. k) \cup {k + 1}
    OBVIOUS
<1>2. QED  BY <1>1 DEF HandoffsAmong

\* Two contexts of a plan in which the same predecessors are done are the
\* same to the gate.
LEMMA SamePredecessors ==
    ASSUME NEW cmd, NEW env, NEW plan, NEW done, NEW more,
           [plan |-> plan, completed |-> done] # NoContext,
           [plan |-> plan, completed |-> more] # NoContext,
           Predecessors(plan, cmd.task_id) \subseteq done
               <=> Predecessors(plan, cmd.task_id) \subseteq more
    PROVE  Evaluate(cmd, env, [plan |-> plan, completed |-> done])
               = Evaluate(cmd, env, [plan |-> plan, completed |-> more])
<1> DEFINE context == [plan |-> plan, completed |-> done]
           other == [plan |-> plan, completed |-> more]
<1>1. OnPlan(cmd, plan, cmd.task_id, done, DefaultConfig)
          <=> OnPlan(cmd, plan, cmd.task_id, more, DefaultConfig)
    BY DEF OnPlan
<1>2. Attribution(cmd, context) = Attribution(cmd, other)
    BY <1>1 DEF Attribution, PlanConsistencyStage
<1> HIDE DEF context, other
<1>3. ASSUME NEW i \in 1 .. 6
      PROVE  StageVerdict(RuntimePipeline[i], cmd, env, context)
                 = StageVerdict(RuntimePipeline[i], cmd, env, other)
    BY <1>2, RuntimeStages DEF StageVerdict
<1>4. QED  BY <1>3, RuntimeStages DEF Evaluate, PipelineVerdict, context, other

\* What the gate says of the task at place k + 1 in a context with the
\* handoffs ahead of it, and, as long as no tool has run, nothing but
\* handoffs.
LEMMA VerdictMirrors ==
    ASSUME NEW s \in Sessions, NEW t \in Gated(s), NEW k \in Nat, NEW started,
           k + 1 \in DOMAIN OrderOf[s], OrderOf[s][k + 1] = t,
           NEW done \in SUBSET TaskIds(PlanOf[s]), HandoffsAmong(s, k) \subseteq done,
           started = {} => \A x \in done : AdapterOf(s, x) = NoAdapter
    PROVE  Mirrors(s, t, Evaluate(CommandFor(s, t), EnvOf[s], TaskContext(s, done)), started)
<1> DEFINE ahead == HandoffsAmong(s, k)
           cmd == CommandFor(s, t)
<1>1. cmd.task_id = t /\ AdapterOf(s, t) # NoAdapter
    BY GatedTasks DEF Gated
<1>2. /\ OrderOf[s] \in Seq(TaskIds(PlanOf[s]))
      /\ \A j \in DOMAIN OrderOf[s] : OrderOf[s][j] = t => j = k + 1
    BY OrderOnce
<1>3. ahead \subseteq TaskIds(PlanOf[s])
    BY <1>2 DEF HandoffsAmong
<1>4. TaskContext(s, ahead) # NoContext /\ TaskContext(s, done) # NoContext
    BY <1>3, PlansGivenAssumption DEF TaskContext
<1>5. DryVerdict(s, k + 1) = Evaluate(cmd, EnvOf[s], TaskContext(s, ahead))
    BY DEF DryVerdict
<1>6. ASSUME started = {}
      PROVE  Predecessors(PlanOf[s], t) \subseteq done => Predecessors(PlanOf[s], t) \subseteq ahead
    <2>1. SUFFICES ASSUME NEW p \in Predecessors(PlanOf[s], t), p \in done
                   PROVE  p \in ahead
        OBVIOUS
    <2>2. PICK i \in 1 .. (k + 1) - 1 : OrderOf[s][i] = p
        BY PredecessorsAhead
    <2>3. i \in 1 .. k
        BY <2>2
    <2>4. QED  BY <1>6, <2>1, <2>2, <2>3 DEF HandoffsAmong
<1> HIDE DEF ahead, cmd
<1>7. started = {} => Evaluate(cmd, EnvOf[s], TaskContext(s, done)) = DryVerdict(s, k + 1)
    BY <1>1, <1>4, <1>5, <1>6, SamePredecessors DEF TaskContext, ahead
<1>8. DryVerdict(s, k + 1) # DENY => Evaluate(cmd, EnvOf[s], TaskContext(s, done)) # DENY
    BY <1>4, <1>5, EvaluateMonotone DEF TaskContext, ahead
<1>9. QED  BY <1>1, <1>2, <1>7, <1>8 DEF Mirrors, cmd

-----------------------------------------------------------------------------
(* The steps and the third invariant *)

\* More tools started, and the verdicts say no less.
LEMMA MirrorsOn ==
    ASSUME NEW s, NEW t, NEW verdict, NEW started, NEW more, started \subseteq more,
           Mirrors(s, t, verdict, started)
    PROVE  Mirrors(s, t, verdict, more)
BY DEF Mirrors

\* What is left to show after a step of session s.
LEMMA FollowsOf ==
    ASSUME FInv, NEW s \in Sessions, OnlyTouches(s), OnlyRecords(s),
           Placement(s, pc'[s], todo'[s], direct'[s], completed'[s]),
           Verdicts(s, outcomes'[s], launched'[s]),
           LastVerdict(s, pc'[s], todo'[s], direct'[s], launched'[s], last_decision'[s])
    PROVE  FInv'
<1>1. ASSUME NEW r \in Sessions
      PROVE  /\ Placement(r, pc'[r], todo'[r], direct'[r], completed'[r])
             /\ Verdicts(r, outcomes'[r], launched'[r])
             /\ LastVerdict(r, pc'[r], todo'[r], direct'[r], launched'[r], last_decision'[r])
    <2>1. CASE r = s
        BY <2>1
    <2>2. CASE r # s
        BY <2>2 DEF FInv, Follows, OnlyTouches, OnlyRecords
    <2>3. QED  BY <2>1, <2>2
<1>2. QED
    BY <1>1 DEF FInv, Follows, Placement, Verdicts, LastVerdict, Mirrors, DryVerdict, Rest,
                HandoffsAmong, CommandFor, AdapterOf, TaskContext

\* A step that records nothing, starts nothing and judges nothing.
LEMMA QuietFollows ==
    ASSUME FInv, NEW s \in Sessions, OnlyTouches(s), OnlyRecords(s),
           UNCHANGED <<completed, outcomes, launched, last_decision>>,
           Placement(s, pc'[s], todo'[s], direct'[s], completed[s]),
           \/ pc'[s] \in Early \/ direct'[s]
           \/ pc[s] \notin Early /\ todo'[s] = todo[s] /\ direct'[s] = direct[s]
           \/ last_decision[s][AdapterOf(s, Head(todo'[s]))] = NoDecision
    PROVE  FInv'
<1>1. Verdicts(s, outcomes'[s], launched'[s])
    BY DEF FInv, Follows
<1>2. LastVerdict(s, pc'[s], todo'[s], direct'[s], launched'[s], last_decision'[s])
    BY DEF FInv, Follows, LastVerdict
<1>3. QED  BY <1>1, <1>2, FollowsOf

\* The loop at the task of place k + 1, and behind it.
LEMMA AtPlace ==
    ASSUME IInv, NEW s \in Sessions, pc[s] # "idle", ~direct[s], todo[s] # <<>>,
           Placement(s, pc[s], todo[s], direct[s], completed[s])
    PROVE  \E k \in Nat :
              /\ k + 1 \in DOMAIN OrderOf[s] /\ OrderOf[s][k + 1] = Head(todo[s])
              /\ Rest(s, Tail(todo[s]), k + 1)
              /\ HandoffsAmong(s, k) \subseteq completed[s]
<1> DEFINE list == todo[s]
           order == OrderOf[s]
           T == TaskIds(PlanOf[s])
<1>1. list \in Seq(T) /\ order \in Seq(T) /\ list # <<>>
    BY TaskPlaces, OrderOnce DEF Good
<1>2. PICK k \in 0 .. Len(order) : Rest(s, list, k) /\ HandoffsAmong(s, k) \subseteq completed[s]
    BY DEF Placement
<1>3. Len(list) = Len(order) - k /\ \A i \in 1 .. Len(list) : list[i] = order[k + i]
    BY <1>2 DEF Rest
<1> HIDE DEF list, order, T
<1>4. /\ Len(list) \in Nat /\ Len(list) >= 1 /\ Len(order) \in Nat
      /\ Head(list) = list[1] /\ DOMAIN order = 1 .. Len(order)
      /\ Len(Tail(list)) = Len(list) - 1
      /\ \A i \in 1 .. Len(list) - 1 : Tail(list)[i] = list[i + 1]
    BY <1>1
<1>5. k \in Nat /\ k + 1 \in DOMAIN order /\ order[k + 1] = Head(list)
    BY <1>3, <1>4
<1>6. Len(Tail(list)) = Len(order) - (k + 1)
    BY <1>3, <1>4
<1>7. ASSUME NEW i \in 1 .. Len(Tail(list)) PROVE Tail(list)[i] = order[(k + 1) + i]
    <2>1. i \in 1 .. Len(list) - 1 /\ i + 1 \in 1 .. Len(list) /\ k + (i + 1) = (k + 1) + i
        BY <1>4
    <2>2. QED  BY <1>3, <1>4, <2>1
<1>8. QED  BY <1>2, <1>5, <1>6, <1>7 DEF Rest, list, order

\* The loop moves on: the task it leaves is completed or has a command.
LEMMA MovesOn ==
    ASSUME IInv, NEW s \in Sessions, pc[s] # "idle", ~direct[s], todo[s] # <<>>,
           Placement(s, pc[s], todo[s], direct[s], completed[s]),
           NEW done, completed[s] \subseteq done,
           Head(todo[s]) \in done \/ AdapterOf(s, Head(todo[s])) # NoAdapter
    PROVE  Placement(s, "loop", Tail(todo[s]), direct[s], done)
<1>1. PICK k \in Nat :
          /\ k + 1 \in DOMAIN OrderOf[s] /\ OrderOf[s][k + 1] = Head(todo[s])
          /\ Rest(s, Tail(todo[s]), k + 1)
          /\ HandoffsAmong(s, k) \subseteq completed[s]
    BY AtPlace
<1>2. HandoffsAmong(s, k + 1) \subseteq done
    BY <1>1, HandoffsNext
<1>3. k + 1 \in 0 .. Len(OrderOf[s])
    <2>1. OrderOf[s] \in Seq(TaskIds(PlanOf[s]))
        BY OrderOnce
    <2>2. QED  BY <1>1, <2>1
<1>4. QED  BY <1>1, <1>2, <1>3 DEF Placement

LEMMA LoopFInv ==
    ASSUME IInv, HInv, FInv, NEW s \in Sessions,
           \/ StartRun(s) \/ EndRun(s) \/ SkipCompleted(s) \/ PlanRaises(s) \/ BeginTask(s)
           \/ DirectRaises(s) \/ \E t \in Gated(s) : DirectExecute(s, t)
    PROVE  FInv'
<1>1. OnlyTouches(s) /\ OnlyRecords(s)
    BY StepTouches DEF OwnerCalls, OwnStep
<1>2. UNCHANGED <<completed, outcomes, launched, last_decision>>
    BY DEF StartRun, EndRun, SkipCompleted, PlanRaises, BeginTask, DirectRaises, DirectExecute,
           adapterVars, resultVars
<1>3. pc'[s] \in Early
    BY DEF StartRun, EndRun, SkipCompleted, PlanRaises, BeginTask, DirectRaises, DirectExecute,
           Goto, At, Early, Outside, IInv, Shape
<1>4. Placement(s, pc[s], todo[s], direct[s], completed[s])
    BY DEF FInv, Follows
<1>5. Placement(s, pc'[s], todo'[s], direct'[s], completed[s])
    <2>1. CASE StartRun(s)
        <3>1. todo'[s] = OrderOf[s]
            BY <2>1 DEF StartRun, IInv, Shape
        <3>2. OrderOf[s] \in Seq(TaskIds(PlanOf[s]))
            BY OrderOnce
        <3>3. 0 \in 0 .. Len(OrderOf[s]) /\ Rest(s, OrderOf[s], 0)
            BY <3>2 DEF Rest
        <3>4. HandoffsAmong(s, 0) = {}
            BY DEF HandoffsAmong
        <3>5. QED  BY <3>1, <3>3, <3>4 DEF Placement
    <2>2. CASE EndRun(s) \/ PlanRaises(s) \/ DirectRaises(s)
        <3>1. pc'[s] = "idle"
            BY <2>2 DEF EndRun, PlanRaises, DirectRaises, Goto, IInv, Shape
        <3>2. QED  BY <3>1 DEF Placement
    <2>3. CASE SkipCompleted(s)
        <3>1. /\ pc[s] = "loop" /\ pc'[s] = "loop" /\ todo[s] # <<>>
              /\ Head(todo[s]) \in completed[s] /\ todo'[s] = Tail(todo[s])
              /\ direct'[s] = direct[s]
            BY <2>3 DEF SkipCompleted, At, Current, IInv, Shape
        <3>2. ~direct[s]
            BY <3>1, TaskPlaces DEF Good, Outside
        <3>3. QED  BY <1>4, <3>1, <3>2, MovesOn
    <2>4. CASE BeginTask(s)
        <3>1. pc[s] = "loop" /\ todo' = todo /\ direct' = direct
            BY <2>4 DEF BeginTask, Visit, At
        <3>2. ~direct[s]
            BY <3>1, TaskPlaces DEF Good, Outside
        <3>3. QED  BY <1>4, <3>1, <3>2 DEF Placement
    <2>5. CASE \E t \in Gated(s) : DirectExecute(s, t)
        <3>1. direct'[s]
            BY <2>5 DEF DirectExecute, IInv, Shape
        <3>2. QED  BY <3>1 DEF Placement
    <2>6. QED  BY <2>1, <2>2, <2>3, <2>4, <2>5
<1>6. QED  BY <1>1, <1>2, <1>3, <1>5, QuietFollows

LEMMA ExecuteFInv ==
    ASSUME IInv, HInv, FInv, NEW s \in Sessions,
           \/ PolicyRefuses(s) \/ LookUpApproval(s) \/ LookUpPending(s) \/ RequestReview(s)
           \/ ToolUnavailable(s) \/ ToolFails(s)
    PROVE  FInv'
<1>1. OnlyTouches(s) /\ OnlyRecords(s)
    BY StepTouches DEF OwnStep, ToolStep
<1>2. UNCHANGED <<completed, outcomes, launched, last_decision, todo, direct>>
    BY DEF PolicyRefuses, LookUpApproval, LookUpPending, RequestReview, ToolUnavailable,
           ToolFails, adapterVars, resultVars
<1>3. pc[s] # "idle" /\ (pc[s] \notin Early \/ PolicyRefuses(s))
    BY DEF PolicyRefuses, LookUpApproval, LookUpPending, RequestReview, ToolUnavailable,
           ToolFails, At, Early, Outside
<1>4. Placement(s, pc'[s], todo'[s], direct'[s], completed[s])
    BY <1>2, <1>3 DEF FInv, Follows, Placement
<1>5. PolicyRefuses(s) => last_decision[s][AdapterOf(s, Head(todo'[s]))] = NoDecision
    <2>1. SUFFICES ASSUME PolicyRefuses(s)
                   PROVE  last_decision[s][AdapterOf(s, Head(todo[s]))] = NoDecision
        BY <1>2
    <2>2. Head(todo[s]) \in Gated(s)
        BY <2>1, TaskPlaces DEF PolicyRefuses, At, Good, Outside
    <2>3. EnvOf[s] # CALDERA_ONLY /\ AdapterOf(s, Head(todo[s])) \in AdapterNames
        BY <2>1, <2>2, PolicyIsEnvironment, GatedTasks DEF PolicyRefuses, Current
    <2>4. QED  BY <2>3 DEF HInv, History, Decided
<1>6. QED  BY <1>1, <1>2, <1>3, <1>4, <1>5, QuietFollows

LEMMA RunGateFInv ==
    ASSUME IInv, HInv, FInv, NEW s \in Sessions, RunGate(s)
    PROVE  FInv'
<1> DEFINE t == Head(todo[s])
           a == AdapterOf(s, t)
           verdict == Evaluate(CommandFor(s, t), EnvOf[s], gate_context[s][a])
<1>1. OnlyTouches(s) /\ OnlyRecords(s)
    BY StepTouches DEF OwnStep
<1>2. /\ UNCHANGED <<completed, outcomes, launched, direct, todo>> /\ pc[s] = "execute"
    BY DEF RunGate, resultVars, At
<1>3. t \in Gated(s) /\ todo[s] # <<>>
    BY <1>2, TaskPlaces DEF Good, Outside
<1>4. a \in AdapterNames
    BY <1>3, GatedTasks
<1>5. last_decision'[s][a].final = verdict
    <2>1. last_decision' = [last_decision EXCEPT ![s][a] = [final |-> verdict, of |-> t]]
        BY DEF RunGate, Current
    <2>2. DOMAIN last_decision = Sessions /\ DOMAIN last_decision[s] = AdapterNames
        BY DEF HInv, HistoryShape, History, Decided
    <2> HIDE DEF t, a, verdict
    <2>3. QED  BY <1>4, <2>1, <2>2
<1>6. Placement(s, pc'[s], todo'[s], direct'[s], completed'[s])
    BY <1>2 DEF FInv, Follows, Placement
<1>7. ASSUME ~direct[s] PROVE Mirrors(s, t, verdict, launched[s])
    <2>1. gate_context[s][a] = TaskContext(s, completed[s])
        BY <1>2, <1>7, TaskPlaces DEF Good, Outside
    <2>2. Placement(s, pc[s], todo[s], direct[s], completed[s])
        BY DEF FInv, Follows
    <2>3. PICK k \in Nat : /\ k + 1 \in DOMAIN OrderOf[s] /\ OrderOf[s][k + 1] = t
                           /\ HandoffsAmong(s, k) \subseteq completed[s]
        BY <1>2, <1>3, <1>7, <2>2, AtPlace
    <2>4. completed[s] \in SUBSET TaskIds(PlanOf[s])
        BY AccountsTyped DEF HInv, History
    <2>5. launched[s] = {} => \A x \in completed[s] : AdapterOf(s, x) = NoAdapter
        BY DEF HInv, History, Started
    <2> HIDE DEF t, a
    <2>6. QED  BY <1>3, <2>1, <2>3, <2>4, <2>5, VerdictMirrors
<1>8. LastVerdict(s, pc'[s], todo'[s], direct'[s], launched'[s], last_decision'[s])
    <2> HIDE DEF verdict
    <2>1. QED  BY <1>2, <1>5, <1>7 DEF LastVerdict
<1>9. Verdicts(s, outcomes'[s], launched'[s])
    BY <1>2 DEF FInv, Follows
<1>10. QED  BY <1>1, <1>6, <1>8, <1>9, FollowsOf

LEMMA LaunchFInv == ASSUME IInv, HInv, FInv, NEW s \in Sessions, Launch(s) PROVE FInv'
<1>1. OnlyTouches(s) /\ OnlyRecords(s)
    BY StepTouches DEF OwnStep
<1>2. /\ UNCHANGED <<completed, outcomes, last_decision, direct, todo>>
      /\ pc[s] = "launch" /\ launched[s] \subseteq launched'[s]
    BY DEF Launch, adapterVars, At, HInv, HistoryShape
<1>3. Placement(s, pc'[s], todo'[s], direct'[s], completed'[s])
    BY <1>2 DEF FInv, Follows, Placement
<1>4. Follows(s)
    BY DEF FInv
<1>5. Verdicts(s, outcomes'[s], launched'[s])
    BY <1>2, <1>4, MirrorsOn DEF Follows, Verdicts
<1>6. LastVerdict(s, pc'[s], todo'[s], direct'[s], launched'[s], last_decision'[s])
    BY <1>2, <1>4, MirrorsOn DEF Follows, LastVerdict, Early, Outside
<1>7. QED  BY <1>1, <1>3, <1>5, <1>6, FollowsOf

\* One more outcome.
LEMMA VerdictsGrow ==
    ASSUME NEW s \in Sessions, NEW log, NEW started, NEW o \in Outcome(s),
           log \in Seq(Outcome(s)), Verdicts(s, log, started),
           o.decision # NoDecision => Mirrors(s, o.task_id, o.decision.final, started),
           o.status = "blocked" => AdapterOf(s, o.task_id) # NoAdapter
    PROVE  Verdicts(s, Append(log, o), started)
<1> DEFINE new == Append(log, o)
<1>1. ASSUME NEW i \in DOMAIN new PROVE (i \in DOMAIN log /\ new[i] = log[i]) \/ new[i] = o
    OBVIOUS
<1> HIDE DEF new
<1>2. Verdicts(s, new, started)
    BY <1>1 DEF Verdicts
<1>3. QED  BY <1>2 DEF new

LEMMA OutcomeFInv ==
    ASSUME IInv, HInv, FInv, NEW s \in Sessions, SkipHandoff(s) \/ ToolReturns(s) \/ Blocked(s)
    PROVE  FInv'
<1> DEFINE t == Head(todo[s])
           d == last_decision[s][AdapterOf(s, t)]
           O(status, decision) == [task_id |-> t, status |-> status, decision |-> decision]
<1>1. OnlyTouches(s) /\ OnlyRecords(s)
    BY StepTouches DEF OwnStep, ToolStep
<1>2. /\ UNCHANGED <<launched, last_decision, direct>> /\ pc'[s] = "loop" /\ pc[s] # "idle"
      /\ todo'[s] = Tail(todo[s])
    BY DEF SkipHandoff, Visit, ToolReturns, Blocked, At, Goto, adapterVars, IInv, Shape
<1>3. ~direct[s] /\ todo[s] # <<>> /\ t \in TaskIds(PlanOf[s])
    <2>1. Good(s, pc[s], todo[s], direct[s], completed[s], gate_context[s])
        BY TaskPlaces
    <2>2. CASE SkipHandoff(s)
        BY <2>1, <2>2 DEF SkipHandoff, Visit, At, Good, Outside
    <2>3. CASE ToolReturns(s) \/ Blocked(s)
        BY <2>1, <2>3 DEF ToolReturns, Blocked, At, Good, Outside
    <2>4. QED  BY <2>2, <2>3
<1>4. Placement(s, pc[s], todo[s], direct[s], completed[s]) /\ Verdicts(s, outcomes[s], launched[s])
    BY DEF FInv, Follows
<1>5. outcomes[s] \in Seq(Outcome(s))
    BY DEF HInv, History, Accounts
<1>6. LastVerdict(s, pc'[s], todo'[s], direct'[s], launched'[s], last_decision'[s])
    BY <1>2 DEF LastVerdict, Early, Outside
<1>7. CASE SkipHandoff(s)
    <2>1. /\ completed'[s] = completed[s] \cup {t}
          /\ outcomes'[s] = Append(outcomes[s], O("skipped", NoDecision))
        BY <1>7 DEF SkipHandoff, Complete, Record, Current, IInv, Shape, HInv, HistoryShape
    <2>2. /\ O("skipped", NoDecision) \in Outcome(s)
          /\ O("skipped", NoDecision).status # "blocked"
          /\ O("skipped", NoDecision).decision = NoDecision
        BY <1>3 DEF Outcome
    <2>3. Placement(s, "loop", Tail(todo[s]), direct[s], completed'[s])
        BY <1>2, <1>3, <1>4, <2>1, MovesOn
    <2> HIDE DEF O
    <2>4. Verdicts(s, outcomes'[s], launched'[s])
        BY <1>2, <1>4, <1>5, <2>1, <2>2, VerdictsGrow
    <2>5. QED  BY <1>1, <1>2, <1>6, <2>3, <2>4, FollowsOf
<1>8. CASE ToolReturns(s) \/ Blocked(s)
    <2>1. pc[s] \notin Early /\ completed[s] \subseteq completed'[s]
        BY <1>8 DEF ToolReturns, Blocked, At, Early, Outside, Complete, IInv, Shape
    <2>2. PICK status \in {"executed", "blocked"} :
              outcomes'[s] = Append(outcomes[s], O(status, d))
        BY <1>8 DEF ToolReturns, Blocked, Record, Current, HInv, HistoryShape
    <2>3. t \in Gated(s) /\ d \in DecisionOf(s)
        BY <2>1, LastDecision
    <2>4. AdapterOf(s, t) # NoAdapter
        BY <2>3 DEF Gated
    <2>5. d # NoDecision => Mirrors(s, t, d.final, launched[s])
        BY <1>3, <2>1 DEF FInv, Follows, LastVerdict
    <2>6. O(status, d) \in Outcome(s) /\ O(status, d).task_id = t /\ O(status, d).decision = d
        BY <1>3, <2>3 DEF Outcome, DecisionOf
    <2>7. Placement(s, "loop", Tail(todo[s]), direct[s], completed'[s])
        BY <1>2, <1>3, <1>4, <2>1, <2>4, MovesOn
    <2> HIDE DEF O, d
    <2>8. Verdicts(s, outcomes'[s], launched'[s])
        BY <1>2, <1>4, <1>5, <2>2, <2>4, <2>5, <2>6, VerdictsGrow
    <2>9. QED  BY <1>1, <1>2, <1>6, <2>7, <2>8, FollowsOf
<1>9. QED  BY <1>7, <1>8

LEMMA OperatorFInv ==
    ASSUME FInv, UNCHANGED <<pc, todo, direct, adapterVars, resultVars>>
    PROVE  FInv'
<1>1. /\ last_decision' = last_decision
      /\ completed' = completed /\ outcomes' = outcomes /\ launched' = launched
    BY DEF adapterVars, resultVars
<1>2. QED
    BY <1>1 DEF FInv, Follows

LEMMA InitFInv == Init => FInv
<1> SUFFICES ASSUME Init, NEW s \in Sessions PROVE Follows(s)
    BY DEF FInv
<1>1. pc[s] = "idle" /\ outcomes[s] = <<>>
    BY DEF Init
<1>2. QED  BY <1>1 DEF Follows, Placement, Verdicts, LastVerdict, Early, Outside

LEMMA StepFInv == ASSUME IInv, HInv, FInv, [Next]_vars PROVE FInv'
<1>1. ASSUME NEW s \in Sessions, OwnerCalls(s) PROVE FInv'
    BY <1>1, LoopFInv DEF OwnerCalls
<1>2. ASSUME NEW s \in Sessions, OwnStep(s) PROVE FInv'
    BY <1>2, LoopFInv, ExecuteFInv, RunGateFInv, LaunchFInv, OutcomeFInv DEF OwnStep
<1>3. ASSUME NEW s \in Sessions, ToolStep(s) PROVE FInv'
    BY <1>3, ExecuteFInv, OutcomeFInv DEF ToolStep
<1>4. CASE OperatorDecides
    BY <1>4, OperatorFInv DEF OperatorDecides
<1>5. CASE UNCHANGED vars
    BY <1>5, OperatorFInv DEF vars
<1>6. QED  BY <1>1, <1>2, <1>3, <1>4, <1>5 DEF Next

LEMMA FollowInvariant == Safety => []FInv
BY InitFInv, StepFInv, Invariant, HistoryInvariant, PTL DEF Safety

-----------------------------------------------------------------------------
(* What the report comes to.  GatePlan folds over the order with a         *)
(* recursive function: it exists, and has a row for each task.             *)

RowVerdict(plan, env, id, done) ==
    LET adapter == DefaultAdapterFor(plan.nodes[id]) IN
    IF adapter = NoAdapter THEN "none"
    ELSE Evaluate(PlanCommand(adapter, plan.nodes[id], id), env,
                  [plan |-> plan, completed |-> done])

Opening == [completed |-> {}, rows |-> <<>>]

\* The report at one more task.
Turn(plan, env, id, before) ==
    LET verdict == RowVerdict(plan, env, id, before.completed) IN
    [completed |-> IF FreesSuccessors(verdict) THEN before.completed \cup {id}
                   ELSE before.completed,
     rows |-> Append(before.rows, [task_id |-> id, verdict |-> verdict])]

Folds(f, n, plan, order, env) ==
    f = [i \in 0 .. n |-> IF i = 0 THEN Opening ELSE Turn(plan, env, order[i], f[i - 1])]

LEMMA FoldsOn ==
    ASSUME NEW n \in Nat, NEW plan, NEW order, NEW env, NEW f, Folds(f, n, plan, order, env)
    PROVE  \E g : Folds(g, n + 1, plan, order, env)
<1> DEFINE g == [i \in 0 .. n + 1 |->
                    IF i = n + 1 THEN Turn(plan, env, order[n + 1], f[n]) ELSE f[i]]
<1>1. ASSUME NEW i \in 0 .. n + 1
      PROVE  g[i] = IF i = 0 THEN Opening ELSE Turn(plan, env, order[i], g[i - 1])
    <2>1. CASE i = n + 1
        <3>1. i # 0 /\ g[i - 1] = f[n] /\ g[i] = Turn(plan, env, order[n + 1], f[n])
            BY <2>1
        <3>2. QED  BY <2>1, <3>1
    <2>2. CASE i = 0
        BY <2>2 DEF Folds
    <2>3. CASE i # 0 /\ i # n + 1
        <3>1. i \in 0 .. n /\ i - 1 \in 0 .. n + 1 /\ i - 1 # n + 1
            BY <2>3
        <3>2. g[i] = f[i] /\ g[i - 1] = f[i - 1]
            BY <2>3, <3>1
        <3>3. f[i] = Turn(plan, env, order[i], f[i - 1])
            BY <2>3, <3>1 DEF Folds
        <3>4. QED  BY <2>3, <3>2, <3>3
    <2>4. QED  BY <2>1, <2>2, <2>3
<1>2. g = [i \in 0 .. n + 1 |-> g[i]]
    OBVIOUS
<1> HIDE DEF g
<1>3. g = [i \in 0 .. n + 1 |-> IF i = 0 THEN Opening ELSE Turn(plan, env, order[i], g[i - 1])]
    BY <1>1, <1>2
<1>4. QED  BY <1>3 DEF Folds

LEMMA FoldsExist ==
    ASSUME NEW n \in Nat, NEW plan, NEW order, NEW env
    PROVE  \E f : Folds(f, n, plan, order, env)
<1> DEFINE Missing == {i \in Nat : ~\E f : Folds(f, i, plan, order, env)}
<1>1. SUFFICES ASSUME Missing # {} PROVE FALSE
    OBVIOUS
<1>2. Missing \subseteq Nat
    OBVIOUS
<1>3. PICK least \in Missing : \A i \in Missing : least <= i
    <2> HIDE DEF Missing
    <2>1. QED  BY <1>1, <1>2, LeastNatural
<1>4. least \in Nat /\ ~\E f : Folds(f, least, plan, order, env)
    OBVIOUS
<1>5. CASE least = 0
    <2>1. Folds([i \in 0 .. 0 |-> Opening], 0, plan, order, env)
        BY DEF Folds
    <2>2. QED  BY <1>4, <1>5, <2>1
<1>6. CASE least # 0
    <2>1. least - 1 \in Nat /\ (least - 1) + 1 = least /\ ~(least <= least - 1)
        BY <1>4, <1>6
    <2>2. \E f : Folds(f, least - 1, plan, order, env)
        BY <1>3, <2>1
    <2>3. QED  BY <1>4, <2>1, <2>2, FoldsOn
<1>7. QED  BY <1>5, <1>6

LEMMA GatePlanFolds ==
    ASSUME NEW plan, NEW order, NEW env, Len(order) \in Nat
    PROVE  \E f : Folds(f, Len(order), plan, order, env)
                  /\ GatePlan(plan, order, env) = f[Len(order)].rows
<1> DEFINE f == CHOOSE g : Folds(g, Len(order), plan, order, env)
<1>1. Folds(f, Len(order), plan, order, env)
    BY FoldsExist
<1>2. GatePlan(plan, order, env) = f[Len(order)].rows
    BY DEF GatePlan, Folds, Turn, RowVerdict, Opening
<1>3. QED  BY <1>1, <1>2

\* A session that maps tasks to adapters as the command does.
SameAdapters ==
    \A s \in Sessions : \A t \in TaskIds(PlanOf[s]) :
        LET task == PlanOf[s].nodes[t]
        IN  task.phase \in DOMAIN PHASE_ADAPTERS => AdapterOf(s, t) = DefaultAdapterFor(task)

\* A row of the report, next to the session.
LEMMA RowMirrors ==
    ASSUME SameAdapters, NEW s \in Sessions, Reportable(PlanOf[s]), NEW k \in DOMAIN OrderOf[s]
    PROVE  LET t == OrderOf[s][k]
               verdict == RowVerdict(PlanOf[s], EnvOf[s], t, HandoffsAmong(s, k - 1))
           IN  /\ t \in TaskIds(PlanOf[s])
               /\ AdapterOf(s, t) = NoAdapter => verdict = "none"
               /\ AdapterOf(s, t) # NoAdapter => verdict = DryVerdict(s, k)
               /\ verdict \in Verdict \cup {"none"}
               /\ FreesSuccessors(verdict) <=> AdapterOf(s, t) = NoAdapter
<1> DEFINE t == OrderOf[s][k]
           task == PlanOf[s].nodes[t]
           verdict == RowVerdict(PlanOf[s], EnvOf[s], t, HandoffsAmong(s, k - 1))
<1>1. t \in TaskIds(PlanOf[s])
    BY OrderOnce
<1>2. AdapterOf(s, t) = DefaultAdapterFor(task)
    BY <1>1 DEF SameAdapters, Reportable
<1>3. AdapterOf(s, t) = NoAdapter => verdict = "none"
    BY <1>2 DEF RowVerdict
<1>4. AdapterOf(s, t) # NoAdapter => verdict = DryVerdict(s, k)
    BY <1>2 DEF RowVerdict, DryVerdict, CommandFor, TaskContext
<1>5. DryVerdict(s, k) \in Verdict
    BY DEF DryVerdict, Evaluate, PipelineVerdict, Verdict
<1>6. DryVerdict(s, k) # APPROVE
    BY NeverApproves DEF DryVerdict
<1> HIDE DEF t, verdict
<1>7. FreesSuccessors(verdict) <=> AdapterOf(s, t) = NoAdapter
    BY <1>3, <1>4, <1>5, <1>6 DEF FreesSuccessors, Verdict, APPROVE, DENY, ESCALATE
<1>8. QED  BY <1>1, <1>3, <1>4, <1>5, <1>7 DEF t, verdict

Row(s, k) ==
    [task_id |-> OrderOf[s][k],
     verdict |-> RowVerdict(PlanOf[s], EnvOf[s], OrderOf[s][k], HandoffsAmong(s, k - 1))]

RowsOf(s) == [task_id : TaskIds(PlanOf[s]), verdict : Verdict \cup {"none"}]

\* x is the report after n tasks.
UpTo(s, n, x) ==
    /\ x.completed = HandoffsAmong(s, n)
    /\ x.rows \in Seq(RowsOf(s)) /\ Len(x.rows) = n
    /\ \A k \in 1 .. n : x.rows[k] = Row(s, k)

LEMMA TurnUpTo ==
    ASSUME SameAdapters, NEW s \in Sessions, Reportable(PlanOf[s]), NEW n \in Nat,
           n + 1 \in DOMAIN OrderOf[s], NEW x, UpTo(s, n, x)
    PROVE  UpTo(s, n + 1, Turn(PlanOf[s], EnvOf[s], OrderOf[s][n + 1], x))
<1> DEFINE t == OrderOf[s][n + 1]
           verdict == RowVerdict(PlanOf[s], EnvOf[s], t, HandoffsAmong(s, n))
           row == Row(s, n + 1)
           next == Turn(PlanOf[s], EnvOf[s], t, x)
<1>1. (n + 1) - 1 = n
    OBVIOUS
<1>2. /\ t \in TaskIds(PlanOf[s]) /\ verdict \in Verdict \cup {"none"}
      /\ FreesSuccessors(verdict) <=> AdapterOf(s, t) = NoAdapter
    BY <1>1, RowMirrors
<1>3. row = [task_id |-> t, verdict |-> verdict] /\ row \in RowsOf(s)
    BY <1>1, <1>2 DEF Row, RowsOf
<1>4. /\ next.rows = Append(x.rows, row)
      /\ next.completed = IF FreesSuccessors(verdict) THEN HandoffsAmong(s, n) \cup {t}
                          ELSE HandoffsAmong(s, n)
    BY <1>3 DEF Turn, UpTo
<1>5. next.completed = HandoffsAmong(s, n + 1)
    <2>1. HandoffsAmong(s, n + 1) =
              HandoffsAmong(s, n) \cup (IF AdapterOf(s, t) = NoAdapter THEN {t} ELSE {})
        BY HandoffsNext
    <2> HIDE DEF t, verdict, next
    <2>2. QED  BY <1>2, <1>4, <2>1
<1> HIDE DEF t, verdict, row, next
<1>6. /\ next.rows \in Seq(RowsOf(s)) /\ Len(next.rows) = n + 1 /\ next.rows[n + 1] = row
      /\ \A k \in 1 .. n : next.rows[k] = x.rows[k]
    BY <1>3, <1>4 DEF UpTo
<1>7. \A k \in 1 .. n + 1 : next.rows[k] = Row(s, k)
    <2>1. \A k \in 1 .. n + 1 : k \in 1 .. n \/ k = n + 1
        OBVIOUS
    <2>2. QED  BY <1>6, <2>1 DEF UpTo, row
<1>8. UpTo(s, n + 1, next)
    BY <1>5, <1>6, <1>7 DEF UpTo
<1>9. QED  BY <1>8 DEF next, t

\* The report has one row for each task, in the order.
LEMMA ReportRows ==
    ASSUME SameAdapters, NEW s \in Sessions, Reportable(PlanOf[s])
    PROVE  LET rows == GatePlan(PlanOf[s], OrderOf[s], EnvOf[s])
           IN  /\ rows \in Seq(RowsOf(s)) /\ Len(rows) = Len(OrderOf[s])
               /\ \A k \in 1 .. Len(OrderOf[s]) : rows[k] = Row(s, k)
<1> DEFINE N == Len(OrderOf[s])
<1>1. N \in Nat /\ DOMAIN OrderOf[s] = 1 .. N
    <2>1. OrderOf[s] \in Seq(TaskIds(PlanOf[s]))
        BY OrderOnce
    <2>2. QED  BY <2>1
<1>2. PICK f : /\ Folds(f, N, PlanOf[s], OrderOf[s], EnvOf[s])
               /\ GatePlan(PlanOf[s], OrderOf[s], EnvOf[s]) = f[N].rows
    BY <1>1, GatePlanFolds
<1> HIDE DEF N
<1> DEFINE Bad == {n \in 0 .. N : ~UpTo(s, n, f[n])}
<1>3. Bad = {}
    <2>1. SUFFICES ASSUME Bad # {} PROVE FALSE
        OBVIOUS
    <2>2. Bad \subseteq Nat
        BY <1>1
    <2>3. PICK least \in Bad : \A n \in Bad : least <= n
        <3> HIDE DEF Bad
        <3>1. QED  BY <2>1, <2>2, LeastNatural
    <2>4. least \in 0 .. N /\ ~UpTo(s, least, f[least])
        OBVIOUS
    <2>5. CASE least = 0
        <3>1. f[0] = Opening
            BY <1>1, <1>2 DEF Folds
        <3>2. HandoffsAmong(s, 0) = {}
            BY DEF HandoffsAmong
        <3>3. UpTo(s, 0, f[0])
            BY <3>1, <3>2 DEF UpTo, Opening
        <3>4. QED  BY <2>4, <2>5, <3>3
    <2>6. CASE least # 0
        <3>1. /\ least - 1 \in 0 .. N /\ least - 1 \in Nat /\ (least - 1) + 1 = least
              /\ ~(least <= least - 1) /\ least \in 1 .. N
            BY <1>1, <2>4, <2>6
        <3>2. UpTo(s, least - 1, f[least - 1])
            BY <2>3, <3>1
        <3>3. f[least] = Turn(PlanOf[s], EnvOf[s], OrderOf[s][least], f[least - 1])
            BY <1>2, <2>4, <2>6 DEF Folds
        <3>4. UpTo(s, (least - 1) + 1,
                   Turn(PlanOf[s], EnvOf[s], OrderOf[s][(least - 1) + 1], f[least - 1]))
            BY <1>1, <3>1, <3>2, TurnUpTo
        <3>5. QED  BY <2>4, <3>1, <3>3, <3>4
    <2>7. QED  BY <2>5, <2>6
<1>4. N \in 0 .. N
    BY <1>1
<1>5. UpTo(s, N, f[N])
    BY <1>3, <1>4
<1>6. QED  BY <1>2, <1>5 DEF UpTo, N

-----------------------------------------------------------------------------
(* Plan files *)

\* order has each task of the plan at one place.
ListsTasks(order, plan) ==
    /\ \A i, j \in DOMAIN order : order[i] = order[j] => i = j
    /\ \A i \in DOMAIN order : order[i] \in TaskIds(plan)
    /\ \A t \in TaskIds(plan) : \E i \in DOMAIN order : order[i] = t

\* A plan read back from its file, with its own sign-offs approved again, is
\* the plan.
LEMMA ReadBack ==
    ASSUME NEW plan, NEW order, IsTaskGraph(plan), ListsTasks(order, plan)
    PROVE  WhatIf(PlanFromDict(PlanToDict(plan, order)), SignedOff(plan), FALSE) = plan
<1> DEFINE T == TaskIds(plan)
           data == PlanToDict(plan, order)
           saved == PlanFromDict(data)
           Entry(i) == [field \in DOMAIN plan.nodes[order[i]] \cup {"task_id"} |->
                           IF field = "task_id" THEN order[i] ELSE plan.nodes[order[i]][field]]
           nodeOf(id) == CHOOSE node \in ToSet(data.nodes) : node.task_id = id
<1>1. data.nodes = [i \in DOMAIN order |-> Entry(i)] /\ data.edges = plan.edges
    BY DEF PlanToDict
<1>2. DOMAIN data = {"nodes", "edges"}
    BY DEF PlanToDict
<1>3. ASSUME NEW i \in DOMAIN order
      PROVE  Entry(i).task_id = order[i]
    OBVIOUS
<1>4. ToSet(data.nodes) = {Entry(i) : i \in DOMAIN order}
    BY <1>1 DEF ToSet
<1> HIDE DEF data, Entry
<1>5. {node.task_id : node \in ToSet(data.nodes)} = T
    BY <1>3, <1>4 DEF ListsTasks
<1>6. ASSUME NEW id \in T
      PROVE  \E i \in DOMAIN order : order[i] = id /\ nodeOf(id) = Entry(i)
    <2>1. PICK i \in DOMAIN order : order[i] = id
        BY <1>6 DEF ListsTasks
    <2>2. \E node \in ToSet(data.nodes) : node.task_id = id
        BY <1>3, <1>4, <2>1
    <2>3. nodeOf(id) \in ToSet(data.nodes) /\ nodeOf(id).task_id = id
        BY <2>2
    <2> HIDE DEF nodeOf
    <2>4. QED  BY <1>3, <1>4, <2>1, <2>3 DEF ListsTasks
<1>7. ASSUME NEW id \in T
      PROVE  [intent |-> nodeOf(id).intent, target_scope |-> nodeOf(id).target_scope,
              techniques |-> FieldOr(nodeOf(id), "techniques", {}),
              operator_approved |-> FieldOr(nodeOf(id), "operator_approved", FALSE),
              phase |-> FieldOr(nodeOf(id), "phase", "")] = plan.nodes[id]
    <2> DEFINE task == plan.nodes[id]
               node == nodeOf(id)
    <2>1. IsTask(task)
        BY <1>7 DEF IsTaskGraph
    <2>2. DOMAIN task = {"intent", "target_scope", "techniques", "operator_approved", "phase"}
        BY <2>1 DEF IsTask
    <2>3. node = [field \in DOMAIN task \cup {"task_id"} |->
                     IF field = "task_id" THEN id ELSE task[field]]
        BY <1>6, <1>7 DEF Entry
    <2> HIDE DEF task, node
    <2>4. /\ DOMAIN node = DOMAIN task \cup {"task_id"}
          /\ node["intent"] = task["intent"] /\ node["target_scope"] = task["target_scope"]
          /\ node["techniques"] = task["techniques"] /\ node["phase"] = task["phase"]
          /\ node["operator_approved"] = task["operator_approved"]
        BY <2>2, <2>3
    <2>5. [intent |-> node.intent, target_scope |-> node.target_scope,
           techniques |-> FieldOr(node, "techniques", {}),
           operator_approved |-> FieldOr(node, "operator_approved", FALSE),
           phase |-> FieldOr(node, "phase", "")] = task
        BY <2>1, <2>2, <2>4 DEF FieldOr, IsTask
    <2>6. QED  BY <2>5 DEF task, node
<1>8. saved = plan
    <2> DEFINE Node(id) ==
                  [intent |-> nodeOf(id).intent, target_scope |-> nodeOf(id).target_scope,
                   techniques |-> FieldOr(nodeOf(id), "techniques", {}),
                   operator_approved |-> FieldOr(nodeOf(id), "operator_approved", FALSE),
                   phase |-> FieldOr(nodeOf(id), "phase", "")]
    <2>1. saved = [nodes |-> [id \in {node.task_id : node \in ToSet(data.nodes)} |-> Node(id)],
                   edges |-> FieldOr(data, "edges", {})]
        BY DEF PlanFromDict
    <2>2. FieldOr(data, "edges", {}) = plan.edges
        BY <1>1, <1>2 DEF FieldOr
    <2>3. \A id \in T : Node(id) = plan.nodes[id]
        BY <1>7
    <2> HIDE DEF Node, nodeOf, saved
    <2>4. [id \in T |-> Node(id)] = plan.nodes
        BY <2>3 DEF IsTaskGraph
    <2>5. QED  BY <1>5, <2>1, <2>2, <2>4 DEF IsTaskGraph
<1> HIDE DEF saved
<1>9. CASE SignedOff(plan) = {}
    BY <1>8, <1>9 DEF WhatIf, saved, data
<1>10. CASE SignedOff(plan) # {}
    <2> DEFINE Approve(id) == [plan.nodes[id] EXCEPT !.operator_approved =
                                  FALSE \/ id \in SignedOff(plan)]
    <2>1. WhatIf(plan, SignedOff(plan), FALSE) =
              [plan EXCEPT !.nodes = [id \in DOMAIN plan.nodes |-> Approve(id)]]
        BY <1>10 DEF WhatIf
    <2>2. ASSUME NEW id \in T PROVE Approve(id) = plan.nodes[id]
        <3> DEFINE task == plan.nodes[id]
        <3>1. IsTask(task) /\ ((FALSE \/ id \in SignedOff(plan)) = task.operator_approved)
            BY <2>2 DEF IsTaskGraph, IsTask, SignedOff
        <3>2. [task EXCEPT !.operator_approved = task.operator_approved] = task
            BY <3>1 DEF IsTask
        <3>3. QED  BY <3>1, <3>2
    <2> HIDE DEF Approve
    <2>3. [id \in DOMAIN plan.nodes |-> Approve(id)] = plan.nodes
        BY <2>2 DEF IsTaskGraph, TaskIds
    <2>4. [plan EXCEPT !.nodes = plan.nodes] = plan
        BY DEF IsTaskGraph
    <2>5. QED  BY <1>8, <2>1, <2>3, <2>4 DEF saved, data
<1>11. QED  BY <1>9, <1>10

-----------------------------------------------------------------------------
(* The report mirrors the run *)

LEMMA RowFields ==
    ASSUME NEW s, NEW k
    PROVE  /\ Row(s, k).task_id = OrderOf[s][k]
           /\ Row(s, k).verdict =
                 RowVerdict(PlanOf[s], EnvOf[s], OrderOf[s][k], HandoffsAmong(s, k - 1))
BY DEF Row

LEMMA VerdictOfRow ==
    ASSUME SameAdapters, NEW s \in Sessions, Reportable(PlanOf[s]), NEW k \in DOMAIN OrderOf[s],
           NEW rows, rows = GatePlan(PlanOf[s], OrderOf[s], EnvOf[s])
    PROVE  /\ k \in DOMAIN rows
           /\ rows[k].verdict = VerdictIn(rows, OrderOf[s][k])
           /\ AdapterOf(s, OrderOf[s][k]) # NoAdapter =>
                 /\ VerdictIn(rows, OrderOf[s][k]) = DryVerdict(s, k)
                 /\ DryVerdict(s, k) \notin {"none", APPROVE}
<1> DEFINE n == Len(OrderOf[s])
           t == OrderOf[s][k]
<1>1. /\ n \in Nat /\ DOMAIN OrderOf[s] = 1 .. n
      /\ \A j \in 1 .. n : OrderOf[s][j] = t => j = k
    <2>1. OrderOf[s] \in Seq(TaskIds(PlanOf[s]))
        BY OrderOnce
    <2>2. n \in Nat /\ DOMAIN OrderOf[s] = 1 .. n
        BY <2>1
    <2>3. QED  BY <2>2, OrderOnce
<1>2. /\ rows \in Seq(RowsOf(s)) /\ Len(rows) = n
      /\ \A j \in 1 .. n : rows[j] = Row(s, j)
    BY ReportRows
<1> HIDE DEF n, t
<1>3. DOMAIN rows = 1 .. n
    BY <1>1, <1>2
<1>4. ToSet(rows) = {rows[j] : j \in 1 .. n}
    BY <1>3 DEF ToSet
<1>5. \A j \in 1 .. n : rows[j].task_id = OrderOf[s][j]
    BY <1>2, RowFields
<1>6. \A row \in ToSet(rows) : row.task_id = t => row = rows[k]
    BY <1>1, <1>4, <1>5
<1>7. rows[k] \in ToSet(rows) /\ rows[k].task_id = t
    BY <1>1, <1>4, <1>5 DEF t
<1>8. VerdictIn(rows, t) = rows[k].verdict
    BY <1>6, <1>7 DEF VerdictIn
<1>9. rows[k].verdict = RowVerdict(PlanOf[s], EnvOf[s], t, HandoffsAmong(s, k - 1))
    BY <1>1, <1>2, RowFields DEF t
<1>10. AdapterOf(s, t) # NoAdapter => rows[k].verdict = DryVerdict(s, k)
    BY <1>9, RowMirrors DEF t
<1>11. DryVerdict(s, k) \notin {"none", APPROVE}
    <2>1. DryVerdict(s, k) \in Verdict
        BY DEF DryVerdict, Evaluate, PipelineVerdict, Verdict
    <2>2. DryVerdict(s, k) # APPROVE
        BY NeverApproves DEF DryVerdict
    <2>3. QED  BY <2>1, <2>2 DEF Verdict, APPROVE, DENY, ESCALATE
<1>12. QED  BY <1>1, <1>3, <1>8, <1>10, <1>11 DEF t

LEMMA SavedPlan ==
    ASSUME NEW s \in Sessions
    PROVE  WhatIf(PlanFromDict(PlanToDict(PlanOf[s], OrderOf[s])), SignedOff(PlanOf[s]), FALSE)
               = PlanOf[s]
<1>1. IsTaskGraph(PlanOf[s])
    BY PlansGivenAssumption
<1>2. ListsTasks(OrderOf[s], PlanOf[s])
    <2>1. OrderOf[s] \in Seq(TaskIds(PlanOf[s]))
        BY OrderOnce
    <2>2. \A i \in DOMAIN OrderOf[s] : OrderOf[s][i] \in TaskIds(PlanOf[s])
        BY <2>1
    <2>3. QED  BY <2>2, OrderOnce DEF ListsTasks
<1>3. QED  BY <1>1, <1>2, ReadBack

\* `oubliette-warden gate` on a session's plan, read back from its file with
\* its own sign-offs, says what the session's gate says: the same verdict as
\* long as no tool has run, no DENY later for a task left to the operator,
\* and an exit status that tells of every blocked task.
THEOREM ReportsMirror ==
    ASSUME SameAdapters
    PROVE  Safety => []ReportMirrorsRun
<1>1. ASSUME NEW s \in Sessions, Reports[s] # <<>>
      PROVE  Reportable(PlanOf[s]) /\ Reports[s] = GatePlan(PlanOf[s], OrderOf[s], EnvOf[s])
    <2> DEFINE plan == WhatIf(PlanFromDict(PlanToDict(PlanOf[s], OrderOf[s])),
                              SignedOff(PlanOf[s]), FALSE)
    <2>1. plan = PlanOf[s]
        BY SavedPlan
    <2>2. Reports[s] = IF Reportable(plan) THEN GatePlan(plan, OrderOf[s], EnvOf[s]) ELSE <<>>
        BY DEF Reports
    <2> HIDE DEF plan
    <2>3. QED  BY <1>1, <2>1, <2>2
<1>2. ASSUME FInv, HInv, NEW s \in Sessions, Reports[s] # <<>>, NEW i \in DOMAIN outcomes[s]
      PROVE  LET o == outcomes[s][i]
                 reported == VerdictIn(Reports[s], o.task_id)
             IN  /\ o.decision # NoDecision =>
                       /\ launched[s] = {} => o.decision.final = reported
                       /\ reported = ESCALATE => o.decision.final # DENY
                 /\ o.status = "blocked" => ExitStatus(Reports[s]) = 1
    <2> DEFINE rows == Reports[s]
               o == outcomes[s][i]
               t == o.task_id
    <2>1. Reportable(PlanOf[s]) /\ rows = GatePlan(PlanOf[s], OrderOf[s], EnvOf[s])
        BY <1>1, <1>2
    <2>2. t \in TaskIds(PlanOf[s])
        <3>1. outcomes[s] \in Seq(Outcome(s))
            BY <1>2 DEF HInv, History, Accounts
        <3>2. o \in Outcome(s)
            BY <1>2, <3>1
        <3>3. QED  BY <3>2 DEF Outcome
    <2>3. PICK k \in DOMAIN OrderOf[s] : OrderOf[s][k] = t
        BY <2>2, OrderOnce
    <2>4. /\ o.decision # NoDecision => Mirrors(s, t, o.decision.final, launched[s])
          /\ o.status = "blocked" => AdapterOf(s, t) # NoAdapter
        BY <1>2 DEF FInv, Follows, Verdicts
    <2> HIDE DEF rows, o, t
    <2>5. /\ k \in DOMAIN rows /\ rows[k].verdict = VerdictIn(rows, t)
          /\ AdapterOf(s, t) # NoAdapter =>
                /\ VerdictIn(rows, t) = DryVerdict(s, k)
                /\ DryVerdict(s, k) \notin {"none", APPROVE}
        BY <2>1, <2>3, VerdictOfRow
    <2>6. o.decision # NoDecision =>
              /\ launched[s] = {} => o.decision.final = VerdictIn(rows, t)
              /\ VerdictIn(rows, t) = ESCALATE => o.decision.final # DENY
        BY <2>3, <2>4, <2>5 DEF Mirrors, ESCALATE, DENY
    <2>7. o.status = "blocked" => ExitStatus(rows) = 1
        BY <2>4, <2>5 DEF ExitStatus
    <2>8. QED  BY <2>6, <2>7 DEF rows, o, t
<1>3. FInv /\ HInv => ReportMirrorsRun
    BY <1>2 DEF ReportMirrorsRun
<1>4. QED  BY <1>3, FollowInvariant, HistoryInvariant, PTL
=============================================================================
