# A TLA+ model of Oubliette Warden

Warden lets agents plan reconnaissance work and run it with command-line and
RPC tools, under one promise: **no tool starts unless the work was planned,
signed off, is in order and in scope, and an operator approved that command**.
Beside that it answers questions about vulnerabilities under a second one: **a
confident answer names only CVEs that were retrieved, each with a citation**.
The first promise is spread over a planner, a six-stage gate, two adapters, an
execution session and a review queue that several threads and an HTTP API share;
the second over a retry loop, a citation guard, and the pipeline that fills the
vector store. The modules here model both paths, check them with TLC on small
instances and prove the main properties with TLAPS for every value of the
constants.

Paths below are relative to `src/oubliette_warden/` of the repository, except
`scripts/` and `experiments/`, which stand beside `src/`.

## 1. Inventory

| Component | State | Operations | Hard behaviour |
|---|---|---|---|
| Review queue (`operator_ui/review_queue.py`) | pending, decided, keys, audit log, under one lock | enqueue, decide, get, lookups by key, replay | two operators, repeated commands, log and containers agreeing |
| Operator API (`operator_ui/api.py`) | token table | list, get, decide over HTTP | people act on what they fetched earlier; replies get lost |
| Safety gate (`agents/codegen/safety_gate.py`) | none; a loop over stages | evaluate | fail-closed defaults, DENY short-circuits, ESCALATE accumulates |
| Plan verifier (`agents/codegen/plan_consistency.py`) | none | one stage of the gate | order, sign-off, declared scope against argv |
| Planner (`agents/planner/planner.py`) | none; Kahn's algorithm | plan, topological_order | cycles, repeated and dangling edges |
| Adapters (`agents/codegen/base.py`, `nmap_adapter.py`, `msf_adapter.py`) | gate context and last decision of the current task | plan, execute | check-then-enqueue over three queue calls; timeouts |
| Execution session (`agents/codegen/runner.py`) | completed ids, outcomes | run | errors in the middle of the loop, repeated runs, contexts left behind |
| CLI (`cli.py`) | plan files | plan, gate (a dry run), serve | a dry run that must mean what a real run means |
| Researcher, evidence guard (`agents/research/`) | text, citations, reasons of the last attempt | answer, check | retries, refusals that leak what was refused |
| LLM transport (`ollama_backend.py`) | attempts of a request | post | which failures are retried, how often |
| Evaluation (`eval_harness.py`, `eval_judge.py`) | rows of the report | run, grade | a CI gate over partial results |
| Corpus building (`scripts/ingest_nvd.py`, `filter_kev_corpus.py`) | page cache, two corpus files | fetch, compact, filter | paging a list that moves, throttling, torn files |
| Seeding (`scripts/seed_qdrant.py`, `qdrant_backend.py`) | the remote collection, one batch | ensure_collection, upsert | crash between batches, lost replies, resume |
| Analyst, ranking (`agents/analysis/`) | none | rank | floating point; pure |
| CALDERA client (`integration/`) | remote | health, run_operation | not called by the session today |
| Probes, experiments, demos | none | | scripts around the above |

**How they interact.** The planner returns a task graph. A session walks it in
topological order. For each task it asks the adapter for a command, puts the
plan and a copy of its completed ids on the adapter (`_gate_context`), and
calls the adapter's `execute()`. That enforces the Phase I policy and runs the
gate. On ESCALATE it asks the shared review queue whether the command's hash
was approved; if not it files a review and raises. Operators decide reviews
through the API, from other threads. The session turns an exception into a
`blocked` outcome and goes on; a later `run()` tries the unfinished tasks again.
`warden gate` runs the same gate over a saved plan without executing anything.

The corpus goes from NVD's pages into a corpus file, from that file (the seeding's
default) or its KEV-filtered extract into the vector collection, by commands an
operator runs and repeats. `answer()` embeds a question through
the LLM transport, searches the collection, asks the model for a draft and the
guard for its verdict, and asks again while there are attempts left. The
evaluation harness calls `answer()` for each item and grades what comes back.

**What makes each part correct.** Queue: the past is never rewritten, replay
rebuilds the state, only an APPROVE of that very command clears it. API: a ruling
is recorded under the caller's own name, on what the caller saw. Gate: what
it does not deny is planned, approved, ordered, in scope. Planner: an order
that respects every edge, and a refusal only where there is none. Adapters and
session: a tool starts only when authorised, the context never outlives its
task, the outcomes explain the completed set, every call returns. CLI: the dry
run foretells the run. Researcher: what is confident is grounded, what is invented
never gets out. Seeding: the collection mirrors the corpus file whatever crashed.
`PROJECT.json` lists the hazards behind these at their lines.

## 2. Modules

| Module | Models | How state and actions correspond to the code |
|---|---|---|
| `ReviewLedger` | what the queue promises | one status per review; `Propose`, `Rule` |
| `ReviewQueue` | `review_queue.py` | the four containers are the four variables. `enqueue` and `decide` are actions, each one step because each holds the lock throughout; lookups are operators |
| `OperatorUI` | `api.py`, on `ReviewQueue` | one step per request, since each handler makes one locked call. `screen` is what a client last fetched, `answer` the last ruling confirmed; a reply may be lost, a request repeated |
| `Plans` | tasks, graphs, commands | records. An argv is a sequence of the tokens a check looks at; `Network` gives the addresses a token denotes, if it parses as a network |
| `PlanConsistency` | `plan_consistency.py` | `OnPlan` is checks 1-5 (DENY), `UnexpectedTool` and `TechniqueBeyondPlan` are 6-7 (ESCALATE) |
| `SafetyGate` | the stages of `safety_gate.py` | one operator per stage; `Evaluate` is the meaning of the runtime pipeline |
| `GatePipeline` | the loop of `evaluate` | one step per stage: `DenyStage`, `EscalateStage`, `ApproveStage`, `Return` |
| `TopologicalOrder` | `TaskGraph.topological_order` | Kahn's algorithm: one step to count, one per id taken from the ready list, one per edge relaxed |
| `Planner` | `Planner.classify`, `plan` | the plans that the sessions' scenarios use; an intent is the set of keywords found in it |
| `Adapters` | `plan()`, `_command_key` and the policies of both adapters | pure operators |
| `ClearedExecution` | what gated execution promises | cleared commands, started tasks, done tasks; `Clear`, `Start`, `Finish` |
| `ExecutionSession` | `runner.py`, `base.py`, `execute()` of both adapters | composes `Adapters` and an instance of `ReviewQueue`; see below |
| `GateReport` | plan files and `cmd_gate` of `cli.py`, on `ExecutionSession` | operators: the report is a function of the plan, compared with what the session records |
| `EvidenceGuard` | `evidence_guard.py` | `RejectedReasons` is `check`; a url is an origin and path segments |
| `OllamaTransport` | `post`, `_post_once` | `call` is the POST in progress; one step per attempt, with every way it can end |
| `Researcher` | `researcher.py`, `retrieve`, the three model calls, on the two above | one step per request; what backends reply is open |
| `EvalHarness` | `eval_harness.py`, `eval_judge.py`, on `Researcher` | one step per item, grading and exit |
| `CorpusBuild` | `ingest_nvd.py`, `filter_kev_corpus.py` | files are variables that survive a killed command; one step per page request, one for each whole-file command and one for the same command killed |
| `CorpusMirror` | what seeding promises | point n is the file's n-th record; points are added, or all wiped |
| `CorpusSeeder` | `seed_qdrant.py`, `ensure_collection`, `upsert_records`, on `CorpusBuild` | one step per request to Qdrant and per record embedded; `jsonl` is the file `--jsonl` names, the compacted one or the filtered one |
| `MC*` | instances for TLC | |
| `*_proofs` | theorems | section 5 |

`ExecutionSession` gives every session a program counter. Its steps are cut
exactly where another thread can act in between:

| Step | Code |
|---|---|
| `StartRun`, `SkipCompleted`, `SkipHandoff`, `EndRun` | the loop of `run()` |
| `PlanRaises` | `adapter.plan()` stands outside the `try`: what it raises ends `run()` |
| `BeginTask` | the context is set and `execute()` entered |
| `PolicyRefuses`, `RunGate` | `_enforce_phase1_policy`, `evaluate` |
| `LookUpApproval`, `LookUpPending`, `RequestReview` | the three locked calls of `_gate_or_raise`, one step each |
| `ToolUnavailable`, `Launch`, `ToolFails`, `ToolReturns` | the tool |
| `Blocked`, `DirectRaises` | the exception path of `_run_task`, and of a direct `execute()` |
| `DirectExecute` | the owner calls `execute()` outside `run()` |
| `OperatorDecides` | a decision through the API |

The resets in `_run_task`'s `finally` are part of `ToolReturns` and `Blocked`,
never steps of their own. `launched` and `calls` are history: they record which
tools were started and bound the owner's calls; no guard of the code's own
steps reads them. The same holds of `answers` in `EvalHarness`, of `stage` in
`CorpusBuild` (how far the last chain of commands came intact) and of `givenUp`
in `CorpusSeeder` (records whose embedding failed).

**Faults.** `CorpusBuild` and `CorpusSeeder` let a command be killed at any step:
a page, or a corpus file, is left torn where it was being written; a request to
Qdrant whose reply was lost may have been carried out (`SeedBreaks`). NVD edits
entries at any time (`NvdEdits`). `OllamaTransport` fails in every way `urllib`
reports; Qdrant requests are not retried, so they fail at once (`SearchFails`).
Over HTTP a reply is lost after the request took effect (`Show`, `DecideReview`).

## 3. Runs

| Run | Bounds | Question |
|---|---|---|
| `queue` | 2 reviews, 2 commands, 1 client, 2 operators, 5 pairs of headers | do log and containers agree, are rulings final, does only an APPROVE clear a command, is it a ledger; is a person's ruling recorded under their name on what they saw |
| `gate` | 2,016 commands x 5 contexts x 2 environments x 2 pipelines | does the loop return the pipeline's meaning, and what does a pass imply |
| `topological_order` | 5 node lists, all lists of up to 4 of 8 edges | right order, refusal only when justified, termination |
| `session_full` | 1 session, the 4-task plan, 3 runs, 1 direct call, 3 reviews | context, outcomes, order, authority of each launch; implements `ClearedExecution`; the dry run agrees; calls return |
| `session_shared` | 3 sessions, 2 runs each, 3 reviews | duplicate reviews stay bounded; an approval shared by two sessions opens no other door; a `plan()` that raises leaves no context behind |
| `research` | 2 items, 3 search results, 7 drafts, 3 tries, 3 attempts per call | grounded answers, no escape, a sound CI gate, termination |
| `corpus_seed` | either corpus file, 4 NVD entries, 2 windows, page size 2, 2 fetches, 2 seedings, batch size 2, 2 vector lengths, 1 + 1 faults | mirror, no hole, no CVE twice from the filtered file, nothing lost from NVD to collection, termination |
| `session_handoff`, `session_stale_check`, `research_citation`, `research_transport`, `seed_resume` | small | violated: section 4 |

Why the bounds are enough. *Queue*: two reviews give every relation between
reviews, keys and rulings, a command enqueued again after its ruling included;
the second user is `SessionEnqueues` and `OthersDecide`, which do at any time
whatever a session or another operator could. *Sessions*: without sharing a session
interacts with the world only through the queue, so one session shows the loop
in full (three runs: request, approve and run, then find it done), two show
every race on a shared key. In `session_shared` one of
the two goes on to a target `plan()` refuses, so that each of its runs breaks off
in the middle of the loop. The third session there runs outside `CALDERA_ONLY` and
has no queue: what its twins were allowed must not help it. `nmap`'s recon and service scans build the
same command line for the same scope, so one approval meets a second task, signed
off or not, within one plan. *Kahn*: four edges close every cycle of two and three
nodes and still leave an edge to repeat. *Research*: the drafts are one for
each rule of the guard broken alone, R2 also together with others and with a
good citation, one clean one, and one that cites one CVE and names two; three
tries let a bad draft precede and follow a good one. *Corpus*: one entry lies on
the boundary of the two windows, one alone on a second page, one has no id; two
seedings are a run and its resume, and a batch size of two leaves a batch in hand
at a crash as well as an incomplete last one. Edits at NVD are dated at `--until`
or after it. The collection is at first absent, or there and reporting no vector
length. The filter runs only when its file is the one to seed, since no other
command reads it. `LogEvery` has the code's value, 500, since nothing here resumes
at a progress line.

Every unbounded quantity has a named bound: `ReviewIds` (the ids that can be
minted), `MaxRuns`, `MaxDirect`, `EdgeLists`, `MaxFetches`, `MaxSeeds`,
`MaxBuildFaults` and `MaxFaults` (one counter, so that seeding may still have a
fault after building had its own).

In the passing runs of the session every task ahead of a command has an adapter
or stands at the end of the plan, as in the planner's plans; the plan that is
not like that is the finding of `session_handoff`. In `corpus_seed` the operator
resumes at the last stored point; resuming at the last progress line is the
finding of `seed_resume`. Review ids and command keys are interchangeable in the
safety runs (symmetry); runs with liveness use none. Deadlock is not
checked: operators may stop deciding, owners stop calling, commands end, so the
system really may stop.

**Fairness.** `OwnStep(s)` is weakly fair: a started thread goes on. An nmap
process ends, since `subprocess.run` kills it at its timeout
(`nmap_adapter.py:130`), so its `ToolStep` is weakly fair. Nothing bounds
`module_run` (`msf_adapter.py:167`), so no fairness is assumed of a metasploit
step, and `CallsReturn` says exactly that: a call returns, or waits for an RPC.
No operator is assumed to decide and no owner to call again. The evaluation is one
thread all of whose requests carry a timeout, so its next step is weakly fair;
the same holds of a running fetch and of a running seeding (`FetchStep`,
`SeedStep`), and of the sequential `TopologicalOrder`. No fairness is assumed of
faults or of NVD, and none is needed against throttling.

Every property of a passing run has a mutant in `PROJECT.json`: a plausible bug
in a modelled definition (named `Mutant...` beside it) that violates it.

## 4. Where the code and its comments disagree

1. `session_handoff`. A node with no adapter completes although its predecessor
   was blocked (`runner.py:86-92`), so a command behind it runs although the
   command before it did not; `Edge` and the module's docstring exclude that.
   The built-in planner puts such a node only at the end; a plan file need not.
2. `session_stale_check`. An approval that lands between the approval check and
   the pending check (`base.py:180-182`) makes the session ask for a second
   review of an approved command.
3. `research_citation`. R4 looks a cited page up among the references of all
   retrieved records (`evidence_guard.py:153,188`), so the advisory of one CVE
   passes as the citation of another.
4. `research_transport`. A connection dropped before the reply is none of the
   exceptions `_post_once` catches, so it is not retried.
5. `seed_resume`. The progress line runs ahead of what was stored by up to a
   batch, and the help text offers it as the place to resume at.

Noticed while reading, and not stated as properties: `get()` of a decided review
has lost payload, reasoning and key (`review_queue.py:136-145`). A tool that ran
and timed out is recorded as `blocked`, like a refused one (`runner.py:106`).
The judge's docstring speaks of a leading verdict, `VERDICT_RE.search` finds one
anywhere (`eval_judge.py:94`; modelled as it is). A refusal keeps the invented
ids in `cves_mentioned` (`researcher.py:156`), where the keyword grader looks.
The default `--jsonl` is the compacted file (`seed_qdrant.py:96`), which holds an
entry on the boundary of two windows twice (`filter_kev_corpus.py:172-174`), and so
does a collection seeded from it. `--until` defaults to today's midnight
(`ingest_nvd.py:217`), so an entry NVD revises today lies outside every window of
that fetch. A collection that reports no vector size is taken for compatible
(`qdrant_backend.py:209-210`) and found out by its first batch. Nothing bounds an
RPC (`msf_adapter.py:167`), and nothing says it should. `QdrantTransport` lets a
`TimeoutError` through. `--approve` replaces the
sign-offs of the plan file, those of the other tasks too (`cli.py:236`). A cyclic
or dangling plan file ends `warden gate` in a traceback. `--start-at` counts
records, its help says lines: the two differ when a line is malformed.

## 5. Proofs

All theorems hold for every value of the constants under named assumptions, which
TLC evaluates in the passing runs. They say what the code's own checks and types
give it:

* `QueueAssumption`, `SharedQueueAssumption`, `UIAssumption`: markers for "no
  key", "no operator", "no token" are none.
* `PlansAssumption`, `AdapterAssumption`: a token that parses as a network denotes
  at least one address; nmap's adapter refuses `--script` as a target (it starts with a
  dash, which the adapter rejects).
* `PipelineAssumption`, `ContextAssumption`: a pipeline is made of the six stages, a
  context is a plan with completed tasks and never `None`.
* `SessionAssumption`, `BoundsAssumption`: each session's order is a topological
  order of its plan (which `OrderCorrect` shows of what the code computes), its
  adapters are the two built in, its scopes are finite; finitely many sessions have
  a queue.
* `PlansGivenAssumption`: a session's plan is made of records with the fields of a
  `Task`, and a task's context is never `None`.
* `GraphAssumption`, `HarnessAssumption`, `ResearchAssumption`,
  `TransportAssumption`, `BuildAssumption`, `SeederAssumption`: lists are lists,
  sizes are positive, counters are natural numbers, a draft names what it cites.

* **`ReviewQueue_proofs`**: `TypeCorrect`, `ReplayCorrect`, `StoryCorrect`,
  `PastImmutable`, `ApprovalSound`, `QueueImplementsLedger`. The three state
  invariants are not inductive by themselves: that a decision is new needs the
  log to agree with the containers, and that it clears the right command needs
  a pending review and the `_keys` table to agree on its key. `IInv` is their
  conjunction with that fact (`KeysAgree`). What appending a row does to the log
  is stated once (`AppendRow`, `AppendMentions`).
* **`SafetyGate_proofs`**: what a verdict implies. `PassesOnlyPlannedWork`: a
  pass means a context, a planned and signed-off task in order and in scope, and
  the Phase I environment. `NeverApproves`: with the judge a stub, the gate alone
  approves nothing.
* **`GatePipeline_proofs`**: `LoopCorrect` from the loop invariant `LoopInv`
  (until it returns there was no DENY, and `final` is ESCALATE exactly when some
  stage escalated); `OnlyPlannedWork`, `NothingUnseen` and `TrafficInScope` then follow
  from the facts about the verdict. `CompletingSafe` compares one command under two
  completed sets: only the attribution stage reads the context
  (`OnlyAttributionReadsContext`), and more completed tasks never turn what passes
  into a DENY (`EvaluateMonotone`).
* **`TopologicalOrder_proofs`**: `OrderCorrect` and `RefusalJustified`, for any list
  of ids and of edges, repeated ones, self loops and cycles included. The invariant
  counts: an id's indegree is the number of edges into it that are still open, and
  an id is in the ready list or ordered exactly when there are none. At a refusal
  the ids left over each have an open edge from another one left over; since they
  are finitely many, one is its own ancestor.
* **`ExecutionSession_proofs`**: `LaunchesAuthorised`, `ContextScoped`,
  `SessionsUseQueue`. A launch is a single step, and what authorises it happened
  several steps and queue calls earlier. `IInv` carries it there: for each
  session (`Good`) which context its adapters hold, that whoever is past the gate
  still holds a passing verdict for the current task, and that whoever is about
  to launch was approved. Approvals survive every step of everyone else
  (`QueueSteady`), since a decided review can neither be decided again nor lose
  its key (`QueueConsistent`). A direct `execute()` has no context, so by
  `PassesOnlyPlannedWork` it is never past the gate. `SessionsUseQueue` shows
  that sessions drive the queue only through its operations, so the queue's
  theorems apply to it. `SessionTyped` uses that for the queue's part.

  `OutcomesAccount` and `AncestorsRan` need the history: `HInv` says of each session
  that every task done is explained by exactly one outcome, the last of that task,
  that only a started task has one that is `executed`, and that whoever started had
  its direct predecessors completed. The second theorem closes this under paths, for
  plans in which no task without a command is upstream of one with a command
  (`NoHandoffAhead`). The plans of the passing runs are such plans; the one of
  `session_handoff` is not, and there the property fails. `ReviewsBounded` is the
  race of the check with the enqueue: `ReviewsInv` counts, for every key, its
  pending reviews together with the sessions that already found none and are about
  to enqueue one; this sum never exceeds the number of sessions with a queue,
  because a session gets past the check only while there is no pending review.
  `SessionsImplementCleared` maps every step: a launch is a `Start`, the end of a
  task is a `Finish`, an operator's ruling may `Clear`, everything else stutters.

  `ReportsMirror` compares two computations that never meet: the session's loop,
  over many steps and several `run()` calls, and the fold of `_gate_plan`. A third
  invariant, `FInv`, keeps the loop's place in the order (`Placement`: what is left
  is a suffix, and the tasks without a command ahead of it are completed), so every
  verdict is one in a context that holds at least the handoffs ahead of the task
  and, before the first launch, nothing but handoffs. `DryVerdict` is the verdict
  with exactly the handoffs ahead; the two agree because the gate reads of the
  context only whether the predecessors are in it (`SamePredecessors`,
  `EvaluateMonotone`). That the report computes `DryVerdict` in each row
  (`ReportRows`) is an induction over its fold, by a least counterexample, and rests
  on `NeverApproves`: only handoffs free their successors. `ReadBack` shows that a
  plan survives its file. Hypothesis: `SameAdapters` (the session maps tasks to
  adapters as the command does), which the sessions of `session_full` meet.
* **`OperatorUI_proofs`**: `UIUsesQueue` shows that every request, in process or
  over HTTP, is a step of the queue or leaves it alone, so the queue's theorems
  hold behind the API. `ConfirmationsHold` and `RulingsMatchScreens` add what a
  client knows: `UIInv` keeps a confirmed ruling among the decisions (no step
  changes a decision) and the payload on a screen equal to the one that waits
  (an id enters the queue once).
* **`EvalHarness_proofs`**: `ConfidentIsCited` and `NothingInventedEscapes`, for
  any records and any text the model may write. `AgentInv`: what is held as an
  answer is `FinalAnswer` of one draft over the records of this question;
  `AcceptedIsGrounded` and `Completed` then say what the guard's acceptance
  means. `CiGateCorrect`: `GateInv` ties row `i` of the report to item `i` and
  its answer, and forbids the process to end in the middle of an item; the passed
  rows are then a subset of the answers on topic, and cardinalities compare.
  `EvaluationTyped` adds the transport's attempts, which never pass `MaxRetries`.
* **`CorpusSeeder_proofs`**: `EmbedsWhatFitsAlways` and `NoHoleEver`, whichever file
  is seeded. A run that
  starts at the last stored point relies on what earlier runs left, also the
  ones that crashed: `Gapless` says that nothing before a stored point is
  missing. It survives a flush because of `Behind`, which says the same of the
  run's own position, and a dropped collection because a run that drops it
  starts at 0. All theorems here assume `Markers` (the values for "no collection"
  and "no run" are neither), `NoHoleEver` also `ResumesAtStored`; `seed_resume`
  shows what happens without.

  `SeederTyped`, `NoDuplicateEver` and `SeedingMirrors` follow from `CorpusInv`,
  which carries what the build leaves on disk through the seeding: a corpus file,
  cut short or not, is a sequence of rows; the filtered one has no CVE twice (the compacted one may, which is why
  `NoDuplicateEver` claims it of collections seeded from the filtered one only, in a
  model that seeds both); a run's
  batch holds positions it has passed; every point is the record of its position.
  Lists that depend on data are selected by place (`Selected`, `InOrder`: the n-th
  member of a finite set of places has n members up to itself), since a recursive
  definition could not be reasoned about; `Ranks`, `Listing` and `SelectedRows` show
  once that such a list holds each place once and in order, for any total order.

  `NothingLost` proves `EndToEnd`, along the whole chain: after commands that each ran
  to their end, every CVE that NVD dates no later than `--until` is a point; from the
  filtered file, every such CVE of the keep-set. Entries revised later lie outside the
  fetched range, and nothing is claimed of them, nor of a cache with a torn page
  (`PagesIntact`). `PassageInv` follows one fetch
  while NVD stands still: every entry it has come past (`Division` into windows,
  `WindowsCover`, places in NVD's list by `EntriesOrdered`) is on a page, and on one
  it does not write again. Compacting and filtering then bring a row of each such
  CVE along (`StageInv`); edits meanwhile only raise revisions. `CorpusInv` and
  `Behind` finish: the run that ends intact has stored the point of every row.
  Hypotheses besides `Markers` and `ResumesAtStored`: `FileMarkers` (`NoFile` is no
  list of lines, a torn line is no record).

**Model-checked only.**

* Termination (`Ends`, `CallsReturn`, `EvalEnds`, `CommandsEnd`): liveness under
  fairness is out of the prover's reach.

## 6. Not modelled

* Timestamps, rationale, summaries, log lines, parsed findings, HTTP status codes:
  nothing decides on them.
* Collision of two 32-bit review ids (`review_queue.py:81`): `FreshId` assumes
  there is none.
* One adapter instance shared by two sessions: every caller in the repository
  builds its own.
* The regular expressions that find a scope in an intent, CVE ids and citations in
  a text, and the character sets of target names: the model starts from what
  they find.
* A corpus rebuilt between two seedings, and two commands at a time on the same
  files: the corpus is rebuilt only until it is first seeded (`Build`). One
  collection seeded from both files in turn: `jsonl` is chosen once. After either,
  a point need not be the record of its position. Two
  embedding models of one vector length are one model; a collection found there
  holds no points of someone else's.
* The checks of a metasploit module's path (`msf_adapter.py:229-241`): a module is its
  category (`MsfPolicy`), and each path `_select_module` returns passes them.
* The analyst's scores and ranking (`agents/analysis/`): pure arithmetic on
  floating point, which TLC does not have; the XML ingest is parsing. The
  CALDERA client: nothing in the execution path calls it. The demos, probes and
  experiments drive the parts above and print.

## 7. Plan

Done: the queue, gate and session with their proofs; Kahn's algorithm; researcher,
evaluation, transport; corpus and seeding; the operator API and the dry run. Every
safety property of a passing run is proved, for every value of the constants.
Left, in order:

1. A seeding after the corpus file changed, with the promise the code could make
   then.
2. Bounds that `seed_resume` suggests: how much a run resumed at the printed line
   can miss.
