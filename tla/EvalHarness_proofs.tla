-------------------------- MODULE EvalHarness_proofs --------------------------
(***************************************************************************)
(* Proofs about the research agent under the evaluation harness, for any   *)
(* records, drafts, retry bounds and eval sets.                            *)
(*                                                                         *)
(* An answer is judged against the records of its own question.  AgentInv  *)
(* says that it is the fixed answer for no records, or FinalAnswer of one  *)
(* draft and the records still held, and that nothing is held as an answer *)
(* while a question is being worked on.                                    *)
(***************************************************************************)
EXTENDS EvalHarness, FiniteSetTheorems, TLAPS

Blank == ResearchAnswer(NothingRetrieved, {}, {}, FALSE)

\* What answer() can return over these records.
Possible(a, records) == a = Blank \/ \E draft \in Drafts : a = FinalAnswer(draft, records)

AnswerOfRecords == answer = NoAnswer \/ Possible(answer, retrieved)

NoneWhileWorking ==
    phase \in {"idle", "embedding", "searching", "drafting"} => answer = NoAnswer

AgentInv == AnswerOfRecords /\ NoneWhileWorking

-----------------------------------------------------------------------------
(* What the guard's acceptance means *)

LEMMA AcceptedIsGrounded ==
    ASSUME NEW mentioned, NEW records, NEW citations,
           RejectedReasons(mentioned, records, citations) = {}
    PROVE  /\ mentioned \subseteq Ids(records)
           /\ citations # {}
           /\ \A c \in citations : UrlAllowed(c.url) /\ c.url \in RetrievedUrls(records)
<1>1. BrokenRules(mentioned, records, citations) = {}
    BY DEF RejectedReasons
<1>2. /\ mentioned \subseteq Ids(records)
      /\ citations # {}
      /\ \A c \in citations : CitationReasons(c, records) = {}
    BY <1>1 DEF BrokenRules
<1>3. ASSUME NEW c \in citations
      PROVE  UrlAllowed(c.url) /\ c.url \in RetrievedUrls(records)
    <2>1. CitationReasons(c, records) = {}
        BY <1>2
    <2>2. QED  BY <2>1 DEF CitationReasons
<1>4. QED  BY <1>2, <1>3

LEMMA NotHallucinated ==
    ASSUME NEW mentioned, NEW records, NEW citations,
           ~IsHallucination(RejectedReasons(mentioned, records, citations))
    PROVE  mentioned \subseteq Ids(records)
<1>1. "R2" \notin BrokenRules(mentioned, records, citations)
    BY DEF IsHallucination, RejectedReasons
<1>2. QED  BY <1>1 DEF BrokenRules

\* Every CVE an accepted draft names has a citation of its own.
LEMMA Completed ==
    ASSUME NEW draft \in Drafts, NEW records, ReasonsFor(draft, records) = {},
           NEW id \in draft.mentions
    PROVE  CitedBy(id, CompleteCitations(draft, records), records)
<1> DEFINE all == CompleteCitations(draft, records)
<1>1. /\ draft.mentions \subseteq Ids(records)
      /\ \A c \in all : UrlAllowed(c.url) /\ c.url \in RetrievedUrls(records)
    BY AcceptedIsGrounded DEF ReasonsFor
<1>2. \E c \in all : c.cve_id = id
    <2>1. CASE id \in {c.cve_id : c \in draft.cites}
        BY <2>1 DEF CompleteCitations
    <2>2. CASE id \notin {c.cve_id : c \in draft.cites}
        <3>1. Citation(id, CanonicalNvdUrl(id)) \in all
            BY <1>1, <2>2 DEF CompleteCitations
        <3>2. Citation(id, CanonicalNvdUrl(id)).cve_id = id
            BY DEF Citation
        <3>3. QED  BY <3>1, <3>2
    <2>3. QED  BY <2>1, <2>2
<1>3. QED  BY <1>1, <1>2 DEF CitedBy

Grounded(a, records) ==
    a.confident =>
        /\ a.citations # {}
        /\ a.text.mentions = a.cves_mentioned
        /\ \A id \in a.text.mentions : id \in Ids(records) /\ CitedBy(id, a.citations, records)

LEMMA PossibleIsGrounded ==
    ASSUME NEW a, NEW records, Possible(a, records)
    PROVE  Grounded(a, records) /\ a.text.mentions \subseteq Ids(records)
<1>1. CASE a = Blank
    BY <1>1 DEF Blank, ResearchAnswer, NothingRetrieved, EmptyDraft, Grounded
<1>2. ASSUME NEW draft \in Drafts, a = FinalAnswer(draft, records)
      PROVE  Grounded(a, records) /\ a.text.mentions \subseteq Ids(records)
    <2> DEFINE reasons == ReasonsFor(draft, records)
               all == CompleteCitations(draft, records)
    <2>1. CASE reasons = {}
        <3>1. a = ResearchAnswer(draft, draft.mentions, all, TRUE)
            BY <1>2, <2>1 DEF FinalAnswer
        <3>2. all # {} /\ draft.mentions \subseteq Ids(records)
            BY <2>1, AcceptedIsGrounded DEF ReasonsFor
        <3>3. \A id \in draft.mentions : CitedBy(id, all, records)
            BY <2>1, Completed
        <3> HIDE DEF all
        <3>4. QED  BY <3>1, <3>2, <3>3 DEF ResearchAnswer, Grounded
    <2>2. CASE reasons # {} /\ IsHallucination(reasons)
        <3>1. a = ResearchAnswer(Refusal, draft.mentions, all, FALSE)
            BY <1>2, <2>2 DEF FinalAnswer
        <3>2. QED  BY <3>1 DEF ResearchAnswer, Refusal, EmptyDraft, Grounded
    <2>3. CASE reasons # {} /\ ~IsHallucination(reasons)
        <3>1. a = ResearchAnswer(draft, draft.mentions, all, FALSE)
            BY <1>2, <2>3 DEF FinalAnswer
        <3>2. draft.mentions \subseteq Ids(records)
            BY <2>3, NotHallucinated DEF ReasonsFor
        <3> HIDE DEF all
        <3>3. QED  BY <3>1, <3>2 DEF ResearchAnswer, Grounded
    <2>4. QED  BY <2>1, <2>2, <2>3
<1>3. QED  BY <1>1, <1>2 DEF Possible

-----------------------------------------------------------------------------
(* The agent's invariant *)

LEMMA AgentInit == HarnessInit => AgentInv
BY DEF HarnessInit, ResearchInit, AgentInv, AnswerOfRecords, NoneWhileWorking

LEMMA AnsweringInv == ASSUME AgentInv, Answering PROVE AgentInv'
<1> USE DEF AgentInv, AnswerOfRecords, NoneWhileWorking
<1>1. CASE Embedded
    BY <1>1 DEF Embedded
<1>2. CASE SearchFails \/ BackendRaises \/ PostAttempt
    BY <1>2 DEF SearchFails, BackendRaises, PostAttempt
<1>3. ASSUME NEW hits \in Hits, Searched(hits) PROVE AgentInv'
    BY <1>3 DEF Searched, Possible, Blank
<1>4. ASSUME NEW draft \in Drafts, TryAgain(draft) PROVE AgentInv'
    BY <1>4 DEF TryAgain
<1>5. ASSUME NEW draft \in Drafts, Conclude(draft) PROVE AgentInv'
    BY <1>5 DEF Conclude, Possible
<1>6. QED  BY <1>1, <1>2, <1>3, <1>4, <1>5 DEF Answering

LEMMA HarnessStepInv == ASSUME AgentInv, HarnessStep PROVE AgentInv'
<1> USE DEF AgentInv, AnswerOfRecords, NoneWhileWorking
<1>1. CASE NextItem
    BY <1>1 DEF NextItem, Ask
<1>2. CASE GradeByKeywords \/ \E text \in JudgeTexts : GradeByJudge(text)
    BY <1>2 DEF GradeByKeywords, GradeByJudge, Row
<1>3. CASE AskJudge
    BY <1>3 DEF AskJudge
<1>4. CASE Abort \/ Exit
    BY <1>4 DEF Abort, Exit, researchVars
<1>5. QED  BY <1>1, <1>2, <1>3, <1>4 DEF HarnessStep

LEMMA AgentInvariant == Spec => []AgentInv
<1>1. AgentInv /\ [Next]_vars => AgentInv'
    <2>1. ASSUME AgentInv, UNCHANGED vars PROVE AgentInv'
        BY <2>1 DEF vars, researchVars, AgentInv, AnswerOfRecords, NoneWhileWorking
    <2>2. QED  BY <2>1, AnsweringInv, HarnessStepInv DEF Next
<1>2. QED  BY <1>1, AgentInit, PTL DEF Spec

\* A confident answer is grounded, claim by claim.
THEOREM ConfidentIsCited == Spec => []EveryMentionIsCited
<1>1. AgentInv => EveryMentionIsCited
    BY PossibleIsGrounded DEF AgentInv, AnswerOfRecords, EveryMentionIsCited, Grounded
<1>2. QED  BY <1>1, AgentInvariant, PTL

\* No invented CVE leaves the agent, whatever else is wrong with the draft.
THEOREM NothingInventedEscapes == Spec => []NoUnsupportedTextEscapes
<1>1. AgentInv => NoUnsupportedTextEscapes
    BY PossibleIsGrounded DEF AgentInv, AnswerOfRecords, NoUnsupportedTextEscapes
<1>2. QED  BY <1>1, AgentInvariant, PTL

-----------------------------------------------------------------------------
(* The CI gate.  GateInv: every answer graded so far was graded against its *)
(* own item, and the process ends only between two items.                   *)

RecordSets == {hits \ {BlankHit} : hits \in Hits} \cup {{}}

Answers ==
    {NoAnswer, Blank} \cup {FinalAnswer(draft, records) : draft \in Drafts, records \in RecordSets}

Working == phase \notin {"idle", "raised"}

GradedByKeywords ==
    grader = "keyword" =>
        \A i \in 1 .. Len(report) : report[i] => GradeItem(Items[i], answers[i])

GateInv ==
    /\ retrieved \in RecordSets
    /\ answer \in Answers
    /\ report \in Seq(BOOLEAN) /\ answers \in Seq(Answers)
    /\ Len(answers) = Len(report) /\ Len(report) <= Len(Items)
    /\ Working => question = Len(report) + 1 /\ Len(report) < Len(Items) /\ exit = "running"
    /\ phase = "judging" => grader = "llm"
    /\ GradedByKeywords
    /\ exit = "success" => Len(report) = Len(Items) /\ ScoreReaches(report)

LEMMA ItemsLength == Len(Items) \in Nat /\ DOMAIN Items = 1 .. Len(Items)
BY HarnessAssumption

LEMMA GateInit == HarnessInit => GateInv
<1> SUFFICES ASSUME HarnessInit PROVE GateInv
    OBVIOUS
<1>1. /\ retrieved = {} /\ answer = NoAnswer /\ report = <<>> /\ answers = <<>>
      /\ phase = "idle" /\ exit = "running"
    BY DEF HarnessInit, ResearchInit
<1>2. retrieved \in RecordSets /\ answer \in Answers
    BY <1>1 DEF RecordSets, Answers
<1>3. /\ report \in Seq(BOOLEAN) /\ answers \in Seq(Answers)
      /\ Len(report) = 0 /\ Len(answers) = 0
    BY <1>1
<1>4. Len(report) <= Len(Items)
    BY <1>3, ItemsLength
<1>5. GradedByKeywords
    BY <1>3 DEF GradedByKeywords
<1>6. QED  BY <1>1, <1>2, <1>3, <1>4, <1>5 DEF GateInv, Working

\* A step of answer() grades nothing.
LEMMA GateAnswering == ASSUME GateInv, Answering, UNCHANGED harnessVars PROVE GateInv'
<1>1. UNCHANGED <<grader, report, answers, exit>>
    BY DEF harnessVars
<1>2. /\ retrieved' \in RecordSets /\ answer' \in Answers
      /\ phase' = "judging" => phase = "judging"
      /\ Working' => Working
    <2> USE DEF GateInv, Working
    <2>1. CASE Embedded \/ SearchFails \/ BackendRaises \/ PostAttempt
        BY <2>1 DEF Embedded, SearchFails, BackendRaises, PostAttempt
    <2>2. ASSUME NEW hits \in Hits, Searched(hits)
          PROVE  /\ retrieved' \in RecordSets /\ answer' \in Answers /\ question' = question
                 /\ phase' # "judging" /\ Working
        <3>1. retrieved' \in RecordSets
            BY <2>2 DEF Searched, RecordSets
        <3>2. CASE hits \ {BlankHit} = {}
            BY <2>2, <3>1, <3>2 DEF Searched, Answers, Blank
        <3>3. CASE hits \ {BlankHit} # {}
            BY <2>2, <3>1, <3>3 DEF Searched
        <3>4. QED  BY <3>2, <3>3
    <2>3. ASSUME NEW draft \in Drafts, TryAgain(draft)
          PROVE  UNCHANGED <<retrieved, answer, question, phase>>
        BY <2>3 DEF TryAgain
    <2>4. ASSUME NEW draft \in Drafts, Conclude(draft)
          PROVE  /\ retrieved' \in RecordSets /\ answer' \in Answers /\ question' = question
                 /\ phase' # "judging" /\ Working
        BY <2>4 DEF Conclude, Answers
    <2>5. QED  BY <2>1, <2>2, <2>3, <2>4 DEF Answering
<1>3. question' = question
    <2>1. QED  BY DEF Answering, Embedded, SearchFails, BackendRaises, PostAttempt, Searched,
                      TryAgain, Conclude
<1>4. GradedByKeywords'
    BY <1>1 DEF GateInv, GradedByKeywords
<1>5. ScoreReaches(report)' = ScoreReaches(report)
    BY <1>1 DEF ScoreReaches, Passes
<1>6. QED  BY <1>1, <1>2, <1>3, <1>4, <1>5 DEF GateInv

\* Adding the row of the item in hand.
LEMMA GateRow ==
    ASSUME GateInv, Working, NEW passed \in BOOLEAN, Row(passed),
           grader = "keyword" /\ passed => GradeItem(Items[question], answer)
    PROVE  GateInv'
<1>1. /\ report' = Append(report, passed) /\ answers' = Append(answers, answer)
      /\ phase' = "idle" /\ retrieved' = {} /\ answer' = NoAnswer
      /\ grader' = grader /\ exit' = "running"
    BY DEF Row, GateInv
<1>2. /\ report' \in Seq(BOOLEAN) /\ answers' \in Seq(Answers)
      /\ Len(report') = Len(report) + 1 /\ Len(answers') = Len(report')
    BY <1>1 DEF GateInv
<1>3. Len(report') <= Len(Items)
    BY <1>2, ItemsLength DEF GateInv
<1>4. GradedByKeywords'
    <2>1. ASSUME grader = "keyword", NEW i \in 1 .. Len(report'), report'[i]
          PROVE  GradeItem(Items[i], answers'[i])
        <3>1. CASE i = Len(report) + 1
            <4>1. report'[i] = passed /\ answers'[i] = answer /\ question = i
                BY <1>1, <3>1 DEF GateInv
            <4>2. QED  BY <2>1, <4>1
        <3>2. CASE i # Len(report) + 1
            <4>1. i \in 1 .. Len(report)
                BY <1>2, <3>2 DEF GateInv
            <4>2. report'[i] = report[i] /\ answers'[i] = answers[i]
                BY <1>1, <4>1 DEF GateInv
            <4>3. QED  BY <2>1, <4>1, <4>2 DEF GateInv, GradedByKeywords
        <3>3. QED  BY <3>1, <3>2
    <2>2. QED  BY <1>1, <2>1 DEF GradedByKeywords
<1>5. retrieved' \in RecordSets /\ answer' \in Answers
    BY <1>1 DEF RecordSets, Answers
<1>6. QED  BY <1>1, <1>2, <1>3, <1>4, <1>5 DEF GateInv, Working

LEMMA GateHarnessStep == ASSUME GateInv, HarnessStep PROVE GateInv'
<1>1. CASE NextItem
    <2>1. /\ phase' = "embedding" /\ question' = Len(report) + 1
          /\ retrieved' = {} /\ answer' = NoAnswer
          /\ Len(report) < Len(Items) /\ exit = "running"
          /\ UNCHANGED <<grader, report, answers, exit>>
        BY <1>1 DEF NextItem, Ask, Running, harnessVars
    <2>2. retrieved' \in RecordSets /\ answer' \in Answers
        BY <2>1 DEF RecordSets, Answers
    <2>3. GradedByKeywords'
        BY <2>1 DEF GateInv, GradedByKeywords
    <2>4. QED  BY <2>1, <2>2, <2>3 DEF GateInv
<1>2. CASE GradeByKeywords
    <2>1. GradeItem(Items[question], answer) \in BOOLEAN
        BY DEF GradeItem
    <2>2. QED  BY <1>2, <2>1, GateRow DEF GradeByKeywords, Working
<1>3. ASSUME NEW text \in JudgeTexts, GradeByJudge(text) PROVE GateInv'
    <2>1. JudgePassed(text) \in BOOLEAN
        BY DEF JudgePassed
    <2>2. Working /\ grader # "keyword" /\ Row(JudgePassed(text))
        BY <1>3 DEF GradeByJudge, GateInv, Working
    <2>3. QED  BY <2>1, <2>2, GateRow
<1>4. CASE AskJudge
    <2>1. /\ phase = "answered" /\ phase' = "judging" /\ grader = "llm"
          /\ UNCHANGED <<question, retrieved, answer, grader, report, answers, exit>>
        BY <1>4 DEF AskJudge, harnessVars
    <2>2. GradedByKeywords'
        BY <2>1 DEF GateInv, GradedByKeywords
    <2>3. QED  BY <2>1, <2>2 DEF GateInv, Working
<1>5. CASE Abort \/ Exit
    <2>1. /\ UNCHANGED <<phase, question, retrieved, answer, grader, report, answers>>
          /\ ~Working
          /\ exit' = "success" => Len(report) = Len(Items) /\ ScoreReaches(report)
        BY <1>5 DEF Abort, Exit, researchVars, Working
    <2>2. GradedByKeywords'
        BY <2>1 DEF GateInv, GradedByKeywords
    <2>3. ScoreReaches(report)' = ScoreReaches(report)
        BY <2>1 DEF ScoreReaches, Passes
    <2>4. QED  BY <2>1, <2>2, <2>3 DEF GateInv, Working
<1>6. QED  BY <1>1, <1>2, <1>3, <1>4, <1>5 DEF HarnessStep

\* An item passed by keywords that expects a CVE has an answer on topic.
LEMMA PassedIsOnTopic ==
    ASSUME NEW item, NEW a, GradeItem(item, a), ExpectedCves(item) # {}
    PROVE  OnTopic(item, a)
BY DEF GradeItem, Matches, OnTopic

LEMMA GateIsSound == GateInv => CiGateSound
<1> SUFFICES ASSUME GateInv, exit = "success", grader = "keyword"
             PROVE  /\ Len(answers) = Len(Items)
                    /\ 100 * Cardinality({i \in DOMAIN Items :
                                 i \in Expecting => OnTopic(Items[i], answers[i])})
                          >= Threshold * Len(Items)
    BY DEF CiGateSound
<1> DEFINE good == {i \in DOMAIN Items : i \in Expecting => OnTopic(Items[i], answers[i])}
           passed == {i \in DOMAIN report : report[i]}
<1>1. /\ Len(report) = Len(Items) /\ Len(answers) = Len(Items) /\ ScoreReaches(report)
      /\ DOMAIN report = DOMAIN Items /\ DOMAIN Items = 1 .. Len(Items) /\ Len(Items) \in Nat
    BY ItemsLength DEF GateInv
<1>2. passed \subseteq good
    <2>1. ASSUME NEW i \in DOMAIN Items, report[i], i \in Expecting
          PROVE  OnTopic(Items[i], answers[i])
        <3>1. GradeItem(Items[i], answers[i])
            BY <1>1, <2>1 DEF GateInv, GradedByKeywords
        <3>2. ExpectedCves(Items[i]) # {}
            BY <2>1 DEF Expecting
        <3>3. QED  BY <3>1, <3>2, PassedIsOnTopic
    <2>2. QED  BY <1>1, <2>1
<1>3. IsFiniteSet(good)
    <2>1. IsFiniteSet(1 .. Len(Items))
        BY <1>1, FS_Interval
    <2>2. good \in SUBSET (1 .. Len(Items))
        BY <1>1
    <2> HIDE DEF good
    <2>3. QED  BY <2>1, <2>2, FS_Subset
<1>4. /\ IsFiniteSet(passed) /\ Cardinality(passed) <= Cardinality(good)
      /\ Cardinality(good) \in Nat /\ Cardinality(passed) \in Nat
    <2> HIDE DEF good, passed
    <2>1. IsFiniteSet(passed) /\ Cardinality(passed) <= Cardinality(good)
        BY <1>2, <1>3, FS_Subset
    <2>2. QED  BY <2>1, <1>3, FS_CardinalityType
<1>5. Threshold \in Nat
    BY HarnessAssumption
<1>6. 100 * Cardinality(good) >= Threshold * Len(Items)
    <2>1. CASE report = <<>>
        <3>1. Len(Items) = 0
            BY <1>1, <2>1
        <3> HIDE DEF good
        <3>2. QED  BY <3>1, <1>4, <1>5
    <2>2. CASE report # <<>>
        <3>1. 100 * Cardinality(passed) >= Threshold * Len(Items)
            BY <1>1, <2>2 DEF ScoreReaches, Passes
        <3> HIDE DEF good, passed
        <3>2. DEFINE limit == Threshold * Len(Items)
        <3>3. limit \in Int
            BY <1>1, <1>5
        <3>4. 100 * Cardinality(passed) <= 100 * Cardinality(good)
            BY <1>4
        <3>5. QED
            <4> HIDE DEF limit
            <4>1. 100 * Cardinality(passed) >= limit
                BY <3>1 DEF limit
            <4>2. 100 * Cardinality(good) >= limit
                BY <3>3, <3>4, <4>1, <1>4
            <4>3. QED  BY <4>2 DEF limit
    <2>3. QED  BY <2>1, <2>2
<1>7. QED  BY <1>1, <1>6

LEMMA GateStep == ASSUME GateInv, [Next]_vars PROVE GateInv'
<1>1. ASSUME UNCHANGED vars PROVE GateInv'
    <2>1. UNCHANGED <<phase, question, retrieved, answer, grader, report, answers, exit>>
        BY <1>1 DEF vars, researchVars, harnessVars
    <2>2. GradedByKeywords' /\ ScoreReaches(report)' = ScoreReaches(report)
        BY <1>1, <2>1 DEF GateInv, GradedByKeywords, ScoreReaches, Passes
    <2>3. QED  BY <1>1, <2>1, <2>2 DEF GateInv, Working
<1>2. QED  BY <1>1, GateAnswering, GateHarnessStep DEF Next

\* Exit 0 under the keyword grader: every item was answered, and the share of
\* answers that are on topic, with a citation, reaches the threshold.
THEOREM CiGateCorrect == Spec => []CiGateSound
BY GateInit, GateStep, GateIsSound, PTL DEF Spec

-----------------------------------------------------------------------------
(* Types *)

Phases == {"idle", "embedding", "searching", "drafting", "answered", "raised", "judging"}

TypeInv ==
    /\ phase \in Phases
    /\ question \in Questions \cup {NoQuestion}
    /\ tries \in 0 .. MaxTries
    /\ call \in CallType \cup {NoCall}
    /\ grader \in {"keyword", "llm"}
    /\ exit \in {"running", "success", "failure", "traceback"}

LEMMA NewCallType == ASSUME NEW endpoint \in Endpoints PROVE NewCall(endpoint) \in CallType
BY TransportAssumption DEF NewCall, CallType

\* An attempt is counted only while attempts are left.
LEMMA AttemptType == ASSUME call \in CallType \cup {NoCall}, Attempt PROVE call' \in CallType
<1>1. call \in CallType /\ MaxRetries \in Nat
    BY TransportAssumption DEF Attempt, AttemptFails, AttemptSucceeds, Sending
<1>2. ASSUME NEW failure \in Failures, AttemptFails(failure) PROVE call' \in CallType
    <2>1. CASE GivesUp(failure)
        BY <1>1, <1>2, <2>1 DEF AttemptFails, CallType
    <2>2. CASE ~GivesUp(failure)
        <3>1. call.attempt \in 0 .. MaxRetries /\ call.attempt # MaxRetries
            BY <1>1, <2>2 DEF GivesUp, CallType
        <3>2. call.attempt + 1 \in 0 .. MaxRetries
            BY <1>1, <3>1
        <3>3. call' = [call EXCEPT !.attempt = call.attempt + 1]
            BY <1>2, <2>2 DEF AttemptFails
        <3>4. QED  BY <1>1, <3>2, <3>3 DEF CallType
    <2>3. QED  BY <2>1, <2>2
<1>3. ASSUME NEW body \in Bodies, AttemptSucceeds(body) PROVE call' \in CallType
    BY <1>1, <1>3 DEF AttemptSucceeds, CallType
<1>4. QED  BY <1>2, <1>3 DEF Attempt

LEMMA TypeStep == ASSUME TypeInv, GateInv, [Next]_vars PROVE TypeInv'
<1> USE DEF TypeInv, Phases
<1>0. "embed" \in Endpoints /\ "generate" \in Endpoints /\ "judge" \in Endpoints /\ MaxTries \in Nat
    BY ResearchAssumption DEF Endpoints
<1>1. CASE UNCHANGED vars
    BY <1>1 DEF vars, researchVars, harnessVars
<1>2. CASE NextItem
    <2>1. Len(report) + 1 \in Questions
        <3>1. Questions = 1 .. Len(Items) /\ Len(Items) \in Nat
            BY ItemsLength, HarnessAssumption
        <3>2. Len(report) \in Nat /\ Len(report) < Len(Items)
            BY <1>2 DEF NextItem, GateInv
        <3>3. QED  BY <3>1, <3>2
    <2>2. QED  BY <1>0, <1>2, <2>1, NewCallType DEF NextItem, Ask, harnessVars
<1>3. CASE GradeByKeywords \/ \E text \in JudgeTexts : GradeByJudge(text)
    BY <1>0, <1>3 DEF GradeByKeywords, GradeByJudge, Row
<1>4. CASE AskJudge
    BY <1>0, <1>4, NewCallType DEF AskJudge, harnessVars
<1>5. CASE Abort \/ Exit
    BY <1>5 DEF Abort, Exit, researchVars
<1>6. CASE Answering /\ UNCHANGED harnessVars
    <2>1. UNCHANGED <<grader, exit>>
        BY <1>6 DEF harnessVars
    <2>2. CASE Embedded \/ SearchFails \/ BackendRaises
        BY <2>1, <2>2 DEF Embedded, SearchFails, BackendRaises
    <2>3. CASE PostAttempt
        BY <2>1, <2>3, AttemptType DEF PostAttempt
    <2>4. ASSUME NEW hits \in Hits, Searched(hits) PROVE TypeInv'
        BY <1>0, <2>1, <2>4, NewCallType DEF Searched
    <2>5. ASSUME NEW draft \in Drafts, TryAgain(draft) PROVE TypeInv'
        BY <1>0, <2>1, <2>5, NewCallType DEF TryAgain
    <2>6. ASSUME NEW draft \in Drafts, Conclude(draft) PROVE TypeInv'
        BY <2>1, <2>6 DEF Conclude
    <2>7. QED  BY <1>6, <2>2, <2>3, <2>4, <2>5, <2>6 DEF Answering
<1>7. QED  BY <1>1, <1>2, <1>3, <1>4, <1>5, <1>6 DEF Next, HarnessStep

\* Types; no question is tried and no call attempted more often than allowed,
\* and the report never outgrows the eval set.
THEOREM EvaluationTyped == Spec => []TypeOK
<1>1. HarnessInit => TypeInv
    <2>1. MaxTries \in Nat
        BY ResearchAssumption
    <2>2. QED  BY <2>1 DEF HarnessInit, ResearchInit, TransportInit, TypeInv, Phases
<1>2. TypeInv /\ GateInv /\ [Next]_vars => TypeInv'
    BY TypeStep
<1>3. GateInv => (answer # NoAnswer => answer.confident \in BOOLEAN)
    <2>1. ASSUME GateInv, answer # NoAnswer PROVE answer.confident \in BOOLEAN
        <3>1. CASE answer = Blank
            BY <3>1 DEF Blank, ResearchAnswer
        <3>2. ASSUME NEW draft \in Drafts, NEW records \in RecordSets,
                     answer = FinalAnswer(draft, records)
              PROVE  answer.confident \in BOOLEAN
            BY <3>2 DEF FinalAnswer, ResearchAnswer
        <3>3. QED  BY <2>1, <3>1, <3>2 DEF GateInv, Answers
    <2>2. QED  BY <2>1
<1>4. TypeInv /\ GateInv => TypeOK
    BY <1>3 DEF TypeInv, Phases, GateInv, RecordSets, TypeOK, ResearchTypeOK
<1>5. QED  BY <1>1, <1>2, <1>4, GateInit, GateStep, PTL DEF Spec
=============================================================================
