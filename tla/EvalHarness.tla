----------------------------- MODULE EvalHarness -----------------------------
(***************************************************************************)
(* The evaluation harness that drives the research agent through an eval   *)
(* set and decides a CI gate (agents/research/eval_harness.py), with its   *)
(* keyword grader and its LLM judge (eval_judge.py).                       *)
(***************************************************************************)
EXTENDS Researcher

CONSTANTS
    Items,          \* the eval set, in file order
    Threshold,      \* percent of items that must pass
    JudgeTexts      \* replies of the judge, as the PASS, FAIL and other words in them

ASSUME HarnessAssumption ==
    /\ Threshold \in 0 .. 100
    /\ Items \in Seq(ToSet(Items))
    /\ Questions = DOMAIN Items
    /\ <<>> \in JudgeTexts

VARIABLES
    grader,     \* --grader
    report,     \* EvalReport.items: whether each item passed
    answers,    \* history: the answers graded so far
    exit        \* how the process ended

harnessVars == <<grader, report, answers, exit>>
vars == <<researchVars, harnessVars>>

-----------------------------------------------------------------------------
(* Grading *)

\* A chained CVE counts as one more expected id.
ExpectedCves(item) == item.expected_cves \cup item.chained_with

Matches(expected, found, all) ==
    IF all THEN expected \subseteq found ELSE expected \cap found # {}

\* A bug that asks for a citation only where the item says must_cite.
MutantGradeItem(item, a) ==
    LET cves == ExpectedCves(item) IN
    /\ cves # {} => Matches(cves, a.cves_mentioned, item.must_match_all)
    /\ item.must_cite => a.citations # {}

\* grade_item without a judge.
GradeItem(item, a) ==
    LET cves == ExpectedCves(item) IN
    /\ cves # {} => Matches(cves, a.cves_mentioned, item.must_match_all)
    /\ cves = {} /\ item.expected_attck # {} =>
          Matches(item.expected_attck, a.text.words, item.must_match_all)
    /\ item.must_cite \/ cves # {} => a.citations # {}
    /\ item.keywords # {} => item.keywords \cap a.text.words # {}

\* The first PASS or FAIL anywhere in the reply decides; none is a FAIL.
JudgePassed(text) ==
    LET verdicts == SelectSeq(text, LAMBDA word : word \in {"PASS", "FAIL"})
    IN  verdicts # <<>> /\ Head(verdicts) = "PASS"

Passes(rows) == Cardinality({i \in DOMAIN rows : rows[i]})

\* score >= threshold; an empty eval set scores 0.
ScoreReaches(rows) ==
    IF rows = <<>> THEN Threshold = 0
    ELSE 100 * Passes(rows) >= Threshold * Len(rows)

-----------------------------------------------------------------------------
(* run() and main() *)

HarnessInit ==
    /\ ResearchInit
    /\ grader \in {"keyword", "llm"}
    /\ report = <<>> /\ answers = <<>>
    /\ exit = "running"

Running == exit = "running"

NextItem ==
    /\ Running /\ Len(report) < Len(Items)
    /\ Ask(Len(report) + 1)
    /\ UNCHANGED harnessVars

Row(passed) ==
    /\ report' = Append(report, passed)
    /\ answers' = Append(answers, answer)
    /\ phase' = "idle" /\ question' = NoQuestion
    /\ retrieved' = {} /\ tries' = 0 /\ answer' = NoAnswer
    /\ UNCHANGED <<grader, exit>>

GradeByKeywords ==
    /\ phase = "answered" /\ grader = "keyword"
    /\ Row(GradeItem(Items[question], answer))
    /\ UNCHANGED call

AskJudge ==
    /\ phase = "answered" /\ grader = "llm"
    /\ phase' = "judging" /\ call' = NewCall("judge")
    /\ UNCHANGED <<question, retrieved, tries, answer, harnessVars>>

GradeByJudge(text) ==
    /\ phase = "judging" /\ Returned
    /\ call.state = "empty" => text = <<>>
    /\ Row(JudgePassed(text))
    /\ call' = NoCall

\* Nothing catches a backend's error: the run ends without a report.
Abort ==
    /\ Running /\ phase = "raised"
    /\ exit' = "traceback"
    /\ UNCHANGED <<researchVars, grader, report, answers>>

Exit ==
    /\ Running /\ phase = "idle" /\ Len(report) = Len(Items)
    /\ exit' = IF ScoreReaches(report) THEN "success" ELSE "failure"
    /\ UNCHANGED <<researchVars, grader, report, answers>>

HarnessStep ==
    \/ NextItem \/ GradeByKeywords \/ AskJudge \/ Abort \/ Exit
    \/ \E text \in JudgeTexts : GradeByJudge(text)

Next == HarnessStep \/ (Answering /\ UNCHANGED harnessVars)

\* One thread that never waits without a timeout: urlopen is given one on
\* every request, so each step is taken or fails.
Spec == HarnessInit /\ [][Next]_vars /\ WF_vars(Next)

-----------------------------------------------------------------------------
(* Properties *)

TypeOK ==
    /\ ResearchTypeOK
    /\ grader \in {"keyword", "llm"}
    /\ report \in Seq(BOOLEAN) /\ Len(report) <= Len(Items)
    /\ Len(answers) = Len(report)
    /\ exit \in {"running", "success", "failure", "traceback"}

\* The answer names what the item expects and cites something for it.
OnTopic(item, a) ==
    /\ item.must_match_all => ExpectedCves(item) \subseteq a.cves_mentioned
    /\ ExpectedCves(item) \cap a.cves_mentioned # {} /\ a.citations # {}

Expecting == {i \in DOMAIN Items : ExpectedCves(Items[i]) # {}}

\* With the keyword grader the process exits 0 only after every item was
\* answered, and then at least the threshold's share of all items has an
\* answer that names the expected CVE with a citation, or expects none: an
\* item that was aborted, skipped or left uncited never helps the gate.
CiGateSound ==
    exit = "success" /\ grader = "keyword" =>
        /\ Len(answers) = Len(Items)
        /\ 100 * Cardinality({i \in DOMAIN Items :
                                 i \in Expecting => OnTopic(Items[i], answers[i])})
              >= Threshold * Len(Items)

\* Every evaluation ends, whatever the backends reply or fail to reply: no
\* draft and no error can keep the two nested retry loops going.
EvalEnds == <>(exit # "running")
=============================================================================
