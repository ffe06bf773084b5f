------------------------------ MODULE Researcher ------------------------------
(***************************************************************************)
(* The citation-bound research agent (agents/research/researcher.py) over  *)
(* its two backends: the vector search (qdrant_backend.py) and the         *)
(* language model behind OllamaTransport.  answer() is one thread; each of *)
(* its requests to a backend is a step, and what the backend replies is    *)
(* open.                                                                   *)
(*                                                                         *)
(* A draft is what answer() reads in the model's text: the CVE ids it      *)
(* mentions, the citations written in it (whose ids it therefore mentions) *)
(* and the other words a grader looks for.                                 *)
(***************************************************************************)
EXTENDS EvidenceGuard, OllamaTransport

CONSTANTS
    Questions,
    Hits,           \* result lists the search may return, as sets of payloads
    BlankHit,       \* a point whose payload has no cve_id
    Drafts,         \* texts the model may write
    MaxTries,       \* max_retries of the Researcher; 2 in the code
    NoQuestion, NoAnswer

EmptyDraft == [mentions |-> {}, cites |-> {}, words |-> {}]

ASSUME ResearchAssumption ==
    /\ MaxTries \in Nat
    /\ EmptyDraft \in Drafts
    /\ \A d \in Drafts : {c.cve_id : c \in d.cites} \subseteq d.mentions

VARIABLES
    phase,      \* where answer() is
    question,
    retrieved,  \* the records of this question
    tries,      \* attempt
    answer      \* the ResearchAnswer returned last

researchVars == <<phase, question, retrieved, tries, answer, call>>

-----------------------------------------------------------------------------
(* Texts and citations *)

\* The two canned texts mention no CVE and no grader's word.
NothingRetrieved == [EmptyDraft EXCEPT !.words = {"no records"}]
Refusal == [EmptyDraft EXCEPT !.words = {"unable"}]

\* A bug that completes citations only for a text that has none.
MutantCompleteCitations(draft, records) ==
    IF draft.cites # {} THEN draft.cites
    ELSE {Citation(id, CanonicalNvdUrl(id)) : id \in draft.mentions \cap Ids(records)}

\* Every retrieved CVE the text names without citing it gets its NVD page.
CompleteCitations(draft, records) ==
    draft.cites \cup
    {Citation(id, CanonicalNvdUrl(id)) :
        id \in (draft.mentions \cap Ids(records)) \ {c.cve_id : c \in draft.cites}}

ReasonsFor(draft, records) ==
    RejectedReasons(draft.mentions, records, CompleteCitations(draft, records))

\* A bug that takes the last rule broken for the only one.
MutantIsHallucination(reasons) == reasons = {"R2"}

IsHallucination(reasons) == "R2" \in reasons

ResearchAnswer(text, mentions, citations, confident) ==
    [text |-> text, cves_mentioned |-> mentions, citations |-> citations,
     confident |-> confident]

\* What answer() returns once draft is the last one it will ask for.
FinalAnswer(draft, records) ==
    LET reasons == ReasonsFor(draft, records)
        citations == CompleteCitations(draft, records)
    IN  IF reasons = {} THEN ResearchAnswer(draft, draft.mentions, citations, TRUE)
        ELSE IF IsHallucination(reasons)
        THEN ResearchAnswer(Refusal, draft.mentions, citations, FALSE)
        ELSE ResearchAnswer(draft, draft.mentions, citations, FALSE)

-----------------------------------------------------------------------------
(* answer() *)

ResearchInit ==
    /\ TransportInit
    /\ phase = "idle" /\ question = NoQuestion
    /\ retrieved = {} /\ tries = 0
    /\ answer = NoAnswer

\* retrieve() first embeds the question.
Ask(q) ==
    /\ phase = "idle"
    /\ phase' = "embedding" /\ question' = q
    /\ retrieved' = {} /\ tries' = 0 /\ answer' = NoAnswer
    /\ call' = NewCall("embed")

\* An answer without a vector is an error as well.
Embedded ==
    /\ phase = "embedding" /\ Returned
    /\ phase' = IF call.state = "content" THEN "searching" ELSE "raised"
    /\ call' = NoCall
    /\ UNCHANGED <<question, retrieved, tries, answer>>

\* Points without an id are dropped; no record at all ends the question.
Searched(hits) ==
    LET records == hits \ {BlankHit} IN
    /\ phase = "searching"
    /\ retrieved' = records
    /\ IF records = {}
       THEN /\ phase' = "answered"
            /\ answer' = ResearchAnswer(NothingRetrieved, {}, {}, FALSE)
            /\ UNCHANGED call
       ELSE /\ phase' = "drafting"
            /\ call' = NewCall("generate")
            /\ UNCHANGED answer
    /\ UNCHANGED <<question, tries>>

\* QdrantTransport does not retry: an error goes to the caller.
SearchFails ==
    /\ phase = "searching"
    /\ phase' = "raised"
    /\ UNCHANGED <<question, retrieved, tries, answer, call>>

\* The texts a reply of the model stands for.
TextsOf(body) == IF body = "empty" THEN {EmptyDraft} ELSE Drafts

\* A bug in the loop that leaves the counter alone.
MutantTryAgain(draft) ==
    /\ phase = "drafting" /\ Returned /\ draft \in TextsOf(call.state)
    /\ ReasonsFor(draft, retrieved) # {} /\ tries < MaxTries
    /\ call' = NewCall("generate")
    /\ UNCHANGED <<phase, question, retrieved, tries, answer>>

\* The guard rejected the draft, and there are attempts left.
TryAgain(draft) ==
    /\ phase = "drafting" /\ Returned /\ draft \in TextsOf(call.state)
    /\ ReasonsFor(draft, retrieved) # {} /\ tries < MaxTries
    /\ tries' = tries + 1
    /\ call' = NewCall("generate")
    /\ UNCHANGED <<phase, question, retrieved, answer>>

Conclude(draft) ==
    /\ phase = "drafting" /\ Returned /\ draft \in TextsOf(call.state)
    /\ ReasonsFor(draft, retrieved) = {} \/ tries = MaxTries
    /\ answer' = FinalAnswer(draft, retrieved)
    /\ phase' = "answered"
    /\ call' = NoCall
    /\ UNCHANGED <<question, retrieved, tries>>

\* What the transport raises, its callers do not catch.
BackendRaises ==
    /\ phase # "raised" /\ Raised
    /\ phase' = "raised"
    /\ UNCHANGED <<question, retrieved, tries, answer, call>>

PostAttempt ==
    /\ Attempt
    /\ UNCHANGED <<phase, question, retrieved, tries, answer>>

Answering ==
    \/ Embedded \/ SearchFails \/ BackendRaises \/ PostAttempt
    \/ \E hits \in Hits : Searched(hits)
    \/ \E draft \in Drafts : TryAgain(draft) \/ Conclude(draft)

-----------------------------------------------------------------------------
(* Properties *)

ResearchTypeOK ==
    /\ phase \in {"idle", "embedding", "searching", "drafting", "answered", "raised", "judging"}
    /\ question \in Questions \cup {NoQuestion}
    /\ retrieved \in {hits \ {BlankHit} : hits \in Hits} \cup {{}}
    /\ tries \in 0 .. MaxTries
    /\ call \in CallType \cup {NoCall}
    /\ answer # NoAnswer => answer.confident \in BOOLEAN

CitedBy(id, citations, records) ==
    \E c \in citations :
        /\ c.cve_id = id
        /\ UrlAllowed(c.url)
        /\ c.url \in RetrievedUrls(records)

\* A confident answer names only retrieved CVEs, at least one, and each of
\* them by a citation of its own to an accepted page the retrieved evidence
\* points at: a claim never rides on the citation of another CVE, whatever
\* the model wrote in this attempt or an earlier one (researcher.py:4-9).
EveryMentionIsCited ==
    answer # NoAnswer /\ answer.confident =>
        /\ answer.citations # {}
        /\ answer.text.mentions = answer.cves_mentioned
        /\ \A id \in answer.text.mentions :
              id \in Ids(retrieved) /\ CitedBy(id, answer.citations, retrieved)

\* No text that leaves the agent, confident or not, names a CVE outside the
\* retrieved evidence ("hallucinations must NEVER escape the agent",
\* researcher.py:83).
NoUnsupportedTextEscapes ==
    answer # NoAnswer => answer.text.mentions \subseteq Ids(retrieved)

\* R4, "every citation's URL appears in the retrieved record's references"
\* (evidence_guard.py:117): the page cited for a CVE is one its own record
\* lists, or its NVD page.
CitationBacksItsCve ==
    answer # NoAnswer /\ answer.confident =>
        \A c \in answer.citations :
            \/ c.url = CanonicalNvdUrl(c.cve_id)
            \/ \E r \in retrieved : r.cve_id = c.cve_id /\ c.url \in r.references
=============================================================================
