---------------------------- MODULE EvidenceGuard ----------------------------
(***************************************************************************)
(* The citation guard of the research agent                                *)
(* (agents/research/evidence_guard.py): which answers it accepts, given    *)
(* the records that were retrieved.  A url is an origin and its path       *)
(* segments; the order and the repetition of citations decide nothing and  *)
(* are left out, as are the wording of reasons and the audit trail.        *)
(***************************************************************************)
EXTENDS Naturals, FiniteSets, SequencesExt

CONSTANTS
    CveIds,                 \* strings of CVE shape
    ACCEPTED_SOURCE_PREFIXES,
    RequireCorroboration    \* require_corroboration, off by default

Url(scheme, netloc, path) == [scheme |-> scheme, netloc |-> netloc, path |-> path]

\* The page every retrieved CVE may be cited by.
CanonicalNvdUrl(cve) == Url("https", "nvd.nist.gov", <<"vuln", "detail", cve>>)

Citation(cve, url) == [cve_id |-> cve, url |-> url]

WellFormed(c) == c.cve_id \in CveIds /\ c.url.scheme \in {"http", "https"}

\* Same origin, and the path at or below the prefix on a segment boundary.
UrlAllowed(url) ==
    \E p \in ACCEPTED_SOURCE_PREFIXES :
        /\ url.scheme = p.scheme /\ url.netloc = p.netloc
        /\ IsPrefix(p.path, url.path)

-----------------------------------------------------------------------------
(* check *)

Ids(retrieved) == {r.cve_id : r \in retrieved}

RetrievedUrls(retrieved) ==
    UNION {r.references : r \in retrieved} \cup {CanonicalNvdUrl(id) : id \in Ids(retrieved)}

\* The rules one citation breaks; a malformed one is not looked at further.
CitationReasons(c, retrieved) ==
    IF ~WellFormed(c) THEN {"malformed"}
    ELSE (IF UrlAllowed(c.url) THEN {} ELSE {"R3"})
         \cup (IF c.cve_id \in Ids(retrieved) THEN {} ELSE {"R5"})
         \cup (IF c.url \in RetrievedUrls(retrieved) THEN {} ELSE {"R4"})

BrokenRules(mentioned, retrieved, citations) ==
    (IF mentioned \subseteq Ids(retrieved) THEN {} ELSE {"R2"})
    \cup (IF citations = {} THEN {"R1"} ELSE {})
    \cup UNION {CitationReasons(c, retrieved) : c \in citations}

Sources(citations) == {c.url.netloc : c \in citations}

\* rejected_reasons; an answer is accepted when there are none.
RejectedReasons(mentioned, retrieved, citations) ==
    LET broken == BrokenRules(mentioned, retrieved, citations)
    IN  IF /\ broken = {} /\ RequireCorroboration
           /\ Cardinality(Sources(citations)) < 2
        THEN {"corroboration"} ELSE broken
=============================================================================
