------------------------------ MODULE MCResearch ------------------------------
(* EvalHarness for TLC: two items over a corpus of two records. *)
EXTENDS EvalHarness, TLC

\* Two corpus CVEs, and one no record has.
log4shell == "CVE-2021-44228"
spring == "CVE-2022-22965"
invented == "CVE-2099-0001"
MCCveIds == {log4shell, spring, invented}

Nvd == Url("https", "nvd.nist.gov", <<>>)
Catalog == Url("https", "www.cisa.gov", <<"known-exploited-vulnerabilities-catalog">>)
MCPrefixes == {Nvd, Catalog}

Advisory == Url("https", "www.cisa.gov", <<"known-exploited-vulnerabilities-catalog", "spring">>)
LookAlike == Url("https", "www.cisa.gov", <<"known-exploited-vulnerabilities-catalog-x">>)

LogRecord == [cve_id |-> log4shell, references |-> {LookAlike}]
SpringRecord == [cve_id |-> spring, references |-> {Advisory}]

MCHits == {{BlankHit}, {SpringRecord}, {LogRecord, SpringRecord, BlankHit}}

Draft(mentions, cites, words) == [mentions |-> mentions, cites |-> cites, words |-> words]

\* Nothing; a bare name; two names and one citation; a citation of the other
\* record's page; a page outside the accepted prefixes; an invented CVE, bare,
\* beside a real one, and with an unacceptable citation.
MCDrafts ==
    {Draft({}, {}, {}),
     Draft({log4shell}, {}, {"T1190", "patch"}),
     Draft({log4shell, spring}, {Citation(spring, Advisory)}, {"patch"}),
     Draft({log4shell}, {Citation(log4shell, Advisory)}, {}),
     Draft({log4shell}, {Citation(log4shell, LookAlike)}, {"T1190"}),
     Draft({log4shell, invented}, {}, {"patch"}),
     Draft({invented}, {Citation(invented, LookAlike)}, {})}

\* Any of a chained pair, with a keyword; and an ATT&CK item.
MCItems ==
    <<[expected_cves |-> {log4shell}, chained_with |-> {spring}, expected_attck |-> {},
       keywords |-> {"patch"}, must_match_all |-> FALSE, must_cite |-> FALSE],
      [expected_cves |-> {}, chained_with |-> {}, expected_attck |-> {"T1190"},
       keywords |-> {}, must_match_all |-> TRUE, must_cite |-> TRUE]>>
MCQuestions == DOMAIN MCItems

MCJudgeTexts == {<<>>, <<"PASS">>, <<"FAIL", "PASS">>, <<"not", "PASS">>}
=============================================================================
