------------------------------- MODULE MCCorpus -------------------------------
(* CorpusSeeder for TLC. *)
EXTENDS CorpusSeeder

CONSTANTS c1, c2, c3

\* Four entries over two windows: c2 lies on their boundary, c1 alone on the
\* second page of the first, and one entry has no id.
MCNvdOrder == <<c2, NoId, c1, c3>>
MCFirstModified ==
    [c \in ToSet(MCNvdOrder) |-> IF c \in {c1, NoId} THEN 0 ELSE IF c = c2 THEN 1 ELSE 2]
===============================================================================
