----------------------------- MODULE CorpusBuild -----------------------------
(***************************************************************************)
(* Building the researcher's corpus: ingest_nvd.py fetches pages of NVD    *)
(* records into a disk cache and compacts the cache into one file;         *)
(* filter_kev_corpus.py reduces that file to the records the eval needs.   *)
(* Each is a command the operator runs; what is on disk survives it.       *)
(*                                                                         *)
(* A record is its CVE and a version, the revision NVD served; its other   *)
(* fields, and the KEV text folded into its description, follow from them. *)
(***************************************************************************)
EXTENDS Naturals, FiniteSets, SequencesExt

CONSTANTS
    NvdOrder,       \* NVD's entries, in the order it lists them
    NoId,           \* an entry without a CVE id
    FirstModified,  \* when each entry was last modified, at the start; a
                    \* date after Until stands for all of them
    Until, Width,   \* fetch --until (--since is 0); the window width
    PageSize,       \* PAGE_SIZE
    FetchRetries,   \* how often a throttled page is asked for again; 5
    KevIds, EvalIds,    \* CVE ids in the KEV catalog and in the eval file
    TornPage,       \* a cache page whose write was cut short
    TornLine,       \* a corpus line whose write was cut short
    NoFetch, NoFile,
    MaxFetches, MaxBuildFaults  \* bounds on the model

ASSUME BuildAssumption ==
    /\ Until \in Nat \ {0} /\ Width \in Nat \ {0} /\ PageSize \in Nat \ {0}
    /\ NvdOrder \in Seq(ToSet(NvdOrder))
    /\ FirstModified \in [ToSet(NvdOrder) -> 0 .. Until + 1]
    /\ NoId \notin KevIds \cup EvalIds
    /\ FetchRetries \in Nat /\ MaxFetches \in Nat /\ MaxBuildFaults \in Nat

VARIABLES
    nvd,        \* NVD: each entry's modification date and version
    cache,      \* the page files: <<window, startIndex>> -> page
    fetching,   \* the fetch command in progress
    nvdFile,    \* nvd_corpus.jsonl
    kevFile,    \* kev_corpus.jsonl
    stage,      \* history: how far the last chain of commands came intact
    fetches, faults \* counters of the bounds

buildVars == <<nvd, cache, fetching, nvdFile, kevFile, stage, fetches, faults>>

Lesser(a, b) == IF a < b THEN a ELSE b
Update(f, k, v) == [x \in DOMAIN f \cup {k} |-> IF x = k THEN v ELSE f[x]]

\* The members of a finite set, in order: n - 1 of them come before the n-th.
InOrder(S, Before(_, _)) ==
    [n \in 1 .. Cardinality(S) |->
        CHOOSE x \in S : Cardinality({y \in S : Before(y, x)}) = n - 1]

\* What stands at these places of a sequence, in order.
Selected(s, places) ==
    LET chosen == InOrder(places, <) IN [n \in DOMAIN chosen |-> s[chosen[n]]]

\* Something outside the programs goes wrong.
FaultWithin(bound) == faults < bound /\ faults' = faults + 1
Fault == FaultWithin(MaxBuildFaults)

-----------------------------------------------------------------------------
(* fetch *)

\* _iter_windows: consecutive windows share their boundary.
Windows ==
    [i \in 1 .. (Until + Width - 1) \div Width |-> <<(i - 1) * Width, Lesser(i * Width, Until)>>]

Stamp(c) == [cve |-> c, version |-> nvd[c].version]

\* What NVD lists for a window, both ends included.
Results(w) ==
    LET places == {i \in DOMAIN NvdOrder : nvd[NvdOrder[i]].modified \in w[1] .. w[2]}
        listed == Selected(NvdOrder, places)
    IN  [i \in DOMAIN listed |-> Stamp(listed[i])]

Listed == Results(Windows[fetching.window])
Page == SubSeq(Listed, fetching.start + 1, Lesser(fetching.start + PageSize, Len(Listed)))

\* A bug that leaves out a last page of one record.
MutantLastPage(total) == fetching.start + PageSize + 1 >= total

LastPage(total) == fetching.start + PageSize >= total

FirstRequest(upstream) == [window |-> 1, start |-> 0, attempt |-> 0, upstream |-> upstream]

StartFetch ==
    /\ fetching = NoFetch /\ fetches < MaxFetches
    /\ fetching' = FirstRequest(nvd)
    /\ fetches' = fetches + 1
    /\ stage' = "none"
    /\ UNCHANGED <<nvd, cache, nvdFile, kevFile, faults>>

\* Go on to the next window; after the last one the command is done.
NextWindow ==
    IF fetching.window < Len(Windows)
    THEN /\ fetching' = [fetching EXCEPT !.window = @ + 1, !.start = 0, !.attempt = 0]
         /\ UNCHANGED stage
    ELSE /\ fetching' = NoFetch
         /\ stage' = IF nvd = fetching.upstream THEN "fetched" ELSE "none"

\* NVD answers: the page, if it holds anything, overwrites the cached one.
FetchPage ==
    /\ fetching # NoFetch
    /\ cache' = IF Page = <<>> THEN cache
                ELSE Update(cache, <<fetching.window, fetching.start>>, Page)
    /\ IF Page = <<>> \/ LastPage(Len(Listed))
       THEN NextWindow
       ELSE /\ fetching' = [fetching EXCEPT !.start = @ + PageSize, !.attempt = 0]
            /\ UNCHANGED stage
    /\ UNCHANGED <<nvd, nvdFile, kevFile, fetches, faults>>

\* A bug that starts counting again at every retry.
MutantAttemptAfter == 1 - fetching.attempt

AttemptAfter == fetching.attempt + 1

\* 429 or 503: ask for the page again after a pause, a bounded number of
\* times; then raise.
FetchThrottled ==
    /\ fetching # NoFetch
    /\ fetching' = IF AttemptAfter <= FetchRetries
                   THEN [fetching EXCEPT !.attempt = AttemptAfter]
                   ELSE NoFetch
    /\ UNCHANGED <<nvd, cache, nvdFile, kevFile, stage, fetches, faults>>

\* Any other error, or killed: the command ends.  Killed while it writes a
\* page, it leaves a torn one.
FetchStops ==
    /\ fetching # NoFetch
    /\ Fault
    /\ \/ UNCHANGED cache
       \/ /\ Page # <<>>
          /\ cache' = Update(cache, <<fetching.window, fetching.start>>, TornPage)
    /\ fetching' = NoFetch
    /\ UNCHANGED <<nvd, nvdFile, kevFile, stage, fetches>>

\* NVD revises an entry, which moves it to the end of the range of dates that
\* are fetched, or beyond.
NvdEdits ==
    /\ Fault
    /\ \E c \in DOMAIN nvd, today \in {Until, Until + 1} :
          /\ nvd[c].modified <= today
          /\ nvd' = [nvd EXCEPT ![c] = [modified |-> today, version |-> @.version + 1]]
    /\ UNCHANGED <<cache, fetching, nvdFile, kevFile, stage, fetches>>

-----------------------------------------------------------------------------
(* compact *)

\* File names sort by window, then by startIndex.
NamedBefore(k, l) == k[1] < l[1] \/ (k[1] = l[1] /\ k[2] < l[2])

\* The page files that are read: those before the first torn one, which raises.
ReadPages == {k \in DOMAIN cache : \A l \in DOMAIN cache : cache[l] = TornPage => NamedBefore(k, l)}

\* The entries of those pages; _flatten_cve drops those without an id.
Entries ==
    {e \in ReadPages \X (1 .. PageSize) :
        e[2] \in DOMAIN cache[e[1]] /\ cache[e[1]][e[2]].cve # NoId}

EntryBefore(d, e) == NamedBefore(d[1], e[1]) \/ (d[1] = e[1] /\ d[2] < e[2])

Compacted ==
    LET entries == InOrder(Entries, EntryBefore)
    IN  [n \in DOMAIN entries |-> cache[entries[n][1]][entries[n][2]]]

PagesIntact == TornPage \notin {cache[k] : k \in DOMAIN cache}

Compact ==
    /\ fetching = NoFetch
    /\ nvdFile' = Compacted
    /\ stage' = IF PagesIntact /\ stage = "fetched" THEN "compacted" ELSE "none"
    /\ UNCHANGED <<nvd, cache, fetching, kevFile, fetches, faults>>

\* What a command killed while it writes those lines leaves in its file.
CutShort(lines) == {SubSeq(lines, 1, n) \o torn : n \in 0 .. Len(lines), torn \in {<<>>, <<TornLine>>}}

CompactKilled ==
    /\ fetching = NoFetch
    /\ Fault
    /\ nvdFile' \in CutShort(Compacted)
    /\ stage' = "none"
    /\ UNCHANGED <<nvd, cache, fetching, kevFile, fetches>>

-----------------------------------------------------------------------------
(* filter_kev_corpus.py *)

\* A missing eval file counts as one that names no CVE.
KeepSet(evalFound) == KevIds \cup IF evalFound THEN EvalIds ELSE {}

\* A bug that keeps every row of a CVE.
MutantFirstRows(lines, keep) ==
    {i \in DOMAIN lines : lines[i] # TornLine /\ lines[i].cve \in keep}

\* The first row of each CVE to keep.
FirstRows(lines, keep) ==
    {i \in DOMAIN lines :
        /\ lines[i] # TornLine /\ lines[i].cve \in keep
        /\ \A j \in 1 .. i - 1 : lines[j] # TornLine => lines[j].cve # lines[i].cve}

Filtered(lines, keep) == Selected(lines, FirstRows(lines, keep))

\* A KEV feed that cannot be loaded ends the command before it opens its output.
FilterKev ==
    /\ fetching = NoFetch /\ nvdFile # NoFile
    /\ \E evalFound \in BOOLEAN :
          /\ kevFile' = Filtered(nvdFile, KeepSet(evalFound))
          /\ stage' = IF stage = "compacted" /\ evalFound THEN "filtered" ELSE "none"
    /\ UNCHANGED <<nvd, cache, fetching, nvdFile, fetches, faults>>

FilterKilled ==
    /\ fetching = NoFetch /\ nvdFile # NoFile
    /\ Fault
    /\ kevFile' \in CutShort(Filtered(nvdFile, KeepSet(TRUE)))
    /\ stage' = "none"
    /\ UNCHANGED <<nvd, cache, fetching, nvdFile, fetches>>

BuildInit ==
    /\ nvd = [c \in ToSet(NvdOrder) |-> [modified |-> FirstModified[c], version |-> 0]]
    /\ cache = [k \in {} |-> <<>>]
    /\ fetching = NoFetch
    /\ nvdFile = NoFile /\ kevFile = NoFile
    /\ stage = "none"
    /\ fetches = 0 /\ faults = 0

BuildStep ==
    \/ StartFetch \/ FetchPage \/ FetchThrottled \/ FetchStops \/ NvdEdits
    \/ Compact \/ CompactKilled \/ FilterKev \/ FilterKilled
=============================================================================
