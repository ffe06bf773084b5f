----------------------------- MODULE CorpusSeeder -----------------------------
(***************************************************************************)
(* Seeding the vector collection from a corpus file (seed_qdrant.py, with  *)
(* ensure_collection and upsert_records of qdrant_backend.py), and the     *)
(* operator who runs it again after a crash.                               *)
(*                                                                         *)
(* A point is stored as its record; its vector's length is the one the     *)
(* collection was created for.                                             *)
(***************************************************************************)
EXTENDS CorpusBuild

CONSTANTS
    SeedFiles,      \* files --jsonl may name: "nvd" (the default), "kev"
    VectorSizes,    \* vector lengths of the embedding models
    Unsized,        \* the length of a collection that reports none
    BatchSize,      \* --batch-size
    LogEvery,       \* the progress line is logged every so many records; 500
    Limits,         \* values of --limit the operator passes
    ResumePolicies, \* where the operator resumes: "stored", "logged"
    NoCollection, NoSeed,
    MaxSeeds, MaxFaults     \* bounds on the model

ASSUME SeederAssumption ==
    /\ SeedFiles \subseteq {"nvd", "kev"}
    /\ Unsized \notin VectorSizes
    /\ BatchSize \in Nat \ {0} /\ LogEvery \in Nat \ {0}
    /\ Limits \subseteq Nat
    /\ ResumePolicies \subseteq {"stored", "logged"}
    /\ MaxSeeds \in Nat /\ MaxFaults \in Nat

VARIABLES
    jsonl,      \* the file this collection is seeded from
    collection, \* the Qdrant collection: its vector length and its points
    seed,       \* the seed_qdrant process
    progress,   \* the last progress line of the last run that broke off
    givenUp,    \* history: positions whose embedding failed
    seeds       \* counter of the bound

seedVars == <<jsonl, collection, seed, progress, givenUp, seeds>>
vars == <<buildVars, seedVars>>

-----------------------------------------------------------------------------
(* The file's records *)

\* iter_corpus passes over lines that do not parse or have no id.
RecordsOf(lines) == Selected(lines, {i \in DOMAIN lines : lines[i] # TornLine})

\* The file --jsonl names.
SeedFile == IF jsonl = "kev" THEN kevFile ELSE nvdFile

Records == IF SeedFile = NoFile THEN <<>> ELSE RecordsOf(SeedFile)

-----------------------------------------------------------------------------
(* The operator *)

NoPoints == [n \in {} |-> n]
StoredIds == IF collection = NoCollection THEN {} ELSE DOMAIN collection.points
LastStored == IF StoredIds = {} THEN 0 ELSE CHOOSE n \in StoredIds : \A m \in StoredIds : m <= n

\* --start-at 0, or what the operator takes to be seeded already.
StartPoints ==
    {0} \cup (IF "stored" \in ResumePolicies THEN {LastStored} ELSE {})
        \cup (IF "logged" \in ResumePolicies THEN {progress} ELSE {})

NewSeed(startAt, recreate, limit, size) ==
    [pc |-> "probing", startAt |-> startAt, recreate |-> recreate, limit |-> limit,
     size |-> size, next |-> startAt + 1, batch |-> {}]

\* --start-at and --recreate exclude each other.
StartSeed ==
    /\ seed = NoSeed /\ seeds < MaxSeeds
    /\ fetching = NoFetch /\ SeedFile # NoFile
    /\ \E startAt \in StartPoints, recreate \in BOOLEAN, limit \in Limits, size \in VectorSizes :
          /\ startAt = 0 \/ ~recreate
          /\ seed' = NewSeed(startAt, recreate, limit, size)
    /\ seeds' = seeds + 1
    /\ UNCHANGED <<buildVars, jsonl, collection, progress, givenUp>>

-----------------------------------------------------------------------------
(* The process *)

Seeding(pc) == seed # NoSeed /\ seed.pc = pc
Go(pc) == seed' = [seed EXCEPT !.pc = pc]

\* The embedder answers a probe, which tells its vector length.
Probe ==
    /\ Seeding("probing")
    /\ Go(IF seed.recreate THEN "dropping" ELSE "checking")
    /\ UNCHANGED <<buildVars, jsonl, collection, progress, givenUp, seeds>>

\* DELETE; a missing collection is fine.
Drop ==
    /\ Seeding("dropping")
    /\ collection' = NoCollection
    /\ givenUp' = {}
    /\ Go("creating")
    /\ UNCHANGED <<buildVars, jsonl, progress, seeds>>

\* A bug that takes any existing collection for compatible.
MutantFits(size) == TRUE

\* Only a length that is reported can differ.
Fits(size) == collection.size \in {size, Unsized}

\* A bug that replaces an incompatible collection.
MutantCheck ==
    /\ Seeding("checking")
    /\ Go(IF collection = NoCollection THEN "creating"
          ELSE IF Fits(seed.size) THEN "embedding" ELSE "dropping")
    /\ UNCHANGED <<buildVars, jsonl, collection, progress, givenUp, seeds>>

\* GET: absent, create it; there with our vector length, use it; there with
\* another one, raise.
Check ==
    /\ Seeding("checking")
    /\ \/ collection = NoCollection /\ Go("creating")
       \/ collection # NoCollection /\ Fits(seed.size) /\ Go("embedding")
       \/ collection # NoCollection /\ ~Fits(seed.size) /\ seed' = NoSeed
    /\ UNCHANGED <<buildVars, jsonl, collection, progress, givenUp, seeds>>

Create ==
    /\ Seeding("creating")
    /\ collection' = [size |-> seed.size, points |-> NoPoints]
    /\ Go("embedding")
    /\ UNCHANGED <<buildVars, jsonl, progress, givenUp, seeds>>

\* _bounded: --limit counts from the start of the file.
LastRecord == IF seed.limit = 0 THEN Len(Records) ELSE Lesser(seed.limit, Len(Records))

AtEnd == seed.next > LastRecord

\* A bug that numbers the points of every run from 1.
MutantPointId(position) == position - seed.startAt

PointId(position) == position

\* A bug that lets a batch grow by one record too many.
MutantBatchFull(batch) == Cardinality(batch) > BatchSize

BatchFull(batch) == Cardinality(batch) >= BatchSize

EmbedRecord ==
    /\ Seeding("embedding") /\ ~AtEnd
    /\ LET batch == seed.batch \cup {seed.next}
       IN  seed' = [seed EXCEPT !.batch = batch, !.next = @ + 1,
                                !.pc = IF BatchFull(batch) THEN "flushing" ELSE @]
    /\ UNCHANGED <<buildVars, jsonl, collection, progress, givenUp, seeds>>

\* A record that cannot be embedded is passed over.
SkipRecord ==
    /\ Seeding("embedding") /\ ~AtEnd
    /\ FaultWithin(MaxFaults)
    /\ givenUp' = givenUp \cup {seed.next}
    /\ seed' = [seed EXCEPT !.next = @ + 1]
    /\ UNCHANGED <<nvd, cache, fetching, nvdFile, kevFile, stage, fetches,
                   jsonl, collection, progress, seeds>>

LastFlush ==
    /\ Seeding("embedding") /\ AtEnd /\ seed.batch # {}
    /\ Go("flushing")
    /\ UNCHANGED <<buildVars, jsonl, collection, progress, givenUp, seeds>>

Stored(points) ==
    LET ids == {PointId(position) : position \in seed.batch}
        recordOf(id) == Records[CHOOSE position \in seed.batch : PointId(position) = id]
    IN  [id \in DOMAIN points \cup ids |-> IF id \in ids THEN recordOf(id) ELSE points[id]]

\* Qdrant takes vectors of the length the collection was created for.  One
\* that reports none has named vectors, and takes none without a name.
Accepts == collection.size = seed.size

\* PUT of the batch; Qdrant overwrites points that exist.
Flush ==
    /\ Seeding("flushing") /\ Accepts
    /\ collection' = [collection EXCEPT !.points = Stored(@)]
    /\ seed' = [seed EXCEPT !.pc = "embedding", !.batch = {}]
    /\ UNCHANGED <<buildVars, jsonl, progress, givenUp, seeds>>

\* The last record the run took from the file, and the last progress line
\* it logged: when it takes a record, before it embeds it.
LastTaken == IF seed.pc = "embedding" THEN Lesser(seed.next, LastRecord) ELSE seed.next - 1

LastLogged ==
    LET logged == LastTaken - (LastTaken % LogEvery)
    IN  IF logged > seed.startAt THEN logged ELSE 0

\* Qdrant refuses the batch, which nothing catches.
FlushRefused ==
    /\ Seeding("flushing") /\ ~Accepts
    /\ seed' = NoSeed
    /\ progress' = LastLogged
    /\ UNCHANGED <<buildVars, jsonl, collection, givenUp, seeds>>

SeedDone ==
    /\ Seeding("embedding") /\ AtEnd /\ seed.batch = {}
    /\ seed' = NoSeed
    /\ UNCHANGED <<buildVars, jsonl, collection, progress, givenUp, seeds>>

\* The run breaks off: killed, or an error nothing catches.  A request whose
\* reply was lost may have been carried out.
SeedBreaks ==
    /\ seed # NoSeed
    /\ FaultWithin(MaxFaults)
    /\ \/ UNCHANGED <<collection, givenUp>>
       \/ Seeding("dropping") /\ collection' = NoCollection /\ givenUp' = {}
       \/ /\ Seeding("creating")
          /\ collection' = [size |-> seed.size, points |-> NoPoints]
          /\ UNCHANGED givenUp
       \/ /\ Seeding("flushing") /\ Accepts
          /\ collection' = [collection EXCEPT !.points = Stored(@)]
          /\ UNCHANGED givenUp
    /\ seed' = NoSeed
    /\ progress' = LastLogged
    /\ UNCHANGED <<nvd, cache, fetching, nvdFile, kevFile, stage, fetches, jsonl, seeds>>

\* What the seeding process does on its own.
SeedStep ==
    \/ Probe \/ Drop \/ Check \/ Create \/ EmbedRecord \/ LastFlush
    \/ Flush \/ FlushRefused \/ SeedDone

\* A collection of that name that some other program created.
SomeoneElses == [size |-> Unsized, points |-> NoPoints]

\* Every run on the collection is given the same --jsonl.
Init ==
    /\ BuildInit
    /\ jsonl \in SeedFiles
    /\ collection \in {NoCollection, SomeoneElses}
    /\ seed = NoSeed
    /\ progress = 0
    /\ givenUp = {}
    /\ seeds = 0

\* The corpus is rebuilt only until it is first seeded, and filtered only if
\* the filtered file is the one to seed.
Build ==
    /\ seeds = 0 /\ BuildStep
    /\ jsonl = "nvd" => kevFile' = NoFile
    /\ UNCHANGED seedVars

Next == Build \/ StartSeed \/ SeedStep \/ SkipRecord \/ SeedBreaks

\* A running command goes on.
FetchStep == (FetchPage \/ FetchThrottled) /\ UNCHANGED seedVars

Spec == Init /\ [][Next]_vars /\ WF_vars(FetchStep) /\ WF_vars(SeedStep)

-----------------------------------------------------------------------------
(* Properties *)

SeedType ==
    [pc : {"probing", "dropping", "checking", "creating", "embedding", "flushing"},
     startAt : Nat, recreate : BOOLEAN, limit : Limits, size : VectorSizes,
     next : Nat \ {0}, batch : SUBSET (Nat \ {0})]

\* No batch outgrows --batch-size, and it holds records already passed; the
\* rest are the annotations.
TypeOK ==
    /\ fetching = NoFetch \/ fetching.attempt <= FetchRetries
    /\ seed # NoSeed =>
          /\ seed \in SeedType
          /\ Cardinality(seed.batch) <= BatchSize
          /\ seed.batch \subseteq seed.startAt + 1 .. seed.next - 1
    /\ collection # NoCollection =>
          /\ collection.size \in VectorSizes \cup {Unsized}
          /\ DOMAIN collection.points \subseteq 1 .. Len(Records)

AtWork == seed # NoSeed /\ seed.pc \in {"embedding", "flushing"}

\* Whatever run, crash or resume came before, every record a run has left
\* behind is stored, in the batch in hand, or could not be embedded.  (A
\* resume starts at the last stored point.)
NoHoleBehind ==
    AtWork => \A n \in 1 .. seed.next - 1 : n \in StoredIds \cup seed.batch \cup givenUp

\* Embedding, hours of work, starts only against a collection that exists and
\* reports no other vector length (ensure_collection's docstring).  One that
\* reports none is taken for compatible.
EmbedsWhatFits ==
    AtWork => collection # NoCollection /\ collection.size \in {seed.size, Unsized}

\* Seeded from the filtered file, however often and with whatever crashes,
\* the collection never holds a CVE twice, though overlapping windows put it
\* into the unfiltered one twice: "duplicate vectors pollute retrieval
\* ranking" (filter_kev_corpus.py:172-174).  It says nothing of a collection
\* seeded from the unfiltered file, the default of --jsonl, which does hold
\* such a CVE twice, nor of a file rebuilt between two seedings.
NoCveTwice ==
    jsonl = "kev" => \A m, n \in StoredIds :
        collection.points[m].cve = collection.points[n].cve => m = n

\* The collection mirrors the corpus file, over crashes, lost replies and
\* resumes: a point is the record of its position (upsert_records' docstring).
Mirror == INSTANCE CorpusMirror WITH
    records <- Records,
    points <- IF collection = NoCollection THEN NoPoints ELSE collection.points

ImplementsMirror == Mirror!Spec

\* What the seeded file is to hold of the entries modified by --until.
Wanted ==
    {c \in DOMAIN nvd \ {NoId} :
        /\ nvd[c].modified <= Until
        /\ jsonl = "kev" => c \in KevIds \cup EvalIds}

\* The commands that lead to the seeded file have run, one after the other.
FileCurrent == stage = IF jsonl = "kev" THEN "filtered" ELSE "compacted"

SeedCompletes == seed # NoSeed /\ SeedDone /\ seed.limit = 0

\* From NVD to the collection: when fetch (while NVD stood still), compact,
\* filter if its file is the seeded one, and an unlimited seeding have each
\* run to their end, every CVE wanted of those NVD dates no later than --until
\* is a point, save those that could not be embedded.
EndToEnd ==
    [][ SeedCompletes /\ FileCurrent =>
            \A c \in Wanted :
                \/ \E n \in StoredIds : collection.points[n].cve = c
                \/ \E n \in givenUp : Records[n].cve = c ]_vars

Running == fetching # NoFetch \/ seed # NoSeed

\* A command that runs comes to an end, even if NVD throttles it for ever.
\* (No two run at once.)
CommandsEnd == Running ~> ~Running

\* The records --start-at passes over were seeded, or given up, by an earlier
\* run ("already seeded in a prior run", seed_qdrant.py:175).
SkippedWasSeeded == AtWork => \A n \in 1 .. seed.startAt : n \in StoredIds \cup givenUp
===============================================================================
